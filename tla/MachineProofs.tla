--------------------------- MODULE MachineProofs ---------------------------
(***************************************************************************)
(* Theorems about the main loop for every word size, memory, program and   *)
(* set of seeds: type correctness, that no exception stays pending, that   *)
(* the watchdog loses no tick, that an exception entry followed by the     *)
(* exit from the same frame gives the interrupted registers back, that the *)
(* cycle counters on top of the loop count every cycle once, and, for      *)
(* every program that keeps the stack discipline, that the frames of the   *)
(* handlers that run stay intact and that the loop implements a program    *)
(* that nothing ever interrupts.                                           *)
(***************************************************************************)
EXTENDS CycleAccounting, MachineRefines, FiniteSetTheorems, TLAPS

Memory == [MemWords -> Word]

\* What every handler returns.  32 ticks, the most of any, are muls'.
MaxTicks == 32
Outcomes == [cpu : CPU, mem : Memory, ticks : 0 .. MaxTicks, taken : BOOLEAN,
             exit : {"no", "exit0", "exit1", "reset"}]

-----------------------------------------------------------------------------
(***************************************************************************)
(* Arithmetic on words                                                     *)
(***************************************************************************)

\* WordMod is 16 * q, so the weights of the four flags are exact.
LEMMA Quarters ==
  \E q \in Nat \ {0} : /\ WordMod = 16 * q /\ WordMod \div 2 = 8 * q
                       /\ WordMod \div 4 = 4 * q /\ WordMod \div 8 = 2 * q
                       /\ WordMod \div 16 = q
<1> DEFINE q == WordMod \div 16
<1>1. q \in Nat \ {0} /\ WordMod = 16 * q
  BY CpuAssumption
<1>2. WordMod \div 2 = 8 * q /\ WordMod \div 4 = 4 * q /\ WordMod \div 8 = 2 * q
  BY <1>1
<1> QED BY <1>1, <1>2

\* The remainder of a division by a positive number.
LEMMA Remainder ==
  ASSUME NEW x \in Int, NEW n \in Nat \ {0} PROVE x % n \in 0 .. n - 1
OBVIOUS

\* A number below 4 * n, rounded down to a multiple of n.
LEMMA RoundDown ==
  ASSUME NEW n \in Nat \ {0}, NEW x \in 0 .. 4 * n - 1
  PROVE  x - (x % n) \in 0 .. 3 * n
OBVIOUS

\* Every wrapped number is a word.
LEMMA WrapWord == ASSUME NEW x \in Int PROVE Wrap(x) \in Word
BY CpuAssumption, Remainder DEF Wrap, Word

\* A register write keeps the processor well typed.
LEMMA SetGprType ==
  ASSUME NEW c \in CPU, NEW r, NEW v \in Word
  PROVE  SetGpr(c, r, v) \in CPU /\ SetGpr(c, r, v).exceptmask = c.exceptmask
BY DEF SetGpr, CPU

\* So does an update of the flags N and Z.
LEMMA SetNZType ==
  ASSUME NEW c \in CPU, NEW res \in Word
  PROVE  SetNZ(c, res) \in CPU /\ SetNZ(c, res).exceptmask = c.exceptmask
<1>1. PICK q \in Nat \ {0} : /\ WordMod = 16 * q /\ WordMod \div 2 = 8 * q
                             /\ WordMod \div 4 = 4 * q
  BY Quarters
<1> DEFINE a == Bit(res >= WordMod \div 2, WordMod \div 2)
                + Bit(res = 0, WordMod \div 4) + (c.apsr % (WordMod \div 4))
<1>2. c.apsr \in Int
  BY DEF CPU, Word
<1>3. c.apsr % (4 * q) \in 0 .. 4 * q - 1
  <2>1. 4 * q \in Nat \ {0}
    OBVIOUS
  <2> QED BY <1>2, <2>1, Remainder
<1>4. Bit(res >= WordMod \div 2, WordMod \div 2) \in {0, 8 * q}
  BY <1>1 DEF Bit
<1>5. Bit(res = 0, WordMod \div 4) \in {0, 4 * q}
  BY <1>1 DEF Bit
<1>6. a \in Word
  BY <1>1, <1>3, <1>4, <1>5 DEF Word
<1> QED BY <1>6 DEF SetNZ, CPU

\* And of C and V.
LEMMA SetCVType ==
  ASSUME NEW c \in CPU, NEW a, NEW s, NEW carry, NEW res
  PROVE  SetCV(c, a, s, carry, res) \in CPU
         /\ SetCV(c, a, s, carry, res).exceptmask = c.exceptmask
<1>1. PICK q \in Nat \ {0} : /\ WordMod = 16 * q /\ WordMod \div 4 = 4 * q
                             /\ WordMod \div 8 = 2 * q /\ WordMod \div 16 = q
  BY Quarters
<1> DEFINE neg(x) == x >= WordMod \div 2
           low(x) == x % (WordMod \div 16)
           top    == c.apsr - (c.apsr % (WordMod \div 4))
           bitC   == Bit(a + s + carry >= WordMod, WordMod \div 8)
           bitV   == Bit(neg(a) = neg(s) /\ neg(res) # neg(a), WordMod \div 16)
<1>2. c.apsr \in Int /\ c.apsr >= 0 /\ c.apsr < 16 * q
  BY <1>1 DEF CPU, Word
<1>3. low(c.apsr) \in 0 .. q - 1
  BY <1>1, <1>2, Remainder
<1>4. top \in 0 .. 12 * q
  <2>1. 4 * q \in Nat \ {0} /\ c.apsr \in 0 .. 4 * (4 * q) - 1
    BY <1>2
  <2>2. c.apsr - (c.apsr % (4 * q)) \in 0 .. 3 * (4 * q)
    BY <2>1, RoundDown
  <2> QED BY <1>1, <2>2
<1>5. bitC \in {0, 2 * q} /\ bitV \in {0, q}
  BY <1>1 DEF Bit
<1>6. top + bitC + bitV + low(c.apsr) \in Word
  BY <1>1, <1>3, <1>4, <1>5 DEF Word
<1> QED BY <1>6 DEF SetCV, CPU

-----------------------------------------------------------------------------
(***************************************************************************)
(* The handlers.  Each is well typed, returns at least one tick, and       *)
(* raises no exception by itself.                                          *)
(***************************************************************************)
Handled(r, c) == /\ r \in Outcomes
                 /\ r.cpu.exceptmask \subseteq c.exceptmask
                 /\ r.exit \in {"no", "reset"} => r.ticks # 0

\* A call of sim_exit.
LEMMA ExitsHandled ==
  ASSUME NEW c \in CPU, NEW m \in Memory, NEW how \in {"exit0", "exit1"}
  PROVE  Handled(Exits(c, m, how), c)
BY DEF Handled, Exits, Outcomes, MaxTicks

\* The arithmetic handlers write one register and the flags.
LEMMA ArithmeticHandled ==
  ASSUME NEW c \in CPU, NEW m \in Memory, NEW d \in DECODE_RESULT
  PROVE  /\ Handled(movs_i(c, m, d), c)
         /\ Handled(adds_i8(c, m, d), c)
         /\ Handled(subs_i8(c, m, d), c)
         /\ Handled(muls(c, m, d), c)
<1> USE DEF MaxTicks
<1>1. d.rD \in GPR /\ d.rM \in GPR /\ d.imm \in Int
  BY DEF DECODE_RESULT, GPR
<1>2. c.gpr[d.rD] \in Word /\ c.gpr[d.rM] \in Word
  BY <1>1 DEF CPU
<1>3. Wrap(d.imm) \in Word
  BY <1>1, WrapWord
<1>4. Handled(movs_i(c, m, d), c)
  <2> DEFINE e == SetNZ(SetGpr(c, d.rD, Wrap(d.imm)), Wrap(d.imm))
  <2>1. e \in CPU /\ e.exceptmask = c.exceptmask
    BY <1>3, SetGprType, SetNZType
  <2>2. movs_i(c, m, d) = Outcome(e, m, 1, FALSE)
    BY DEF movs_i
  <2> HIDE DEF e
  <2> QED BY <2>1, <2>2 DEF Handled, Outcome, Outcomes
<1>5. Handled(adds_i8(c, m, d), c)
  <2> DEFINE a   == c.gpr[d.rD]
             res == Wrap(a + Wrap(d.imm))
             f   == SetNZ(SetGpr(c, d.rD, res), res)
             e   == SetCV(f, a, Wrap(d.imm), 0, res)
  <2>1. res \in Word
    BY <1>2, <1>3, WrapWord DEF Word
  <2>2. adds_i8(c, m, d) = Outcome(e, m, 1, FALSE)
    BY DEF adds_i8
  <2> HIDE DEF res
  <2>3. f \in CPU /\ f.exceptmask = c.exceptmask
    BY <2>1, SetGprType, SetNZType
  <2> HIDE DEF f
  <2>4. e \in CPU /\ e.exceptmask = c.exceptmask
    BY <2>3, SetCVType
  <2> HIDE DEF e
  <2> QED BY <2>2, <2>4 DEF Handled, Outcome, Outcomes
<1>6. Handled(subs_i8(c, m, d), c)
  <2> DEFINE a   == c.gpr[d.rD]
             opB == WordMod - 1 - Wrap(d.imm)
             res == Wrap(a + opB + 1)
             f   == SetNZ(SetGpr(c, d.rD, res), res)
             e   == SetCV(f, a, opB, 1, res)
  <2>1. opB \in Word
    BY <1>3, CpuAssumption DEF Word
  <2>2. subs_i8(c, m, d) = Outcome(e, m, 1, FALSE)
    BY DEF subs_i8
  <2> HIDE DEF opB
  <2>3. res \in Word
    BY <1>2, <2>1, WrapWord DEF Word
  <2> HIDE DEF res
  <2>4. f \in CPU /\ f.exceptmask = c.exceptmask
    BY <2>3, SetGprType, SetNZType
  <2> HIDE DEF f
  <2>5. e \in CPU /\ e.exceptmask = c.exceptmask
    BY <2>4, SetCVType
  <2> HIDE DEF e
  <2> QED BY <2>2, <2>5 DEF Handled, Outcome, Outcomes
<1>7. Handled(muls(c, m, d), c)
  <2> DEFINE res == Wrap(c.gpr[d.rD] * c.gpr[d.rM])
             e   == SetNZ(SetGpr(c, d.rD, res), res)
  <2>1. c.gpr[d.rD] * c.gpr[d.rM] \in Int
    BY <1>2 DEF Word
  <2>2. res \in Word
    BY <2>1, WrapWord
  <2>3. muls(c, m, d) = Outcome(e, m, 32, FALSE)
    BY DEF muls
  <2> HIDE DEF res
  <2>4. e \in CPU /\ e.exceptmask = c.exceptmask
    BY <2>2, SetGprType, SetNZType
  <2> HIDE DEF e
  <2> QED BY <2>3, <2>4 DEF Handled, Outcome, Outcomes
<1> QED BY <1>4, <1>5, <1>6, <1>7

\* A reset clears the pending exceptions and takes its words from memory.
LEMMA ResetType ==
  ASSUME NEW c \in CPU, NEW m \in Memory
  PROVE  /\ ResetAndPrefetch(c, m) \in CPU
         /\ ResetAndPrefetch(c, m).exceptmask = {}
<1>1. m[0] \in Word /\ m[4] \in Word
  BY CpuAssumption DEF Memory
<1>2. 0 \in Word
  BY CpuAssumption DEF Word
<1>3. WordAddr(m[0]) \in Word
  BY <1>1, CpuAssumption DEF WordAddr, Word
<1>4. [Zero16 EXCEPT ![GPR_SP] = WordAddr(m[0]), ![GPR_PC] = m[4]] \in [GPR -> Word]
  BY <1>1, <1>2, <1>3 DEF Zero16
<1>5. cpu_reset(c, m) \in CPU /\ cpu_reset(c, m).exceptmask = {}
  BY <1>2, <1>4 DEF cpu_reset, CPU
<1>6. cpu_reset(c, m).gpr[GPR_PC] \in Word
  BY <1>5 DEF CPU, GPR, GPR_PC
<1>7. Wrap(cpu_reset(c, m).gpr[GPR_PC] + 4) \in Word
  BY <1>6, WrapWord DEF Word
<1> QED BY <1>5, <1>7 DEF ResetAndPrefetch, CPU

\* A register list has at most nine registers, so ten ticks suffice.
LEMMA ListSize ==
  ASSUME NEW list, NEW r \in GPR, list \subseteq (0 .. 7) \cup {r}
  PROVE  IsFiniteSet(list) /\ Cardinality(list) \in 0 .. 9
<1>1. IsFiniteSet(0 .. 7) /\ Cardinality(0 .. 7) = 8
  <2>1. IsFiniteSet(0 .. 7) /\ Cardinality(0 .. 7) = (IF 0 > 7 THEN 0 ELSE 7 - 0 + 1)
    <3>1. 0 \in Int /\ 7 \in Int
      OBVIOUS
    <3> QED BY ONLY <3>1, FS_Interval, Zenon
  <2> QED BY <2>1
<1>2. /\ IsFiniteSet((0 .. 7) \cup {r})
      /\ Cardinality((0 .. 7) \cup {r}) \in 0 .. 9
  BY <1>1, FS_AddElement, SMTT(60)
<1>3. IsFiniteSet(list) /\ Cardinality(list) <= Cardinality((0 .. 7) \cup {r})
  BY <1>2, FS_Subset
<1>4. Cardinality(list) \in Nat
  BY <1>3, FS_CardinalityType
<1> QED BY <1>2, <1>3, <1>4

\* The loads and stores move words between registers and memory.
LEMMA MemoryHandled ==
  ASSUME NEW c \in CPU, NEW m \in Memory, NEW d \in DECODE_RESULT
  PROVE  /\ Handled(ldr_i(c, m, d), c)
         /\ Handled(str_i(c, m, d), c)
         /\ Handled(push(c, m, d), c)
         /\ Handled(pop(c, m, d), c)
<1> USE DEF MaxTicks
<1>1. /\ d.rD \in GPR /\ d.reg_list \subseteq GPR
      /\ c.gpr \in [GPR -> Word] /\ c.gpr[d.rD] \in Word
  BY DEF DECODE_RESULT, CPU, GPR
<1>2. \A how \in {"exit0", "exit1"} : Handled(Exits(c, m, how), c)
  BY ExitsHandled
<1>3. Handled(ldr_i(c, m, d), c)
  <2> DEFINE a == WordAddr(Wrap(c.gpr[d.rN] + 4 * d.imm))
  <2>1. CASE a \in MemWords
    <3>1. ldr_i(c, m, d) = Outcome(SetGpr(c, d.rD, m[a]), m, 2, FALSE)
      BY <2>1 DEF ldr_i
    <3>2. m[a] \in Word
      BY <2>1 DEF Memory
    <3> HIDE DEF a
    <3>3. /\ SetGpr(c, d.rD, m[a]) \in CPU
          /\ SetGpr(c, d.rD, m[a]).exceptmask = c.exceptmask
      BY <3>2, SetGprType
    <3> QED BY <3>1, <3>3 DEF Handled, Outcome, Outcomes
  <2>2. CASE a \notin MemWords
    BY <2>2, <1>2 DEF ldr_i
  <2> QED BY <2>1, <2>2
<1>4. Handled(str_i(c, m, d), c)
  <2> DEFINE a == WordAddr(Wrap(c.gpr[d.rN] + 4 * d.imm))
             v == c.gpr[d.rD]
             e == ResetAndPrefetch(c, m)
  <2>1. CASE a \in MemWords
    <3>1. str_i(c, m, d) = Outcome(c, [m EXCEPT ![a] = v], 2, FALSE)
      BY <2>1, CpuAssumption DEF str_i
    <3> HIDE DEF a
    <3>2. [m EXCEPT ![a] = v] \in Memory
      BY <1>1 DEF Memory
    <3> HIDE DEF v
    <3> QED BY <3>1, <3>2 DEF Handled, Outcome, Outcomes
  <2>2. CASE a \notin MemWords /\ a = DoResetAddr /\ v = 0
    <3>1. str_i(c, m, d) = Outcome(c, m, 2, FALSE)
      BY <2>2 DEF str_i
    <3> QED BY <3>1 DEF Handled, Outcome, Outcomes
  <2>3. CASE a \notin MemWords /\ a = DoResetAddr /\ v # 0 /\ ~ResetToARM(m)
    <3>1. str_i(c, m, d) = [cpu |-> e, mem |-> m, ticks |-> 2, taken |-> FALSE,
                            exit |-> "reset"]
      BY <2>3 DEF str_i, Outcome
    <3>2. e \in CPU /\ e.exceptmask = {}
      BY ResetType
    <3> HIDE DEF e
    <3> QED BY <3>1, <3>2 DEF Handled, Outcomes
  <2>4. CASE a \notin MemWords /\ (a # DoResetAddr \/ (v # 0 /\ ResetToARM(m)))
    <3>1. str_i(c, m, d) = Exits(c, m, "exit1")
      BY <2>4 DEF str_i
    <3> QED BY <3>1, <1>2
  <2> QED BY <2>1, <2>2, <2>3, <2>4
<1>5. Handled(push(c, m, d), c)
  <2> DEFINE list == d.reg_list \cap ((0 .. 7) \cup {GPR_LR})
             sp   == Wrap(c.gpr[GPR_SP] - 4 * Cardinality(list))
             n    == [a \in MemWords |->
                        IF \E r \in list : Slot(sp, list, r) = a
                        THEN c.gpr[CHOOSE r \in list : Slot(sp, list, r) = a] ELSE m[a]]
             e    == SetGpr(c, GPR_SP, sp)
             ok   == \A r \in list : Slot(sp, list, r) \in MemWords
  <2>1. Cardinality(list) \in 0 .. 9
    BY ListSize DEF GPR, GPR_LR
  <2>2. push(c, m, d) = IF ok THEN Outcome(e, n, 1 + Cardinality(list), FALSE)
                              ELSE Exits(c, m, "exit1")
    BY DEF push
  <2>3. list \subseteq GPR
    BY <1>1
  <2> HIDE DEF list
  <2>4. sp \in Word
    <3>1. c.gpr[GPR_SP] \in Int
      BY <1>1 DEF GPR, GPR_SP, Word
    <3> QED BY <2>1, <3>1, WrapWord
  <2> HIDE DEF sp
  <2>5. n \in Memory
    BY <1>1, <2>3 DEF Memory
  <2>6. e \in CPU /\ e.exceptmask = c.exceptmask
    BY <2>4, SetGprType
  <2> HIDE DEF n, e
  <2>7. CASE ok
    BY <2>1, <2>2, <2>5, <2>6, <2>7 DEF Handled, Outcome, Outcomes
  <2>8. CASE ~ok
    BY <2>2, <2>8, <1>2
  <2> QED BY <2>7, <2>8
<1>6. Handled(pop(c, m, d), c)
  <2> DEFINE list == d.reg_list \cap ((0 .. 7) \cup {GPR_PC})
             sp   == c.gpr[GPR_SP]
             g    == [r \in GPR |->
                        CASE r \in list  -> m[Slot(sp, list, r)]
                          [] r = GPR_SP -> Wrap(sp + 4 * Cardinality(list))
                          [] OTHER      -> c.gpr[r]]
             e    == [c EXCEPT !.gpr = g]
             ok   == \A r \in list : Slot(sp, list, r) \in MemWords
  <2>1. Cardinality(list) \in 0 .. 9
    BY ListSize DEF GPR, GPR_PC
  <2>2. pop(c, m, d) = IF ok THEN Outcome(e, m, 2, GPR_PC \in list)
                             ELSE Exits(c, m, "exit1")
    BY DEF pop
  <2>3. sp \in Int
    BY <1>1 DEF GPR, GPR_SP, Word
  <2> HIDE DEF list, sp
  <2>4. Wrap(sp + 4 * Cardinality(list)) \in Word
    BY <2>1, <2>3, WrapWord
  <2>5. CASE ok
    <3>1. g \in [GPR -> Word]
      BY <1>1, <2>4, <2>5 DEF Memory
    <3>2. e \in CPU /\ e.exceptmask = c.exceptmask
      BY <3>1 DEF CPU
    <3>3. pop(c, m, d) = Outcome(e, m, 2, GPR_PC \in list)
      BY <2>2, <2>5
    <3> HIDE DEF e
    <3>4. (GPR_PC \in list) \in BOOLEAN
      OBVIOUS
    <3> QED BY <3>2, <3>3, <3>4 DEF Handled, Outcome, Outcomes
  <2>6. CASE ~ok
    BY <2>2, <2>6, <1>2
  <2> QED BY <2>5, <2>6
<1> QED BY <1>3, <1>4, <1>5, <1>6

\* A branch writes the PC, and LR when it links.
LEMMA BranchHandled ==
  ASSUME NEW c \in CPU, NEW m \in Memory, NEW d \in DECODE_RESULT
  PROVE  /\ Handled(b(c, m, d), c)
         /\ Handled(b_c(c, m, d), c)
         /\ Handled(bl(c, m, d), c)
         /\ Handled(blx(c, m, d), c)
<1> USE DEF MaxTicks
<1>1. /\ d.rM \in GPR /\ d.imm \in Int /\ GPR_PC \in GPR /\ GPR_LR \in GPR
      /\ c.gpr \in [GPR -> Word]
  BY DEF DECODE_RESULT, CPU, GPR, GPR_PC, GPR_LR
<1>2. /\ Wrap(c.gpr[GPR_PC] + d.imm) \in Word
      /\ Wrap(c.gpr[GPR_PC] - 2) \in Word
  BY <1>1, WrapWord DEF Word
<1>3. Handled(b(c, m, d), c)
  <2> DEFINE e == SetGpr(c, GPR_PC, Wrap(c.gpr[GPR_PC] + d.imm))
  <2>1. b(c, m, d) = Outcome(e, m, 2, TRUE)
    BY DEF b
  <2>2. e \in CPU /\ e.exceptmask = c.exceptmask
    BY <1>2, SetGprType
  <2> HIDE DEF e
  <2> QED BY <2>1, <2>2 DEF Handled, Outcome, Outcomes
<1>4. Handled(b_c(c, m, d), c)
  <2>1. Handled(Outcome(c, m, 1, FALSE), c)
    BY DEF Handled, Outcome, Outcomes
  <2>2. Handled(Exits(c, m, "exit1"), c)
    BY ExitsHandled
  <2> QED BY <1>3, <2>1, <2>2 DEF b_c
<1>5. Handled(bl(c, m, d), c)
  <2> DEFINE g == [c.gpr EXCEPT ![GPR_LR] = c.gpr[GPR_PC],
                                ![GPR_PC] = Wrap(c.gpr[GPR_PC] + d.imm)]
             e == [c EXCEPT !.gpr = g]
  <2>1. bl(c, m, d) = Outcome(e, m, 3, TRUE)
    BY DEF bl, CPU
  <2>2. g \in [GPR -> Word]
    BY <1>1, <1>2
  <2>3. e \in CPU /\ e.exceptmask = c.exceptmask
    BY <2>2 DEF CPU
  <2> HIDE DEF e
  <2> QED BY <2>1, <2>3 DEF Handled, Outcome, Outcomes
<1>6. Handled(blx(c, m, d), c)
  <2> DEFINE g == [c.gpr EXCEPT ![GPR_LR] = Wrap(c.gpr[GPR_PC] - 2),
                                ![GPR_PC] = c.gpr[d.rM]]
             e == [c EXCEPT !.gpr = g]
  <2>1. blx(c, m, d) = IF c.gpr[d.rM] % 2 = 0 THEN Exits(c, m, "exit1")
                                            ELSE Outcome(e, m, 2, TRUE)
    BY DEF blx, CPU
  <2>2. g \in [GPR -> Word]
    BY <1>1, <1>2
  <2>3. e \in CPU /\ e.exceptmask = c.exceptmask
    BY <2>2 DEF CPU
  <2> HIDE DEF e
  <2>4. Handled(Outcome(e, m, 2, TRUE), c)
    BY <2>3 DEF Handled, Outcome, Outcomes
  <2> QED BY <2>1, <2>4, ExitsHandled
<1> QED BY <1>3, <1>4, <1>5, <1>6

\* Leaving an exception reads back words of memory.
LEMMA ExitHandled ==
  ASSUME NEW c \in CPU, NEW m \in Memory, NEW pType
  PROVE  Handled(except_exit(c, m, pType), c)
<1> DEFINE sp == c.gpr[GPR_SP]
           f  == [k \in 0 .. 7 |-> m[FrameSlot(sp, k)]]
           ok == /\ pType % 16 \in {HandlerMain, ThreadMain, ThreadProcess}
                 /\ FrameSlots(sp) \subseteq MemWords
           mode  == IF pType % 16 = HandlerMain THEN "handler" ELSE "thread"
           stack == IF pType % 16 = ThreadProcess THEN "process" ELSE "main"
           apsr  == f[7] - (f[7] % (WordMod \div 16))
           gpr   == [r \in GPR |->
                       CASE r \in 0 .. 3 -> f[r]
                         [] r = 12      -> f[4]
                         [] r = GPR_LR  -> f[5]
                         [] r = GPR_PC  -> f[6]
                         [] r = GPR_SP  -> Wrap(sp + 32)
                         [] OTHER       -> c.gpr[r]]
           e == [gpr |-> gpr, apsr |-> apsr, ipsr |-> 0, mode |-> mode,
                 stack |-> stack, exceptmask |-> c.exceptmask]
<1>1. except_exit(c, m, pType) = IF ok THEN Outcome(e, m, 2, TRUE)
                                       ELSE Exits(c, m, "exit1")
  BY DEF except_exit
<1>2. CASE ok
  <2>1. \A k \in 0 .. 7 : f[k] \in Word
    BY <1>2 DEF FrameSlots, Memory
  <2>2. apsr \in Word
    <3>1. PICK q \in Nat \ {0} : WordMod = 16 * q /\ WordMod \div 16 = q
      BY Quarters
    <3>2. f[7] \in 0 .. 16 * q - 1
      BY <2>1, <3>1 DEF Word
    <3> HIDE DEF f
    <3>3. f[7] % q \in 0 .. q - 1 /\ f[7] % q <= f[7]
      BY <3>2
    <3> QED BY <3>1, <3>2, <3>3 DEF Word
  <2>3. sp \in Word
    BY DEF CPU, GPR, GPR_SP
  <2>4. Wrap(sp + 32) \in Word
    BY <2>3, WrapWord DEF Word
  <2> HIDE DEF f
  <2>5. gpr \in [GPR -> Word]
    BY <2>1, <2>4 DEF CPU
  <2>6. mode \in {"handler", "thread"} /\ stack \in {"main", "process"}
    OBVIOUS
  <2> HIDE DEF gpr, apsr, mode, stack
  <2>7. e \in CPU /\ e.exceptmask = c.exceptmask
    <3>1. c.exceptmask \subseteq {WDT_EXCEPTION}
      BY DEF CPU
    <3> QED BY <2>2, <2>5, <2>6, <3>1 DEF CPU
  <2> HIDE DEF e, ok
  <2> QED BY <1>1, <1>2, <2>7 DEF Handled, Outcome, Outcomes, MaxTicks
<1>3. CASE ~ok
  BY <1>1, <1>3, ExitsHandled
<1> QED BY <1>2, <1>3

\* BX branches, or leaves an exception.
LEMMA BxHandled ==
  ASSUME NEW c \in CPU, NEW m \in Memory, NEW d \in DECODE_RESULT
  PROVE  Handled(bx(c, m, d), c)
<1> DEFINE a == c.gpr[d.rM]
           e == SetGpr(c, GPR_PC, a)
<1>1. a \in Word
  BY DEF DECODE_RESULT, CPU
<1>2. e \in CPU /\ e.exceptmask = c.exceptmask
  BY <1>1, SetGprType
<1>3. \/ bx(c, m, d) = Exits(c, m, "exit1")
      \/ bx(c, m, d) = except_exit(c, m, a)
      \/ bx(c, m, d) = Outcome(e, m, 2, TRUE)
  BY DEF bx
<1> HIDE DEF e
<1>4. Handled(Outcome(e, m, 2, TRUE), c)
  BY <1>2 DEF Handled, Outcome, Outcomes, MaxTicks
<1> QED BY <1>3, <1>4, ExitsHandled, ExitHandled

\* So every instruction the jump tables dispatch.
LEMMA InstructionHandled ==
  ASSUME NEW c \in CPU, NEW m \in Memory, NEW d \in DECODE_RESULT
  PROVE  Handled(executeJumpTable(c, m, d), c)
<1>1. d.op \in Handlers
  BY DEF DECODE_RESULT
<1> QED BY <1>1, ArithmeticHandled, MemoryHandled, BranchHandled, BxHandled, ExitsHandled
        DEF executeJumpTable, Handlers

\* Entering an exception stacks words, or ends the program.
LEMMA EnterHandled ==
  ASSUME NEW c \in CPU, NEW m \in Memory
  PROVE  LET r == except_enter(c, m, WDT_EXCEPTION)
         IN  /\ r.cpu \in CPU /\ r.cpu.exceptmask = c.exceptmask
             /\ r.mem \in Memory
             /\ r.exit \in {"no", "exit1"}
<1> DEFINE n   == PushFrame(c, m)
           gpr == [c.gpr EXCEPT ![GPR_SP] = EnterSP(c), ![GPR_LR] = ExcReturn(c),
                                ![GPR_PC] = n[4 * WDT_EXCEPTION]]
           e   == [gpr |-> gpr, apsr |-> c.apsr, ipsr |-> WDT_EXCEPTION,
                   mode |-> "handler", stack |-> "main", exceptmask |-> c.exceptmask]
           ok  == FrameSlots(EnterSP(c)) \subseteq MemWords
<1>1. except_enter(c, m, WDT_EXCEPTION) = IF ok THEN Outcome(e, n, 0, TRUE)
                                                ELSE Exits(c, m, "exit1")
  BY DEF except_enter
<1>2. /\ c.gpr \in [GPR -> Word] /\ c.apsr \in Word
      /\ c.gpr[GPR_SP] \in Int /\ c.gpr[GPR_PC] \in Int
  BY DEF CPU, GPR, GPR_SP, GPR_PC, Word
<1>3. EnterSP(c) \in Word /\ Wrap(c.gpr[GPR_PC] - 4) \in Word
  BY <1>2, WrapWord DEF EnterSP
<1>4. ExcReturn(c) \in Word
  BY CpuAssumption DEF ExcReturn, HandlerMain, ThreadMain, ThreadProcess, Word
<1>5. n \in Memory
  <2>1. \A k \in 0 .. 7 : FrameWord(c, k) \in Word
    BY <1>2, <1>3 DEF FrameWord, GPR, GPR_LR
  <2>2. ASSUME NEW a \in FrameSlots(EnterSP(c))
        PROVE  (CHOOSE k \in 0 .. 7 : FrameSlot(EnterSP(c), k) = a) \in 0 .. 7
    BY <2>2 DEF FrameSlots
  <2> QED BY <2>1, <2>2 DEF PushFrame, Memory
<1> HIDE DEF n
<1>6. n[4 * WDT_EXCEPTION] \in Word
  BY <1>5, CpuAssumption DEF Memory, WDT_EXCEPTION
<1>7. gpr \in [GPR -> Word]
  BY <1>2, <1>3, <1>4, <1>6
<1> HIDE DEF gpr
<1>8. e \in CPU /\ e.exceptmask = c.exceptmask
  BY <1>7 DEF CPU, WDT_EXCEPTION
<1> HIDE DEF e, ok
<1> QED BY <1>1, <1>5, <1>8 DEF Outcome, Exits

-----------------------------------------------------------------------------
(***************************************************************************)
(* The inductive invariant: types, nothing pending outside the check, and  *)
(* an instruction to execute whenever one is executed.                     *)
(***************************************************************************)
Fetched == phase = "execute" => InsnAddr(cpu) \in Code

IInv == TypeOK /\ ExceptionsAreImmediate /\ Fetched

LEMMA InitInv == Init => IInv
<1> SUFFICES ASSUME Init PROVE IInv
  OBVIOUS
<1>1. 0 \in Word
  BY CpuAssumption DEF Word
<1>2. StaticCPU \in CPU
  BY <1>1 DEF StaticCPU, CPU, Zero16
<1>3. FlashInit \in Memory
  BY MachineAssumption DEF Memory
<1>4. cpu \in CPU /\ cpu.exceptmask = {}
  BY <1>2, <1>3, ResetType DEF Init
<1>5. TypeOK
  <2>1. /\ cpu \in CPU /\ lastCPU \in CPU /\ mem \in Memory
        /\ wdt \in [seed : Word, val : Word]
    BY <1>1, <1>3, <1>4 DEF Init
  <2>2. interrupted \in Seq(CPU)
    BY DEF Init
  <2>3. phase = "fetch" /\ takenBranch \in BOOLEAN
    BY DEF Init
  <2>4. commands \in 0 .. MaxCommands
    BY MachineAssumption DEF Init
  <2> QED BY <2>1, <2>2, <2>3, <2>4 DEF TypeOK, Memory
<1> QED BY <1>4, <1>5 DEF Init, IInv, ExceptionsAreImmediate, Fetched

\* The watchdog counter stays a word.
LEMMA WdtType ==
  ASSUME NEW w \in [seed : Word, val : Word], NEW t \in 0 .. MaxTicks
  PROVE  /\ INCREMENT_CYCLES(w, t) \in [seed : Word, val : Word]
         /\ INCREMENT_CYCLES(w, t).seed = w.seed
<1>1. 0 \in Word /\ WdtSum(w, t) \in Word
  BY CpuAssumption, WrapWord DEF WdtSum, Word, MaxTicks
<1> QED BY <1>1 DEF INCREMENT_CYCLES

LEMMA StepInv == IInv /\ [Next]_vars => IInv'
<1> SUFFICES ASSUME IInv, [Next]_vars PROVE IInv'
  OBVIOUS
<1> USE DEF IInv, ExceptionsAreImmediate, Fetched
<1>t. /\ cpu \in CPU /\ lastCPU \in CPU /\ mem \in Memory
      /\ wdt \in [seed : Word, val : Word] /\ interrupted \in Seq(CPU)
      /\ takenBranch \in BOOLEAN /\ commands \in 0 .. MaxCommands
  BY DEF TypeOK, Memory
<1>1. CASE Fetch
  BY <1>1, <1>t DEF Fetch, TypeOK
<1>2. CASE exwbmem
  <2>1. Insn \in DECODE_RESULT
    BY <1>2, CpuAssumption DEF exwbmem, Insn
  <2> DEFINE r == Executed
             w == IF r.exit = "reset" THEN [wdt EXCEPT !.val = 0] ELSE wdt
  <2>2. Handled(r, cpu)
    BY <1>t, <2>1, InstructionHandled DEF Executed
  <2>3. r.cpu \in CPU /\ r.mem \in Memory /\ r.ticks \in 0 .. MaxTicks
        /\ r.taken \in BOOLEAN
    BY <2>2 DEF Handled, Outcomes
  <2>4. /\ mem' = r.mem /\ takenBranch' = r.taken /\ wdt' = INCREMENT_CYCLES(w, r.ticks)
        /\ cpu' = IF Expires(w, r.ticks) THEN cpu_set_except(r.cpu, WDT_EXCEPTION)
                                          ELSE r.cpu
        /\ phase' = "except" /\ UNCHANGED <<lastCPU, interrupted, commands>>
    BY <1>2 DEF exwbmem
  <2> HIDE DEF r
  <2>5. w \in [seed : Word, val : Word]
    BY <1>t, CpuAssumption DEF Word
  <2>6. wdt' \in [seed : Word, val : Word]
    BY <2>3, <2>4, <2>5, WdtType
  <2>7. cpu' \in CPU
    BY <2>3, <2>4 DEF cpu_set_except, CPU
  <2> QED BY <1>t, <2>3, <2>4, <2>6, <2>7 DEF TypeOK, Memory
<1>3. CASE sim_exit
  BY <1>3, <1>t DEF sim_exit, TypeOK
<1>4. CASE check_except
  <2>1. PICK i \in cpu.exceptmask :
          LET r == except_enter(RolledBack, mem, i)
          IN /\ cpu' = cpu_clear_except(r.cpu, i)
             /\ mem' = r.mem
             /\ takenBranch' = TRUE
             /\ phase' = IF r.exit = "no" THEN "advance" ELSE "exit1"
             /\ interrupted' = IF r.exit = "no" THEN <<lastCPU>> \o interrupted
                                                ELSE interrupted
    BY <1>4 DEF check_except
  <2> DEFINE r == except_enter(RolledBack, mem, WDT_EXCEPTION)
  <2>2. i = WDT_EXCEPTION
    BY <1>t DEF CPU
  <2>3. RolledBack \in CPU /\ RolledBack.exceptmask \subseteq {WDT_EXCEPTION}
    BY <1>t DEF RolledBack, CPU
  <2>4. /\ r.cpu \in CPU /\ r.cpu.exceptmask \subseteq {WDT_EXCEPTION}
        /\ r.mem \in Memory
    BY <1>t, <2>3, EnterHandled
  <2>5. /\ cpu' = cpu_clear_except(r.cpu, WDT_EXCEPTION) /\ mem' = r.mem
        /\ takenBranch' = TRUE /\ phase' \in {"advance", "exit1"}
        /\ interrupted' \in {<<lastCPU>> \o interrupted, interrupted}
        /\ UNCHANGED <<lastCPU, wdt, commands>>
    BY <1>4, <2>1, <2>2 DEF check_except
  <2> HIDE DEF r
  <2>6. cpu' \in CPU /\ cpu'.exceptmask = {}
    BY <2>4, <2>5 DEF cpu_clear_except, CPU
  <2>7. interrupted' \in Seq(CPU)
    <3>1. <<lastCPU>> \in Seq(CPU) /\ interrupted \in Seq(CPU)
      BY <1>t
    <3>2. <<lastCPU>> \o interrupted \in Seq(CPU)
      BY <3>1
    <3> QED BY <2>5, <3>1, <3>2
  <2> QED BY <1>t, <2>4, <2>5, <2>6, <2>7 DEF TypeOK, Memory
<1>5. CASE Retire
  <2>1. interrupted' \in Seq(CPU)
    BY <1>5, <1>t DEF Retire
  <2> QED BY <1>5, <1>t, <2>1 DEF Retire, TypeOK
<1>6. CASE Advance
  <2>1. AdvancedPC(cpu, takenBranch) \in Word
    <3>1. cpu.gpr[GPR_PC] \in Int
      BY <1>t DEF CPU, GPR, GPR_PC, Word
    <3>2. cpu.gpr[GPR_PC] + (IF takenBranch THEN 4 ELSE 2) \in Int
      BY <3>1
    <3> QED BY <3>2, WrapWord DEF AdvancedPC
  <2>2. /\ SetGpr(cpu, GPR_PC, AdvancedPC(cpu, takenBranch)) \in CPU
        /\ SetGpr(cpu, GPR_PC, AdvancedPC(cpu, takenBranch)).exceptmask = cpu.exceptmask
    BY <1>t, <2>1, SetGprType
  <2>3. cpu' \in CPU /\ cpu'.exceptmask = cpu.exceptmask
    BY <1>6, <1>t, <2>2 DEF Advance
  <2> QED BY <1>6, <1>t, <2>3 DEF Advance, TypeOK
<1>7. CASE sim_command
  <2>1. cpu' \in CPU /\ cpu'.exceptmask = {}
    BY <1>7, <1>t, ResetType DEF sim_command
  <2>2. [wdt EXCEPT !.val = 0] \in [seed : Word, val : Word]
    BY <1>t, CpuAssumption DEF Word
  <2> QED BY <1>7, <1>t, <2>1, <2>2, MachineAssumption DEF sim_command, Command, TypeOK
<1>8. CASE \E s \in Seeds : DebugWriteSeed(s)
  <2>1. PICK s \in Seeds : DebugWriteSeed(s)
    BY <1>8
  <2>2. [wdt EXCEPT !.seed = s] \in [seed : Word, val : Word]
    BY <1>t, MachineAssumption
  <2> QED BY <2>1, <2>2, <1>t, MachineAssumption DEF DebugWriteSeed, Command, TypeOK
<1>9. CASE UNCHANGED vars
  BY <1>9 DEF vars, TypeOK
<1> QED BY <1>1, <1>2, <1>3, <1>4, <1>5, <1>6, <1>7, <1>8, <1>9 DEF Next, Step, Debug

THEOREM Invariance == Spec => []IInv
BY InitInv, StepInv, PTL DEF Spec

\* Every variable keeps its type: registers, memory and the watchdog are
\* words whatever the program computes and wherever it is interrupted.
THEOREM TypeCorrect == Spec => []TypeOK
BY Invariance, PTL DEF IInv

\* No exception is ever left pending over an instruction.
THEOREM NonePending == Spec => []ExceptionsAreImmediate
BY Invariance, PTL DEF IInv

-----------------------------------------------------------------------------
(***************************************************************************)
(* The watchdog counts every tick as long as its seed is not within        *)
(* MaxTicks of the wrap of wdt_val.                                        *)
(***************************************************************************)
SeedsHaveRoom == \A s \in Seeds : s + MaxTicks <= WordMod

\* The counter is either at its start or below a seed, hence far from the wrap.
WdtRoom == /\ wdt.val + MaxTicks < WordMod
           /\ wdt.seed + MaxTicks <= WordMod

\* Counting from a value with room either restarts it or adds the ticks.
LEMMA CountsTicks ==
  ASSUME NEW w \in [seed : Word, val : Word], NEW t \in 1 .. MaxTicks,
         w.val + MaxTicks < WordMod, w.seed + MaxTicks <= WordMod
  PROVE  /\ INCREMENT_CYCLES(w, t).val + MaxTicks < WordMod
         /\ w.seed # 0 /\ Expires(w, t) => INCREMENT_CYCLES(w, t).val = 0
         /\ w.seed # 0 /\ ~Expires(w, t) =>
              INCREMENT_CYCLES(w, t).val \in (w.val + 1) .. (w.seed - 1)
<1>1. w.val \in Nat /\ w.seed \in Nat /\ WordMod \in Nat /\ 64 < WordMod
  BY CpuAssumption DEF Word
<1>2. WdtSum(w, t) = w.val + t
  BY <1>1, CpuAssumption DEF WdtSum, Wrap, MaxTicks
<1>3. CASE w.seed = 0
  BY <1>3 DEF INCREMENT_CYCLES
<1>4. CASE w.seed # 0 /\ Expires(w, t)
  <2>1. INCREMENT_CYCLES(w, t).val = 0
    BY <1>4 DEF INCREMENT_CYCLES
  <2> QED BY <1>1, <1>4, <2>1 DEF MaxTicks
<1>5. CASE w.seed # 0 /\ ~Expires(w, t)
  <2>1. INCREMENT_CYCLES(w, t).val = w.val + t
    BY <1>2, <1>5 DEF INCREMENT_CYCLES
  <2>2. w.val + t < w.seed
    BY <1>1, <1>2, <1>5 DEF Expires
  <2> QED BY <1>1, <1>5, <2>1, <2>2 DEF MaxTicks
<1> QED BY <1>3, <1>4, <1>5

LEMMA RoomInit == SeedsHaveRoom /\ Init => WdtRoom
<1>1. 64 < WordMod /\ WordMod \in Nat
  BY CpuAssumption DEF Word
<1> QED BY <1>1 DEF Init, WdtRoom, MaxTicks

\* An executed instruction, seen from the watchdog.
LEMMA ExecutedTicks ==
  ASSUME IInv, WdtRoom, exwbmem
  PROVE  /\ WdtRoom'
         /\ wdt.seed # 0 /\ Executed.exit = "no" =>
               \/ wdt'.val = 0 /\ WDT_EXCEPTION \in cpu'.exceptmask
               \/ wdt'.val \in (wdt.val + 1) .. (wdt.seed - 1)
<1>1. cpu \in CPU /\ mem \in Memory /\ wdt \in [seed : Word, val : Word]
  BY DEF IInv, TypeOK, Memory
<1>2. Insn \in DECODE_RESULT
  BY CpuAssumption DEF exwbmem, Insn, IInv, Fetched
<1> DEFINE r == Executed
           w == IF r.exit = "reset" THEN [wdt EXCEPT !.val = 0] ELSE wdt
<1>3. Handled(r, cpu)
  BY <1>1, <1>2, InstructionHandled DEF Executed
<1>4. /\ r.exit \in {"no", "reset"}
      /\ wdt' = INCREMENT_CYCLES(w, r.ticks)
      /\ cpu' = IF Expires(w, r.ticks) THEN cpu_set_except(r.cpu, WDT_EXCEPTION) ELSE r.cpu
  BY DEF exwbmem
<1> HIDE DEF r
<1>5. r.ticks \in 1 .. MaxTicks /\ r.cpu \in CPU
  BY <1>3, <1>4 DEF Handled, Outcomes, MaxTicks
<1>6. WordMod \in Nat /\ 64 < WordMod
  BY CpuAssumption DEF Word
<1>7. /\ w \in [seed : Word, val : Word] /\ w.seed = wdt.seed
      /\ w.val + MaxTicks < WordMod /\ w.seed + MaxTicks <= WordMod
  BY <1>1, <1>6 DEF WdtRoom, Word, MaxTicks
<1>8. r.exit = "no" => w = wdt
  OBVIOUS
<1> HIDE DEF w
<1>9. /\ wdt'.val + MaxTicks < WordMod /\ wdt'.seed = wdt.seed
      /\ wdt.seed # 0 /\ Expires(w, r.ticks) => wdt'.val = 0
      /\ wdt.seed # 0 /\ ~Expires(w, r.ticks) => wdt'.val \in (w.val + 1) .. (w.seed - 1)
  <2> DEFINE t == r.ticks
             v == INCREMENT_CYCLES(w, t)
  <2>1. t \in 1 .. MaxTicks /\ t \in 0 .. MaxTicks
    BY <1>5 DEF MaxTicks
  <2> HIDE DEF t
  <2>2. /\ v.val + MaxTicks < WordMod
        /\ w.seed # 0 /\ Expires(w, t) => v.val = 0
        /\ w.seed # 0 /\ ~Expires(w, t) => v.val \in (w.val + 1) .. (w.seed - 1)
    BY <1>7, <2>1, CountsTicks
  <2>3. v.seed = w.seed
    BY <1>7, <2>1, WdtType
  <2>4. wdt' = v
    BY <1>4 DEF t
  <2> HIDE DEF v
  <2> QED BY <1>7, <2>2, <2>3, <2>4 DEF t
<1>10. Expires(w, r.ticks) => WDT_EXCEPTION \in cpu'.exceptmask
  BY <1>4, <1>5 DEF cpu_set_except, CPU
<1>11. WdtRoom'
  BY <1>9 DEF WdtRoom
<1>12. ASSUME wdt.seed # 0, r.exit = "no"
       PROVE  \/ wdt'.val = 0 /\ WDT_EXCEPTION \in cpu'.exceptmask
              \/ wdt'.val \in (wdt.val + 1) .. (wdt.seed - 1)
  <2>1. CASE Expires(w, r.ticks)
    BY <1>9, <1>10, <1>12, <2>1
  <2>2. CASE ~Expires(w, r.ticks)
    BY <1>8, <1>9, <1>12, <2>2
  <2> QED BY <2>1, <2>2
<1> QED BY <1>11, <1>12 DEF r

LEMMA RoomStep == SeedsHaveRoom /\ IInv /\ WdtRoom /\ [Next]_vars => WdtRoom'
<1> SUFFICES ASSUME SeedsHaveRoom, IInv, WdtRoom, [Next]_vars PROVE WdtRoom'
  OBVIOUS
<1>1. wdt \in [seed : Word, val : Word] /\ WordMod \in Nat /\ 64 < WordMod
  BY CpuAssumption DEF IInv, TypeOK, Word
<1>2. CASE exwbmem
  BY <1>2, ExecutedTicks
<1>3. CASE Fetch \/ sim_exit \/ check_except \/ Retire \/ Advance \/ UNCHANGED vars
  BY <1>3 DEF Fetch, sim_exit, check_except, Retire, Advance, vars, WdtRoom
<1>4. CASE sim_command
  BY <1>1, <1>4 DEF sim_command, WdtRoom, MaxTicks
<1>5. CASE \E s \in Seeds : DebugWriteSeed(s)
  BY <1>1, <1>5 DEF DebugWriteSeed, WdtRoom, SeedsHaveRoom
<1> QED BY <1>2, <1>3, <1>4, <1>5 DEF Next, Step, Debug

\* While the watchdog is armed and every seed leaves room for the longest
\* instruction below 2^32, no tick is lost to the wrap of wdt_val: the
\* counter grows by what was executed, or it expires and the exception is
\* pending.
THEOREM TicksCounted == ASSUME SeedsHaveRoom PROVE Spec => NoTickLost
<1>1. Init => WdtRoom
  BY RoomInit
<1>2. IInv /\ WdtRoom /\ [Next]_vars => WdtRoom'
  BY RoomStep
<1>3. IInv /\ WdtRoom /\ [Next]_vars =>
        [exwbmem /\ wdt.seed # 0 /\ Executed.exit = "no" =>
           \/ /\ wdt'.val = 0
              /\ WDT_EXCEPTION \in cpu'.exceptmask
           \/ wdt'.val \in (wdt.val + 1) .. (wdt.seed - 1)]_vars
  BY ExecutedTicks
<1> QED BY <1>1, <1>2, <1>3, Invariance, PTL DEF Spec, NoTickLost

-----------------------------------------------------------------------------
(***************************************************************************)
(* Entering an exception and leaving it from the same frame.               *)
(***************************************************************************)

\* Wrapping a number of less than one turn too many or too few.
LEMMA WrapCases ==
  ASSUME NEW x \in Int, -WordMod <= x, x < 2 * WordMod
  PROVE  Wrap(x) = IF x < 0 THEN x + WordMod
                   ELSE IF x < WordMod THEN x ELSE x - WordMod
BY CpuAssumption DEF Wrap

\* The eight slots of a frame are distinct words, wherever the stack is.
LEMMA SlotsDistinct ==
  ASSUME NEW sp \in Word, NEW j \in 0 .. 7, NEW k \in 0 .. 7,
         FrameSlot(sp, j) = FrameSlot(sp, k)
  PROVE  j = k
<1>1. WordMod \in Nat /\ 64 < WordMod /\ WordMod % 16 = 0 /\ sp \in 0 .. WordMod - 1
  BY CpuAssumption DEF Word
<1>2. /\ Wrap(sp + 4 * j) \in {sp + 4 * j, sp + 4 * j - WordMod}
      /\ Wrap(sp + 4 * k) \in {sp + 4 * k, sp + 4 * k - WordMod}
  BY <1>1, WrapCases
<1>3. WordMod % 4 = 0
  BY <1>1
<1> QED BY <1>1, <1>2, <1>3 DEF FrameSlot, WordAddr

\* What is read back from the frame is what was stacked in it.
LEMMA FrameReadsBack ==
  ASSUME NEW c \in CPU, NEW m \in Memory, NEW k \in 0 .. 7,
         FrameSlots(EnterSP(c)) \subseteq MemWords
  PROVE  PushFrame(c, m)[FrameSlot(EnterSP(c), k)] = FrameWord(c, k)
<1> DEFINE a == FrameSlot(EnterSP(c), k)
           j == CHOOSE i \in 0 .. 7 : FrameSlot(EnterSP(c), i) = a
<1>1. a \in FrameSlots(EnterSP(c)) /\ a \in MemWords
  BY DEF FrameSlots
<1>2. j \in 0 .. 7 /\ FrameSlot(EnterSP(c), j) = a
  OBVIOUS
<1>3. EnterSP(c) \in Word
  BY WrapWord DEF EnterSP, CPU, GPR, GPR_SP, Word
<1>4. j = k
  BY <1>2, <1>3, SlotsDistinct
<1>5. PushFrame(c, m)[a] = FrameWord(c, j)
  BY <1>1 DEF PushFrame
<1> QED BY <1>4, <1>5

\* An exception entry followed by the exit from the frame it pushed restores
\* every register the interrupted code can see: all sixteen, with the PC
\* back at the address of the interrupted instruction (the loop adds the
\* prefetch), the flags, the mode and the stack in use.  except_exit and
\* except_enter are inverse to each other except for ipsr.
THEOREM RoundTrip ==
  ASSUME NEW c \in CPU, NEW m \in Memory,
         c.mode = "handler" => c.stack = "main",
         c.apsr % (WordMod \div 16) = 0,
         FrameSlots(EnterSP(c)) \subseteq MemWords
  PROVE  LET e == except_enter(c, m, WDT_EXCEPTION)
             x == except_exit(e.cpu, e.mem, e.cpu.gpr[GPR_LR])
         IN  /\ x.exit = "no"
             /\ x.cpu.gpr = [c.gpr EXCEPT ![GPR_PC] = Wrap(c.gpr[GPR_PC] - 4)]
             /\ x.cpu.apsr = c.apsr /\ x.cpu.mode = c.mode /\ x.cpu.stack = c.stack
<1> USE DEF GPR_SP, GPR_LR, GPR_PC
<1> DEFINE e  == except_enter(c, m, WDT_EXCEPTION)
           x  == except_exit(e.cpu, e.mem, e.cpu.gpr[GPR_LR])
           sp == EnterSP(c)
           f  == [k \in 0 .. 7 |-> e.mem[FrameSlot(e.cpu.gpr[GPR_SP], k)]]
<1>1. /\ c.gpr \in [GPR -> Word] /\ c.mode \in {"handler", "thread"}
      /\ c.stack \in {"main", "process"} /\ c.apsr \in Int
  BY DEF CPU, Word
<1>2. /\ e.mem = PushFrame(c, m)
      /\ e.cpu.gpr = [c.gpr EXCEPT ![GPR_SP] = sp, ![GPR_LR] = ExcReturn(c),
                                   ![GPR_PC] = e.mem[4 * WDT_EXCEPTION]]
  BY DEF except_enter, Outcome
<1>3. e.cpu.gpr[GPR_SP] = sp /\ e.cpu.gpr[GPR_LR] = ExcReturn(c)
  BY <1>1, <1>2 DEF GPR
<1>4. \A k \in 0 .. 7 : f[k] = FrameWord(c, k)
  BY <1>2, <1>3, FrameReadsBack
<1>5. ExcReturn(c) % 16 = CASE c.mode = "handler" -> HandlerMain
                            [] c.mode # "handler" /\ c.stack = "main" -> ThreadMain
                            [] OTHER -> ThreadProcess
  BY CpuAssumption DEF ExcReturn, HandlerMain, ThreadMain, ThreadProcess
<1>6. Wrap(sp + 32) = c.gpr[GPR_SP]
  <2>1. c.gpr[13] \in 0 .. WordMod - 1 /\ 64 < WordMod /\ WordMod \in Nat
    BY <1>1, CpuAssumption DEF GPR, Word
  <2>2. sp = IF c.gpr[13] < 32 THEN c.gpr[13] - 32 + WordMod ELSE c.gpr[13] - 32
    BY <2>1, WrapCases DEF EnterSP
  <2> QED BY <2>1, <2>2, WrapCases
<1> HIDE DEF f, e, sp
<1>7. x = Outcome([gpr   |-> [r \in GPR |->
                                CASE r \in 0 .. 3 -> f[r]
                                  [] r = 12      -> f[4]
                                  [] r = GPR_LR  -> f[5]
                                  [] r = GPR_PC  -> f[6]
                                  [] r = GPR_SP  -> Wrap(e.cpu.gpr[GPR_SP] + 32)
                                  [] OTHER       -> e.cpu.gpr[r]],
                   apsr  |-> f[7] - (f[7] % (WordMod \div 16)),
                   ipsr  |-> 0,
                   mode  |-> IF ExcReturn(c) % 16 = HandlerMain THEN "handler" ELSE "thread",
                   stack |-> IF ExcReturn(c) % 16 = ThreadProcess THEN "process" ELSE "main",
                   exceptmask |-> e.cpu.exceptmask], e.mem, 2, TRUE)
  <2>1. ExcReturn(c) % 16 \in {HandlerMain, ThreadMain, ThreadProcess}
    BY <1>5
  <2>2. FrameSlots(e.cpu.gpr[GPR_SP]) \subseteq MemWords
    BY <1>3 DEF sp
  <2>3. x = except_exit(e.cpu, e.mem, ExcReturn(c))
    BY <1>3
  <2> HIDE DEF x
  <2> QED BY <2>1, <2>2, <2>3, Zenon DEF except_exit, f
<1> HIDE DEF x
<1>8. x.exit = "no"
  BY <1>7 DEF Outcome
<1>9. x.cpu.gpr = [c.gpr EXCEPT ![GPR_PC] = Wrap(c.gpr[GPR_PC] - 4)]
  <2>1. \A r \in GPR : x.cpu.gpr[r] = IF r = 15 THEN Wrap(c.gpr[15] - 4) ELSE c.gpr[r]
    <3> SUFFICES ASSUME NEW r \in GPR
                 PROVE  x.cpu.gpr[r] = IF r = 15 THEN Wrap(c.gpr[15] - 4) ELSE c.gpr[r]
      OBVIOUS
    <3>1. r \in Int
      BY DEF GPR
    <3>2. CASE r \in {0, 1, 2, 3, 12, 14, 15}
      BY <1>4, <1>7, <3>1, <3>2 DEF Outcome, FrameWord
    <3>3. CASE r = 13
      BY <1>3, <1>6, <1>7, <3>3 DEF Outcome
    <3>4. CASE r \notin {0, 1, 2, 3, 12, 13, 14, 15}
      BY <1>1, <1>2, <1>7, <3>1, <3>4 DEF Outcome
    <3> QED BY <3>2, <3>3, <3>4
  <2>2. x.cpu.gpr = [r \in GPR |-> x.cpu.gpr[r]]
    BY <1>7 DEF Outcome
  <2> QED BY <1>1, <2>1, <2>2
<1>10. x.cpu.apsr = c.apsr
  <2>1. f[7] = c.apsr
    BY <1>4 DEF FrameWord
  <2> QED BY <1>1, <1>7, <2>1 DEF Outcome
<1>11. x.cpu.mode = c.mode /\ x.cpu.stack = c.stack
  BY <1>1, <1>5, <1>7 DEF Outcome, HandlerMain, ThreadMain, ThreadProcess
<1> QED BY <1>8, <1>9, <1>10, <1>11 DEF x, e

-----------------------------------------------------------------------------
(***************************************************************************)
(* No cycle is counted twice and, until the 32-bit counters wrap, none is  *)
(* forgotten: for every program, memory, seed and checkpoint address.      *)
(***************************************************************************)

\* A reset is never more recent than the cycles at stake, and the cycles
\* since it are among those counted.
Ordered ==
  cycleCount < WordMod =>
    /\ wastedCycles + committed + cyclesSinceCP = cycleCount
    /\ cyclesSinceCP <= cyclesSinceReset
    /\ cyclesSinceReset <= cycleCount

CycleInv == IInv /\ CounterTypes /\ NoCycleTwice /\ Ordered

\* Wrapping never increases a number, and changes none that is a word.
LEMMA WrapBelow ==
  ASSUME NEW x \in Nat
  PROVE  /\ Wrap(x) \in Word /\ Wrap(x) <= x
         /\ x < WordMod => Wrap(x) = x
BY CpuAssumption DEF Wrap, Word

LEMMA CycleInit == CountedInit => CycleInv
<1> SUFFICES ASSUME CountedInit PROVE CycleInv
  OBVIOUS
<1>1. IInv
  BY InitInv DEF CountedInit
<1>2. 0 \in Word
  BY CpuAssumption DEF Word
<1> QED BY <1>1, <1>2 DEF CountedInit, CycleInv, CounterTypes, NoCycleTwice, Ordered

\* The machine's own invariant, under the steps of both.
LEMMA MachineInv == IInv /\ [CountedNext]_countedVars => IInv'
<1> SUFFICES ASSUME IInv, [CountedNext]_countedVars PROVE IInv'
  OBVIOUS
<1>1. CASE [Next]_vars
  BY <1>1, StepInv
<1>2. CASE \E cp, restoreCP \in CPAddrs : DebugWriteMarks(cp, restoreCP)
  <2>1. /\ UNCHANGED <<phase, cpu, lastCPU, takenBranch, mem, wdt, interrupted>>
        /\ commands < MaxCommands /\ commands' = commands + 1
    BY <1>2 DEF DebugWriteMarks, Command
  <2> QED BY <2>1, MachineAssumption
          DEF IInv, TypeOK, ExceptionsAreImmediate, Fetched, InsnAddr
<1> QED BY <1>1, <1>2 DEF CountedNext, CountedExwbmem, CountedAdvance, CountedReset,
          Uncounted, countedVars, Next, Step, Debug

\* Counting the ticks of an instruction, possibly after a reset.
LEMMA IncrementKeeps ==
  ASSUME CounterTypes, NoCycleTwice, Ordered, NEW t \in Nat, UNCHANGED committed,
         \/ /\ wastedCycles' = wastedCycles + cyclesSinceCP
            /\ Increment(0, 0, t)
         \/ /\ wastedCycles' = wastedCycles
            /\ Increment(cyclesSinceReset, cyclesSinceCP, t)
  PROVE  CounterTypes' /\ NoCycleTwice' /\ Ordered'
<1>1. /\ WordMod \in Nat \ {0} /\ cycleCount \in Nat /\ wastedCycles \in Nat
      /\ committed \in Nat /\ cyclesSinceReset \in Nat /\ cyclesSinceCP \in Nat
  BY CpuAssumption DEF CounterTypes, Word
<1>2. CASE /\ wastedCycles' = wastedCycles + cyclesSinceCP
           /\ Increment(0, 0, t)
  <2>1. cycleCount' = cycleCount + t /\ cyclesSinceReset' = Wrap(t) /\ cyclesSinceCP' = Wrap(t)
    BY <1>2 DEF Increment
  <2>2. Wrap(t) \in Word /\ Wrap(t) <= t /\ (t < WordMod => Wrap(t) = t) /\ Wrap(t) \in Nat
    BY WrapBelow, CpuAssumption DEF Word
  <2> QED BY <1>1, <1>2, <2>1, <2>2 DEF CounterTypes, NoCycleTwice, Ordered
<1>3. CASE /\ wastedCycles' = wastedCycles
           /\ Increment(cyclesSinceReset, cyclesSinceCP, t)
  <2> DEFINE a == cyclesSinceReset + t
             s == cyclesSinceCP + t
  <2>1. cycleCount' = cycleCount + t /\ cyclesSinceReset' = Wrap(a) /\ cyclesSinceCP' = Wrap(s)
    BY <1>3 DEF Increment
  <2>2. a \in Nat /\ s \in Nat
    BY <1>1
  <2>3. Wrap(a) \in Word /\ Wrap(a) <= a /\ (a < WordMod => Wrap(a) = a) /\ Wrap(a) \in Nat
    BY <2>2, WrapBelow, CpuAssumption DEF Word
  <2>4. Wrap(s) \in Word /\ Wrap(s) <= s /\ (s < WordMod => Wrap(s) = s) /\ Wrap(s) \in Nat
    BY <2>2, WrapBelow, CpuAssumption DEF Word
  <2> QED BY <1>1, <1>3, <2>1, <2>3, <2>4 DEF CounterTypes, NoCycleTwice, Ordered
<1> QED BY <1>2, <1>3

LEMMA CycleStep == CycleInv /\ [CountedNext]_countedVars => CycleInv'
<1> SUFFICES ASSUME CycleInv, [CountedNext]_countedVars PROVE CycleInv'
  OBVIOUS
<1> USE DEF CycleInv
<1>1. IInv'
  BY MachineInv
<1>2. /\ 0 \in Word /\ WordMod \in Nat \ {0} /\ cycleCount \in Nat /\ wastedCycles \in Nat
      /\ committed \in Nat /\ cyclesSinceReset \in Word /\ cyclesSinceCP \in Word
      /\ Word \subseteq Nat
  BY CpuAssumption DEF CounterTypes, Word
<1>3. CASE CountedExwbmem
  <2>1. cpu \in CPU /\ mem \in Memory /\ Insn \in DECODE_RESULT
    BY <1>3, CpuAssumption DEF CountedExwbmem, exwbmem, Insn, IInv, TypeOK, Fetched, Memory
  <2>2. Executed.ticks \in Nat
    BY <2>1, InstructionHandled DEF Executed, Handled, Outcomes, MaxTicks
  <2> QED BY <1>1, <1>3, <2>2, IncrementKeeps DEF CountedExwbmem
<1>4. CASE CountedAdvance
  <2> DEFINE at == AtCP(AdvancedPC(cpu, takenBranch))
             v  == IF at THEN 0 ELSE cyclesSinceCP
  <2>1. /\ wastedCycles' = IF addToWasted THEN wastedCycles + v ELSE wastedCycles
        /\ cyclesSinceCP' = IF addToWasted THEN 0 ELSE v
        /\ committed' = IF at THEN committed + cyclesSinceCP ELSE committed
        /\ cycleCount' = cycleCount /\ cyclesSinceReset' = cyclesSinceReset
    BY <1>4 DEF CountedAdvance, Charge
  <2> HIDE DEF at
  <2>2. CASE at
    BY <1>1, <1>2, <2>1, <2>2 DEF CounterTypes, NoCycleTwice, Ordered
  <2>3. CASE ~at
    BY <1>1, <1>2, <2>1, <2>3 DEF CounterTypes, NoCycleTwice, Ordered
  <2> QED BY <2>2, <2>3
<1>5. CASE UNCHANGED counters
  BY <1>1, <1>5 DEF counters, CounterTypes, NoCycleTwice, Ordered
<1>6. CASE CountedReset
  <2>1. CASE UNCHANGED counters
    BY <1>5, <2>1
  <2>2. CASE ResetCounters
    BY <1>1, <1>2, <2>2 DEF ResetCounters, CounterTypes, NoCycleTwice, Ordered
  <2> QED BY <1>6, <2>1, <2>2 DEF CountedReset, counters
<1> QED BY <1>3, <1>4, <1>5, <1>6
        DEF CountedNext, DebugWriteMarks, Uncounted, counters, countedVars

\* The counters keep their widths: cyclesSinceReset and cyclesSinceCP stay words
\* through INCREMENT_CYCLES, every reset, checkpoint and charge.
THEOREM CountersTyped == CountedSpec => []CounterTypes
BY CycleInit, CycleStep, PTL DEF CountedSpec, CycleInv

\* No cycle is charged to wastedCycles and committed by a checkpoint, nor
\* charged twice by a reset after a restore: INCREMENT_CYCLES, the marks of
\* the main loop and cpu_reset share every cycle out at most once.
THEOREM NoneTwice == CountedSpec => []NoCycleTwice
BY CycleInit, CycleStep, PTL DEF CountedSpec, CycleInv

\* Until the 32-bit counters wrap, the three shares add up to the cycles run.
THEOREM AllCounted == CountedSpec => []EveryCycleCounted
<1>1. CycleInv => EveryCycleCounted
  BY DEF CycleInv, Ordered, EveryCycleCounted
<1> QED BY <1>1, CycleInit, CycleStep, PTL DEF CountedSpec

-----------------------------------------------------------------------------
(***************************************************************************)
(* Addresses on the stack                                                  *)
(***************************************************************************)

\* A word of the stack.
LEMMA StackWord ==
  ASSUME NEW a \in StackWords
  PROVE  /\ a \in MemWords /\ a \in Int /\ a % 4 = 0
         /\ 64 < a /\ a + 40 < WordMod
<1>1. a \in MemWords /\ 64 < a /\ a + 40 < WordMod
  BY RefinementAssumption
<1>2. a \in Word /\ a % 4 = 0
  BY <1>1, CpuAssumption
<1> QED BY <1>1, <1>2, CpuAssumption DEF Word

\* A stack pointer of a disciplined context is a multiple of four, and a
\* frame fits below it and a register list above it.
LEMMA StackPointer ==
  ASSUME NEW c \in CPU, OnStack(c)
  PROVE  /\ c.gpr[GPR_SP] \in Word /\ c.gpr[GPR_SP] % 4 = 0
         /\ 64 < c.gpr[GPR_SP] /\ c.gpr[GPR_SP] + 36 < WordMod
         /\ EnterSP(c) = c.gpr[GPR_SP] - 32
         /\ EnterSP(c) \in Word /\ EnterSP(c) % 4 = 0
<1> DEFINE sp == c.gpr[GPR_SP]
<1>1. sp \in Word
  BY DEF CPU, GPR, GPR_SP
<1>2. sp \in Int /\ sp >= 0 /\ sp < WordMod /\ WordMod \in Nat
  BY <1>1, CpuAssumption DEF Word
<1>3. PICK a \in StackWords : a = sp \/ a = sp - 4
  BY DEF OnStack
<1>4. a \in Int /\ a % 4 = 0 /\ 64 < a /\ a + 40 < WordMod
  BY StackWord
<1> HIDE DEF sp
<1>5. sp % 4 = 0 /\ 64 < sp /\ sp + 36 < WordMod
  BY <1>2, <1>3, <1>4
<1>6. Wrap(sp - 32) = sp - 32
  BY <1>2, <1>5, WrapCases
<1>7. (sp - 32) % 4 = 0 /\ sp - 32 \in Word
  BY <1>2, <1>5 DEF Word
<1> QED BY <1>1, <1>5, <1>6, <1>7 DEF EnterSP, sp

\* The slots of a frame that does not wrap.
LEMMA Slot8 ==
  ASSUME NEW s \in Word, s % 4 = 0, s + 32 < WordMod, NEW k \in 0 .. 7
  PROVE  FrameSlot(s, k) = s + 4 * k
<1>1. s \in Int /\ s >= 0 /\ WordMod \in Nat /\ k \in Int
  BY CpuAssumption DEF Word
<1>2. Wrap(s + 4 * k) = s + 4 * k
  BY <1>1, WrapCases
<1>3. (s + 4 * k) % 4 = 0
  BY <1>1
<1> QED BY <1>1, <1>2, <1>3 DEF FrameSlot, WordAddr

-----------------------------------------------------------------------------
(***************************************************************************)
(* What an instruction does to memory                                      *)
(***************************************************************************)

\* A handler that returns has changed no word but those Writes names, all of
\* them data words unless it stored to do_reset; only that store resets.
LEMMA Written ==
  ASSUME NEW c \in CPU, NEW m \in Memory, NEW d \in DECODE_RESULT,
         executeJumpTable(c, m, d).exit \in {"no", "reset"}
  PROVE  /\ \A a \in MemWords \ Writes(c, d) : executeJumpTable(c, m, d).mem[a] = m[a]
         /\ Writes(c, d) \subseteq MemWords \cup {DoResetAddr}
         /\ executeJumpTable(c, m, d).exit = "reset" => DoResetAddr \in Writes(c, d)
<1> DEFINE r == executeJumpTable(c, m, d)
<1>1. d.op \in Handlers
  BY DEF DECODE_RESULT
<1>2. CASE d.op = "str_i"
  <2>1. Writes(c, d) = {Target(c, d)} /\ r = str_i(c, m, d)
    BY <1>2 DEF Writes, executeJumpTable
  <2> HIDE DEF r
  <2>2. CASE Target(c, d) \in MemWords
    <3>1. r = Outcome(c, [m EXCEPT ![Target(c, d)] = c.gpr[d.rD]], 2, FALSE)
      BY <2>1, <2>2, CpuAssumption DEF str_i, Target
    <3>2. r.mem = [m EXCEPT ![Target(c, d)] = c.gpr[d.rD]] /\ r.exit = "no"
      BY <3>1 DEF Outcome
    <3> QED BY <2>1, <2>2, <3>2 DEF Memory, r
  <2>3. CASE Target(c, d) = DoResetAddr
    <3>1. r.mem = m
      BY <2>1, <2>3, CpuAssumption DEF str_i, Target, Outcome, Exits
    <3> QED BY <2>1, <2>3, <3>1 DEF r
  <2>4. CASE Target(c, d) \notin MemWords \cup {DoResetAddr}
    <3>1. r = Exits(c, m, "exit1")
      BY <2>1, <2>4 DEF str_i, Target
    <3>2. r.exit = "exit1"
      BY <3>1 DEF Exits
    <3> QED BY <3>2 DEF r
  <2> QED BY <2>2, <2>3, <2>4
<1>3. CASE d.op = "push"
  <2> DEFINE list == Listed(d, GPR_LR)
             sp   == Wrap(c.gpr[GPR_SP] - 4 * Cardinality(list))
             n    == [a \in MemWords |->
                        IF \E q \in list : Slot(sp, list, q) = a
                        THEN c.gpr[CHOOSE q \in list : Slot(sp, list, q) = a] ELSE m[a]]
             ok   == \A q \in list : Slot(sp, list, q) \in MemWords
  <2>1. Writes(c, d) = {Slot(sp, list, q) : q \in list}
    BY <1>3 DEF Writes
  <2>2. r = push(c, m, d)
    BY <1>3 DEF executeJumpTable
  <2> HIDE DEF r
  <2>3. r = IF ok THEN Outcome(SetGpr(c, GPR_SP, sp), n, 1 + Cardinality(list), FALSE)
                  ELSE Exits(c, m, "exit1")
    BY <2>2 DEF push, Listed
  <2> HIDE DEF list, sp
  <2>4. ok /\ r.mem = n /\ r.exit = "no"
    <3>1. CASE ok
      BY <2>3, <3>1 DEF Outcome
    <3>2. CASE ~ok
      <4>1. r.exit = "exit1"
        BY <2>3, <3>2 DEF Exits
      <4> QED BY <4>1 DEF r
    <3> QED BY <3>1, <3>2
  <2> QED BY <2>1, <2>4 DEF r
<1>4. CASE d.op \in Handlers \ {"str_i", "push"}
  <2>1. Writes(c, d) = {}
    BY <1>4 DEF Writes
  <2>2. r.mem = m /\ r.exit # "reset"
    <3>1. CASE d.op \in {"movs_i", "adds_i8", "subs_i8", "muls"}
      BY <3>1 DEF executeJumpTable, movs_i, adds_i8, subs_i8, muls, Outcome
    <3>2. CASE d.op \in {"ldr_i", "pop", "exit"}
      BY <3>2 DEF executeJumpTable, ldr_i, pop, Outcome, Exits
    <3>3. CASE d.op \in {"b", "b_c", "bl", "blx"}
      BY <3>3 DEF executeJumpTable, b, b_c, bl, blx, Outcome, Exits
    <3>4. CASE d.op = "bx"
      BY <3>4 DEF executeJumpTable, bx, except_exit, Outcome, Exits
    <3> QED BY <1>4, <3>1, <3>2, <3>3, <3>4 DEF Handlers
  <2> QED BY <2>1, <2>2
<1> QED BY <1>1, <1>2, <1>3, <1>4

-----------------------------------------------------------------------------
(***************************************************************************)
(* The frames of the running handlers                                      *)
(***************************************************************************)

\* The backup is the context that executes, so it keeps the discipline.
BackedUp == phase = "execute" => lastCPU = cpu
Kept     == phase = "except" => Disciplined(lastCPU)

\* Every frame lies on the stack, below the contexts interrupted before it.
Nested ==
  \A i \in 1 .. Len(interrupted) :
    /\ OnStack(interrupted[i]) /\ FrameSlots(EnterSP(interrupted[i])) \subseteq StackWords
    /\ \A j \in 1 .. Len(interrupted) :
         i < j => interrupted[i].gpr[GPR_SP] <= EnterSP(interrupted[j])

FInv == BackedUp /\ Kept /\ Nested /\ FramesIntact

\* Every slot of a frame is a word of the stack, no lower than the frame of
\* the context interrupted last.
LEMMA FramesAbove ==
  ASSUME TypeOK, Nested, NEW i \in 1 .. Len(interrupted), NEW k \in 0 .. 7
  PROVE  /\ FrameSlot(EnterSP(interrupted[i]), k) \in StackWords
         /\ FrameSlot(EnterSP(interrupted[i]), k) >= EnterSP(interrupted[1])
         /\ FrameSlot(EnterSP(interrupted[i]), k) \in Int
<1> DEFINE s == EnterSP(interrupted[i])
           top == EnterSP(interrupted[1])
<1>1. Len(interrupted) \in Nat /\ 1 \in 1 .. Len(interrupted)
  BY DEF TypeOK
<1>2. interrupted[i] \in CPU /\ interrupted[1] \in CPU
  BY <1>1 DEF TypeOK
<1>3. /\ OnStack(interrupted[i]) /\ OnStack(interrupted[1])
      /\ FrameSlots(s) \subseteq StackWords
      /\ 1 < i => interrupted[1].gpr[GPR_SP] <= s
  BY <1>1 DEF Nested
<1>4. /\ interrupted[i].gpr[GPR_SP] \in Word /\ interrupted[i].gpr[GPR_SP] + 36 < WordMod
      /\ s = interrupted[i].gpr[GPR_SP] - 32 /\ s \in Word /\ s % 4 = 0
  BY <1>2, <1>3, StackPointer
<1>5. top = interrupted[1].gpr[GPR_SP] - 32 /\ interrupted[1].gpr[GPR_SP] \in Word
  BY <1>2, <1>3, StackPointer
<1> HIDE DEF s, top
<1>6. WordMod \in Nat /\ s + 32 < WordMod
  BY <1>4, CpuAssumption DEF Word
<1>7. FrameSlot(s, k) = s + 4 * k
  BY <1>4, <1>6, Slot8
<1>8. s \in Int /\ top \in Int /\ s >= top
  <2>1. CASE i = 1
    BY <1>4, <2>1 DEF s, top, Word
  <2>2. CASE 1 < i
    <3> DEFINE sp == interrupted[1].gpr[GPR_SP]
    <3>1. sp <= s /\ sp \in Word /\ s \in Word
      BY <1>3, <1>4, <1>5, <2>2
    <3>2. top = sp - 32
      BY <1>5
    <3> HIDE DEF sp
    <3> QED BY <1>6, <3>1, <3>2 DEF Word
  <2> QED BY <1>1, <2>1, <2>2
<1>9. FrameSlot(s, k) \in StackWords
  BY <1>3 DEF FrameSlots
<1> QED BY <1>7, <1>8, <1>9 DEF s, top

\* Putting a context in front of the others.
LEMMA Pushed ==
  ASSUME NEW x \in CPU, NEW t \in Seq(CPU), NEW s, s = <<x>> \o t
  PROVE  /\ Len(s) = Len(t) + 1 /\ s[1] = x
         /\ \A i \in 1 .. Len(s) : i = 1 \/ (i - 1 \in 1 .. Len(t) /\ s[i] = t[i - 1])
<1>1. Len(t) \in Nat
  OBVIOUS
<1>2. <<x>> \in Seq(CPU) /\ Len(<<x>>) = 1 /\ <<x>>[1] = x
  OBVIOUS
<1>3. Len(s) = Len(t) + 1
  BY <1>2
<1>4. \A i \in 1 .. Len(s) : s[i] = IF i <= 1 THEN <<x>>[i] ELSE t[i - 1]
  BY <1>2, <1>3
<1> QED BY <1>1, <1>2, <1>3, <1>4

\* An instruction of a disciplined handler leaves every frame alone.
LEMMA HandlersKeepFrames ==
  ASSUME IInv, StackDiscipline, Nested, FramesIntact, exwbmem
  PROVE  FramesIntact'
<1> SUFFICES ASSUME NEW i \in 1 .. Len(interrupted), NEW k \in 0 .. 7
             PROVE  mem'[FrameSlot(EnterSP(interrupted[i]), k)] = FrameWord(interrupted[i], k)
  BY DEF exwbmem, FramesIntact
<1> DEFINE a == FrameSlot(EnterSP(interrupted[i]), k)
<1>1. /\ TypeOK /\ cpu \in CPU /\ mem \in Memory /\ interrupted \in Seq(CPU)
      /\ phase = "execute" /\ InsnAddr(cpu) \in Code
  BY DEF IInv, TypeOK, Fetched, exwbmem, Memory
<1>2. Insn \in DECODE_RESULT
  BY <1>1, CpuAssumption DEF Insn
<1>3. /\ \A x \in MemWords \ Writes(cpu, Insn) : mem'[x] = mem[x]
      /\ Writes(cpu, Insn) \subseteq MemWords \cup {DoResetAddr}
  <2>1. Executed.exit \in {"no", "reset"} /\ mem' = Executed.mem
    BY DEF exwbmem
  <2> QED BY <1>1, <1>2, <2>1, Written DEF Executed
<1>4. interrupted # <<>> /\ Head(interrupted) = interrupted[1]
  BY <1>1
<1>5. HandlerKeeps(cpu, Insn, interrupted[1])
  BY <1>1, <1>4 DEF StackDiscipline, Disciplined, Insn
<1>6. Writes(cpu, Insn) \subseteq
        HandlerWords \cup {x \in StackWords : x < EnterSP(interrupted[1])}
  BY <1>3, <1>5 DEF HandlerKeeps
<1>7. a \in StackWords /\ a >= EnterSP(interrupted[1]) /\ a \in Int
  BY <1>1, FramesAbove
<1>8. a \notin HandlerWords /\ a \in MemWords
  BY <1>7, StackWord, RefinementAssumption
<1>9. EnterSP(interrupted[1]) \in Int
  <2>1. interrupted[1] \in CPU /\ OnStack(interrupted[1])
    BY <1>1, <1>4 DEF Nested
  <2> QED BY <2>1, StackPointer DEF Word
<1>10. a \notin Writes(cpu, Insn)
  BY <1>6, <1>7, <1>8, <1>9
<1>11. mem[a] = FrameWord(interrupted[i], k)
  BY DEF FramesIntact
<1> QED BY <1>3, <1>8, <1>10, <1>11

\* What an exception entry stacks, for the context that is rolled back.
LEMMA Entered ==
  ASSUME IInv, check_except
  PROVE  \/ /\ phase' = "exit1" /\ mem' = mem /\ interrupted' = interrupted
            /\ View(cpu') = View(lastCPU)
         \/ /\ phase' = "advance" /\ interrupted' = <<lastCPU>> \o interrupted
            /\ FrameSlots(EnterSP(lastCPU)) \subseteq MemWords
            /\ mem' = PushFrame(lastCPU, mem)
            /\ cpu' = [except_enter(lastCPU, mem, WDT_EXCEPTION).cpu EXCEPT !.exceptmask = {}]
<1>1. lastCPU \in CPU /\ cpu \in CPU
  BY DEF IInv, TypeOK
<1>2. PICK i \in cpu.exceptmask :
        LET r == except_enter(RolledBack, mem, i)
        IN /\ cpu' = cpu_clear_except(r.cpu, i)
           /\ mem' = r.mem
           /\ phase' = IF r.exit = "no" THEN "advance" ELSE "exit1"
           /\ interrupted' = IF r.exit = "no" THEN <<lastCPU>> \o interrupted
                                              ELSE interrupted
  BY DEF check_except
<1>3. i = WDT_EXCEPTION /\ cpu.exceptmask = {WDT_EXCEPTION}
  BY <1>1 DEF CPU
<1>4. RolledBack = [lastCPU EXCEPT !.exceptmask = {WDT_EXCEPTION}]
  BY <1>3 DEF RolledBack
<1> DEFINE c == RolledBack
<1>5. /\ c.gpr = lastCPU.gpr /\ c.apsr = lastCPU.apsr /\ c.mode = lastCPU.mode
      /\ c.stack = lastCPU.stack /\ c.exceptmask = {WDT_EXCEPTION}
  BY <1>1, <1>4 DEF CPU
<1> HIDE DEF c
<1>6. EnterSP(c) = EnterSP(lastCPU) /\ ExcReturn(c) = ExcReturn(lastCPU)
  BY <1>5 DEF EnterSP, ExcReturn
<1>7. \A k : FrameWord(c, k) = FrameWord(lastCPU, k)
  BY <1>5 DEF FrameWord
<1>8. PushFrame(c, mem) = PushFrame(lastCPU, mem)
  BY <1>6, <1>7 DEF PushFrame
<1>9. CASE FrameSlots(EnterSP(lastCPU)) \subseteq MemWords
  <2> DEFINE r == except_enter(c, mem, WDT_EXCEPTION)
             s == except_enter(lastCPU, mem, WDT_EXCEPTION)
  <2>1. /\ r.exit = "no" /\ r.mem = PushFrame(lastCPU, mem)
        /\ r.cpu = [gpr |-> s.cpu.gpr, apsr |-> s.cpu.apsr, ipsr |-> WDT_EXCEPTION,
                    mode |-> "handler", stack |-> "main", exceptmask |-> {WDT_EXCEPTION}]
        /\ s.cpu = [gpr |-> s.cpu.gpr, apsr |-> s.cpu.apsr, ipsr |-> WDT_EXCEPTION,
                    mode |-> "handler", stack |-> "main", exceptmask |-> lastCPU.exceptmask]
    <3> DEFINE n == PushFrame(lastCPU, mem)
               g == [lastCPU.gpr EXCEPT ![GPR_SP] = EnterSP(lastCPU),
                                        ![GPR_LR] = ExcReturn(lastCPU),
                                        ![GPR_PC] = n[4 * WDT_EXCEPTION]]
               e(mask) == [gpr |-> g, apsr |-> lastCPU.apsr, ipsr |-> WDT_EXCEPTION,
                           mode |-> "handler", stack |-> "main", exceptmask |-> mask]
    <3>1. r = Outcome(e({WDT_EXCEPTION}), n, 0, TRUE)
      BY <1>5, <1>6, <1>8, <1>9, Zenon DEF except_enter
    <3>2. s = Outcome(e(lastCPU.exceptmask), n, 0, TRUE)
      BY <1>9, Zenon DEF except_enter
    <3> HIDE DEF n, g, r, s
    <3> QED BY <3>1, <3>2 DEF Outcome, n
  <2>2. /\ cpu' = cpu_clear_except(r.cpu, WDT_EXCEPTION) /\ mem' = r.mem
        /\ r.exit = "no" => phase' = "advance" /\ interrupted' = <<lastCPU>> \o interrupted
    BY <1>2, <1>3 DEF c
  <2> HIDE DEF r, s
  <2>3. cpu' = [s.cpu EXCEPT !.exceptmask = {}]
    <3>1. {WDT_EXCEPTION} \ {WDT_EXCEPTION} = {}
      OBVIOUS
    <3>2. [r.cpu EXCEPT !.exceptmask = {}] = [s.cpu EXCEPT !.exceptmask = {}]
      BY <2>1
    <3>3. cpu' = [r.cpu EXCEPT !.exceptmask = {}]
      <4>1. r.cpu.exceptmask \ {WDT_EXCEPTION} = {}
        BY <2>1, <3>1
      <4>2. cpu' = [r.cpu EXCEPT !.exceptmask = r.cpu.exceptmask \ {WDT_EXCEPTION}]
        BY <2>2 DEF cpu_clear_except
      <4> QED BY <4>1, <4>2
    <3> QED BY <3>2, <3>3
  <2> QED BY <1>9, <2>1, <2>2, <2>3 DEF s
<1>10. CASE ~(FrameSlots(EnterSP(lastCPU)) \subseteq MemWords)
  <2>1. except_enter(c, mem, i) = Exits(c, mem, "exit1")
    BY <1>6, <1>10 DEF except_enter
  <2>2. /\ phase' = "exit1" /\ mem' = mem /\ interrupted' = interrupted
        /\ cpu' = cpu_clear_except(c, i)
    BY <1>2, <2>1 DEF Exits, c
  <2>3. c \in CPU
    BY <1>1, <1>4 DEF CPU, c
  <2>4. View(cpu') = View(lastCPU)
    BY <1>5, <2>2, <2>3 DEF View, cpu_clear_except, CPU
  <2> QED BY <2>2, <2>4
<1> QED BY <1>9, <1>10

\* A new frame lies below the stack pointer of the context it saves, hence
\* below every frame of the handlers that were running already.
LEMMA FrameAdded ==
  ASSUME IInv, Nested, FramesIntact, phase = "except", Disciplined(lastCPU),
         FrameSlots(EnterSP(lastCPU)) \subseteq MemWords,
         mem' = PushFrame(lastCPU, mem), interrupted' = <<lastCPU>> \o interrupted
  PROVE  Nested' /\ FramesIntact'
<1>1. /\ TypeOK /\ lastCPU \in CPU /\ mem \in Memory /\ interrupted \in Seq(CPU)
  BY DEF IInv, TypeOK, Memory
<1>2. OnStack(lastCPU) /\ FrameSlots(EnterSP(lastCPU)) \subseteq StackWords
  BY DEF Disciplined, OnStack
<1>3. /\ lastCPU.gpr[GPR_SP] \in Word /\ lastCPU.gpr[GPR_SP] + 36 < WordMod
      /\ EnterSP(lastCPU) = lastCPU.gpr[GPR_SP] - 32
      /\ EnterSP(lastCPU) \in Word /\ EnterSP(lastCPU) % 4 = 0
  BY <1>1, <1>2, StackPointer
<1> DEFINE sp == lastCPU.gpr[GPR_SP]
           s  == EnterSP(lastCPU)
<1>4. sp \in Int /\ s \in Int /\ s + 32 < WordMod /\ WordMod \in Nat
  BY <1>3, CpuAssumption DEF Word
<1>5. \A k \in 0 .. 7 : FrameSlot(s, k) = s + 4 * k
  BY <1>3, <1>4, Slot8
<1>6. \A a \in FrameSlots(s) : a < sp
  <2> SUFFICES ASSUME NEW k \in 0 .. 7 PROVE FrameSlot(s, k) < sp
    BY DEF FrameSlots
  <2>1. FrameSlot(s, k) = s + 4 * k /\ s = sp - 32
    BY <1>3, <1>5
  <2> HIDE DEF sp, s
  <2> QED BY <1>4, <2>1
<1>7. Len(interrupted) \in Nat
  BY <1>1
<1>8. interrupted # <<>> => /\ sp <= EnterSP(interrupted[1])
                            /\ EnterSP(interrupted[1]) \in Int
  <2> SUFFICES ASSUME interrupted # <<>>
               PROVE  sp <= EnterSP(interrupted[1]) /\ EnterSP(interrupted[1]) \in Int
    OBVIOUS
  <2>1. Head(interrupted) = interrupted[1] /\ 1 \in 1 .. Len(interrupted)
    BY <1>1
  <2>2. interrupted[1] \in CPU /\ OnStack(interrupted[1])
    BY <1>1, <2>1 DEF Nested
  <2>3. EnterSP(interrupted[1]) \in Word
    BY <2>2, StackPointer
  <2> QED BY <2>1, <2>3 DEF Disciplined, HandlerKeeps, Word
<1>9. /\ Len(interrupted') = Len(interrupted) + 1 /\ interrupted'[1] = lastCPU
      /\ \A i \in 1 .. Len(interrupted') :
           i = 1 \/ (i - 1 \in 1 .. Len(interrupted) /\ interrupted'[i] = interrupted[i - 1])
  BY <1>1, Pushed
<1>10. \A i \in 1 .. Len(interrupted) : sp <= EnterSP(interrupted[i])
  <2> TAKE i \in 1 .. Len(interrupted)
  <2>1. interrupted # <<>> /\ 1 \in 1 .. Len(interrupted)
    BY <1>7
  <2>2. interrupted[1] \in CPU /\ interrupted[i] \in CPU
    BY <1>1, <2>1
  <2>3. /\ OnStack(interrupted[1]) /\ OnStack(interrupted[i])
        /\ 1 < i => interrupted[1].gpr[GPR_SP] <= EnterSP(interrupted[i])
    BY <2>1 DEF Nested
  <2>4. /\ EnterSP(interrupted[1]) = interrupted[1].gpr[GPR_SP] - 32
        /\ interrupted[1].gpr[GPR_SP] \in Word
    BY <2>2, <2>3, StackPointer
  <2>5. EnterSP(interrupted[i]) \in Word
    BY <2>2, <2>3, StackPointer
  <2>6. CASE i = 1
    BY <1>8, <2>1, <2>6
  <2>7. CASE 1 < i
    <3> DEFINE top == interrupted[1].gpr[GPR_SP]
               low == EnterSP(interrupted[i])
    <3>1. sp <= top - 32 /\ top <= low
      BY <1>8, <2>1, <2>3, <2>4, <2>7
    <3>2. top \in Int /\ low \in Int
      BY <2>4, <2>5 DEF Word
    <3> HIDE DEF top, low
    <3>3. sp <= low
      <4> HIDE DEF sp
      <4> QED BY <1>4, <3>1, <3>2
    <3> QED BY <3>3 DEF low
  <2> QED BY <2>6, <2>7
<1> HIDE DEF sp
<1>11. Nested'
  <2> SUFFICES ASSUME NEW i \in 1 .. Len(interrupted')
               PROVE  /\ OnStack(interrupted'[i])
                      /\ FrameSlots(EnterSP(interrupted'[i])) \subseteq StackWords
                      /\ \A j \in 1 .. Len(interrupted') :
                           i < j => interrupted'[i].gpr[GPR_SP] <= EnterSP(interrupted'[j])
    BY DEF Nested, OnStack, EnterSP
  <2>1. CASE i = 1
    <3>1. ASSUME NEW j \in 1 .. Len(interrupted'), i < j
          PROVE  sp <= EnterSP(interrupted'[j])
      BY <1>9, <1>10, <2>1, <3>1
    <3> QED BY <1>2, <1>9, <2>1, <3>1 DEF sp
  <2>2. CASE i # 1
    <3>1. i - 1 \in 1 .. Len(interrupted) /\ interrupted'[i] = interrupted[i - 1]
      BY <1>9, <2>2
    <3>2. ASSUME NEW j \in 1 .. Len(interrupted'), i < j
          PROVE  interrupted'[i].gpr[GPR_SP] <= EnterSP(interrupted'[j])
      <4>1. j - 1 \in 1 .. Len(interrupted) /\ interrupted'[j] = interrupted[j - 1]
        BY <1>9, <3>2
      <4>2. i - 1 < j - 1
        BY <3>2
      <4> QED BY <3>1, <4>1, <4>2 DEF Nested
    <3> QED BY <3>1, <3>2 DEF Nested
  <2> QED BY <2>1, <2>2
<1>12. FramesIntact'
  <2> SUFFICES ASSUME NEW i \in 1 .. Len(interrupted'), NEW k \in 0 .. 7
               PROVE  mem'[FrameSlot(EnterSP(interrupted'[i]), k)] = FrameWord(interrupted'[i], k)
    BY DEF FramesIntact, FrameSlot, EnterSP, FrameWord
  <2>1. CASE i = 1
    BY <1>1, <1>9, <2>1, FrameReadsBack
  <2>2. CASE i # 1
    <3>1. i - 1 \in 1 .. Len(interrupted) /\ interrupted'[i] = interrupted[i - 1]
      BY <1>9, <2>2
    <3> DEFINE a == FrameSlot(EnterSP(interrupted[i - 1]), k)
    <3>2. a \in StackWords /\ a >= EnterSP(interrupted[1]) /\ a \in Int
      BY <1>1, <3>1, FramesAbove
    <3>3. interrupted # <<>>
      BY <3>1
    <3>4. a \notin FrameSlots(s) /\ a \in MemWords
      BY <1>4, <1>6, <1>8, <3>2, <3>3, StackWord
    <3>5. mem'[a] = mem[a]
      BY <3>4 DEF PushFrame
    <3>6. mem[a] = FrameWord(interrupted[i - 1], k)
      BY <3>1 DEF FramesIntact
    <3> QED BY <3>1, <3>5, <3>6
  <2> QED BY <2>1, <2>2
<1> QED BY <1>11, <1>12

\* The stack of contexts that Retire leaves: all of it, none, or the older.
LEMMA Shortened ==
  ASSUME IInv, Nested, FramesIntact, Retire
  PROVE  Nested' /\ FramesIntact'
<1>1. interrupted \in Seq(CPU) /\ mem' = mem
  BY DEF IInv, TypeOK, Retire
<1>2. CASE interrupted' = interrupted
  BY <1>1, <1>2 DEF Nested, FramesIntact, OnStack, EnterSP, FrameWord, FrameSlot
<1>3. CASE interrupted' = <<>>
  BY <1>3 DEF Nested, FramesIntact
<1>4. CASE interrupted # <<>> /\ interrupted' = Tail(interrupted)
  <2>1. /\ Len(interrupted) \in Nat /\ Len(interrupted') = Len(interrupted) - 1
        /\ \A i \in 1 .. Len(interrupted') : interrupted'[i] = interrupted[i + 1]
    BY <1>1, <1>4
  <2>2. \A i \in 1 .. Len(interrupted') : i + 1 \in 1 .. Len(interrupted)
    BY <2>1
  <2>3. Nested'
    <3> SUFFICES ASSUME NEW i \in 1 .. Len(interrupted')
                 PROVE  /\ OnStack(interrupted'[i])
                        /\ FrameSlots(EnterSP(interrupted'[i])) \subseteq StackWords
                        /\ \A j \in 1 .. Len(interrupted') :
                             i < j => interrupted'[i].gpr[GPR_SP] <= EnterSP(interrupted'[j])
      BY DEF Nested, OnStack, EnterSP
    <3>1. ASSUME NEW j \in 1 .. Len(interrupted'), i < j
          PROVE  interrupted'[i].gpr[GPR_SP] <= EnterSP(interrupted'[j])
      <4>1. i + 1 < j + 1
        BY <3>1
      <4> QED BY <2>1, <2>2, <4>1 DEF Nested
    <3> QED BY <2>1, <2>2, <3>1 DEF Nested
  <2>4. FramesIntact'
    <3> SUFFICES ASSUME NEW i \in 1 .. Len(interrupted'), NEW k \in 0 .. 7
                 PROVE  mem'[FrameSlot(EnterSP(interrupted'[i]), k)] = FrameWord(interrupted'[i], k)
      BY DEF FramesIntact, FrameSlot, EnterSP, FrameWord
    <3> QED BY <1>1, <2>1, <2>2 DEF FramesIntact
  <2> QED BY <2>3, <2>4
<1> QED BY <1>2, <1>3, <1>4 DEF Retire

LEMMA FramesInit == Init => FInv
<1> SUFFICES ASSUME Init PROVE FInv
  OBVIOUS
<1>1. interrupted = <<>> /\ phase = "fetch" /\ Len(<<>>) = 0
  BY DEF Init
<1> QED BY <1>1 DEF FInv, BackedUp, Kept, Nested, FramesIntact

LEMMA FramesStep ==
  ASSUME IInv, StackDiscipline, FInv, [Next]_vars PROVE FInv'
<1> USE DEF FInv
<1>1. CASE Fetch
  <2>1. BackedUp' /\ Kept'
    BY <1>1 DEF Fetch, BackedUp, Kept
  <2> QED BY <1>1, <2>1 DEF Fetch, Nested, FramesIntact
<1>2. CASE exwbmem
  <2>1. FramesIntact'
    BY <1>2, HandlersKeepFrames
  <2>2. Kept'
    BY <1>2 DEF exwbmem, Kept, BackedUp, StackDiscipline, Disciplined
  <2>3. BackedUp' /\ Nested'
    BY <1>2 DEF exwbmem, BackedUp, Nested
  <2> QED BY <2>1, <2>2, <2>3
<1>3. CASE sim_exit
  <2>1. phase' \notin {"execute", "except"}
    BY <1>3 DEF sim_exit
  <2> QED BY <1>3, <2>1 DEF sim_exit, BackedUp, Kept, Nested, FramesIntact
<1>4. CASE check_except
  <2>1. phase = "except" /\ Disciplined(lastCPU) /\ phase' \notin {"execute", "except"}
    BY <1>4 DEF check_except, Kept
  <2>2. Nested' /\ FramesIntact'
    <3>1. CASE phase' = "exit1" /\ mem' = mem /\ interrupted' = interrupted
      BY <3>1 DEF Nested, FramesIntact
    <3>2. CASE /\ interrupted' = <<lastCPU>> \o interrupted
               /\ FrameSlots(EnterSP(lastCPU)) \subseteq MemWords
               /\ mem' = PushFrame(lastCPU, mem)
      BY <2>1, <3>2, FrameAdded
    <3> QED BY <1>4, <3>1, <3>2, Entered
  <2> QED BY <2>1, <2>2 DEF BackedUp, Kept
<1>5. CASE Retire
  <2>1. phase' = "advance"
    BY <1>5 DEF Retire
  <2> QED BY <1>5, <2>1, Shortened DEF BackedUp, Kept
<1>6. CASE Advance
  <2>1. phase' \notin {"execute", "except"}
    BY <1>6 DEF Advance
  <2> QED BY <1>6, <2>1 DEF Advance, BackedUp, Kept, Nested, FramesIntact
<1>7. CASE sim_command
  <2>1. phase' \notin {"execute", "except"} /\ interrupted' = <<>> /\ Len(<<>>) = 0
    BY <1>7 DEF sim_command, Command
  <2> QED BY <2>1 DEF BackedUp, Kept, Nested, FramesIntact
<1>8. CASE \E s \in Seeds : DebugWriteSeed(s)
  <2>1. phase' = "fetch" /\ mem' = mem /\ interrupted' = interrupted
    BY <1>8 DEF DebugWriteSeed, Command
  <2> QED BY <2>1 DEF BackedUp, Kept, Nested, FramesIntact
<1>9. CASE UNCHANGED vars
  BY <1>9 DEF vars, BackedUp, Kept, Disciplined, Nested, FramesIntact
<1> QED BY <1>1, <1>2, <1>3, <1>4, <1>5, <1>6, <1>7, <1>8, <1>9 DEF Next, Step, Debug

\* As long as a handler has not returned, the frame pushed for it holds the
\* registers of the context it interrupted, to any depth of nesting, for
\* every program that keeps the stack discipline.
THEOREM FramesStayIntact == Spec /\ []StackDiscipline => []FramesIntact
<1>1. Init => FInv
  BY FramesInit
<1>2. IInv /\ StackDiscipline /\ FInv /\ [Next]_vars => FInv'
  BY FramesStep
<1>3. FInv => FramesIntact
  BY DEF FInv
<1> QED BY <1>1, <1>2, <1>3, Invariance, PTL DEF Spec

-----------------------------------------------------------------------------
(***************************************************************************)
(* What an instruction does with what it can see                           *)
(***************************************************************************)

\* Only the view of a processor decides what the register writes make of it.
LEMMA ViewsAgree ==
  ASSUME NEW c \in CPU, NEW v \in CPU, View(v) = View(c)
  PROVE  /\ v.gpr = c.gpr /\ v.apsr = c.apsr /\ v.mode = c.mode /\ v.stack = c.stack
         /\ \A r, x : View(SetGpr(v, r, x)) = View(SetGpr(c, r, x))
         /\ \A res : View(SetNZ(v, res)) = View(SetNZ(c, res))
         /\ \A x, y, carry, res : View(SetCV(v, x, y, carry, res)) = View(SetCV(c, x, y, carry, res))
<1>1. v.gpr = c.gpr /\ v.apsr = c.apsr /\ v.mode = c.mode /\ v.stack = c.stack
  BY DEF View
<1>2. \A r, x : View(SetGpr(v, r, x)) = View(SetGpr(c, r, x))
  BY <1>1 DEF View, SetGpr, CPU
<1>3. \A res : View(SetNZ(v, res)) = View(SetNZ(c, res))
  <2> TAKE res
  <2> DEFINE bits == Bit(res >= WordMod \div 2, WordMod \div 2) + Bit(res = 0, WordMod \div 4)
  <2>1. \A x \in CPU : SetNZ(x, res) = [x EXCEPT !.apsr = bits + (x.apsr % (WordMod \div 4))]
    BY DEF SetNZ, CPU
  <2> HIDE DEF bits
  <2> QED BY <1>1, <2>1 DEF View, CPU
<1>4. \A x, y, carry, res : View(SetCV(v, x, y, carry, res)) = View(SetCV(c, x, y, carry, res))
  <2> TAKE x, y, carry, res
  <2> DEFINE neg(z) == z >= WordMod \div 2
             bitC   == Bit(x + y + carry >= WordMod, WordMod \div 8)
             bitV   == Bit(neg(x) = neg(y) /\ neg(res) # neg(x), WordMod \div 16)
             new(f) == (f - (f % (WordMod \div 4))) + bitC + bitV + (f % (WordMod \div 16))
  <2>1. \A z \in CPU : SetCV(z, x, y, carry, res) = [z EXCEPT !.apsr = new(z.apsr)]
    BY DEF SetCV, CPU
  <2> HIDE DEF new
  <2> QED BY <1>1, <2>1 DEF View, CPU
<1> QED BY <1>1, <1>2, <1>3, <1>4

\* Two runs of an instruction end the same way, with the same registers.
SameEnd(s, r) == s.exit = r.exit /\ s.taken = r.taken /\ View(s.cpu) = View(r.cpu)

LEMMA ArithmeticAgrees ==
  ASSUME NEW c \in CPU, NEW v \in CPU, View(v) = View(c), NEW d \in DECODE_RESULT,
         NEW m, NEW w, d.op \in {"movs_i", "adds_i8", "subs_i8", "muls"}
  PROVE  /\ SameEnd(executeJumpTable(v, w, d), executeJumpTable(c, m, d))
         /\ executeJumpTable(v, w, d).mem = w /\ executeJumpTable(c, m, d).mem = m
<1>1. d.rD \in GPR /\ d.rM \in GPR /\ d.imm \in Int
  BY DEF DECODE_RESULT, GPR
<1>2. /\ v.gpr = c.gpr /\ c.gpr[d.rD] \in Word /\ c.gpr[d.rM] \in Word
  BY <1>1, ViewsAgree DEF CPU
<1>3. Wrap(d.imm) \in Word /\ WordMod \in Nat
  BY <1>1, WrapWord, CpuAssumption
<1> DEFINE set(x, val)  == SetNZ(SetGpr(x, d.rD, val), val)
<1>4. \A val \in Word : /\ View(set(v, val)) = View(set(c, val))
                        /\ set(v, val) \in CPU /\ set(c, val) \in CPU
  <2> TAKE val \in Word
  <2>1. SetGpr(v, d.rD, val) \in CPU /\ SetGpr(c, d.rD, val) \in CPU
    BY SetGprType
  <2>2. View(SetGpr(v, d.rD, val)) = View(SetGpr(c, d.rD, val))
    BY ViewsAgree
  <2>3. View(set(v, val)) = View(set(c, val))
    BY <2>1, <2>2, ViewsAgree
  <2> QED BY <2>1, <2>3, SetNZType
<1>5. \A val \in Word : \A a, s, carry :
        View(SetCV(set(v, val), a, s, carry, val)) = View(SetCV(set(c, val), a, s, carry, val))
  BY <1>4, ViewsAgree
<1>6. CASE d.op = "movs_i"
  <2> DEFINE val == Wrap(d.imm)
  <2>1. /\ executeJumpTable(v, w, d) = Outcome(set(v, val), w, 1, FALSE)
        /\ executeJumpTable(c, m, d) = Outcome(set(c, val), m, 1, FALSE)
    BY <1>6 DEF executeJumpTable, movs_i
  <2>2. View(set(v, val)) = View(set(c, val))
    BY <1>3, <1>4
  <2> HIDE DEF set
  <2> QED BY <2>1, <2>2 DEF Outcome, SameEnd
<1>7. CASE d.op = "adds_i8"
  <2> DEFINE a   == c.gpr[d.rD]
             val == Wrap(a + Wrap(d.imm))
  <2>1. /\ executeJumpTable(v, w, d)
             = Outcome(SetCV(set(v, val), a, Wrap(d.imm), 0, val), w, 1, FALSE)
        /\ executeJumpTable(c, m, d)
             = Outcome(SetCV(set(c, val), a, Wrap(d.imm), 0, val), m, 1, FALSE)
    BY <1>2, <1>7 DEF executeJumpTable, adds_i8
  <2>2. val \in Word
    BY <1>2, <1>3, WrapWord DEF Word
  <2> HIDE DEF set, val
  <2>3. View(SetCV(set(v, val), a, Wrap(d.imm), 0, val))
          = View(SetCV(set(c, val), a, Wrap(d.imm), 0, val))
    BY <1>5, <2>2
  <2> QED BY <2>1, <2>3 DEF Outcome, SameEnd
<1>8. CASE d.op = "subs_i8"
  <2> DEFINE a   == c.gpr[d.rD]
             sub == WordMod - 1 - Wrap(d.imm)
             val == Wrap(a + sub + 1)
  <2>1. /\ executeJumpTable(v, w, d)
             = Outcome(SetCV(set(v, val), a, sub, 1, val), w, 1, FALSE)
        /\ executeJumpTable(c, m, d)
             = Outcome(SetCV(set(c, val), a, sub, 1, val), m, 1, FALSE)
    BY <1>2, <1>8 DEF executeJumpTable, subs_i8
  <2>2. val \in Word
    <3>1. sub \in Int /\ a \in Int
      BY <1>2, <1>3 DEF Word
    <3> QED BY <3>1, WrapWord
  <2> HIDE DEF set, val
  <2>3. View(SetCV(set(v, val), a, sub, 1, val)) = View(SetCV(set(c, val), a, sub, 1, val))
    BY <1>5, <2>2
  <2> QED BY <2>1, <2>3 DEF Outcome, SameEnd
<1>9. CASE d.op = "muls"
  <2> DEFINE val == Wrap(c.gpr[d.rD] * c.gpr[d.rM])
  <2>1. /\ executeJumpTable(v, w, d) = Outcome(set(v, val), w, 32, FALSE)
        /\ executeJumpTable(c, m, d) = Outcome(set(c, val), m, 32, FALSE)
    BY <1>2, <1>9 DEF executeJumpTable, muls
  <2>2. c.gpr[d.rD] * c.gpr[d.rM] \in Int
    BY <1>2 DEF Word
  <2>3. View(set(v, val)) = View(set(c, val))
    BY <1>4, <2>2, WrapWord
  <2> HIDE DEF set, val
  <2> QED BY <2>1, <2>3 DEF Outcome, SameEnd
<1> QED BY <1>6, <1>7, <1>8, <1>9

\* A branch other than an exception return looks at the registers only.
LEMMA BranchAgrees ==
  ASSUME NEW c \in CPU, NEW v \in CPU, View(v) = View(c), NEW d \in DECODE_RESULT,
         NEW m, NEW w,
         d.op \in {"b", "b_c", "bl", "blx"} \/ (d.op = "bx" /\ ~IsExcReturn(c.gpr[d.rM]))
  PROVE  /\ SameEnd(executeJumpTable(v, w, d), executeJumpTable(c, m, d))
            \/ executeJumpTable(c, m, d).exit # "no"
         /\ executeJumpTable(v, w, d).mem = w /\ executeJumpTable(c, m, d).mem = m
<1>1. v.gpr = c.gpr /\ v.apsr = c.apsr
  BY ViewsAgree
<1>2. \A r, x : View(SetGpr(v, r, x)) = View(SetGpr(c, r, x))
  BY ViewsAgree
<1>3. \A cond : Taken(v, cond) = Taken(c, cond)
  BY <1>1 DEF Taken, FLAG_N, FLAG_Z, FLAG_C, FLAG_V
<1>4. /\ SameEnd(b(v, w, d), b(c, m, d))
      /\ b(v, w, d).mem = w /\ b(c, m, d).mem = m
  BY <1>1, <1>2 DEF b, Outcome, SameEnd
<1>5. CASE d.op = "b"
  BY <1>4, <1>5 DEF executeJumpTable
<1>6. CASE d.op = "b_c"
  <2>1. executeJumpTable(v, w, d) = b_c(v, w, d) /\ executeJumpTable(c, m, d) = b_c(c, m, d)
    BY <1>6 DEF executeJumpTable
  <2>2. CASE d.cond \in {14, 15}
    BY <2>1, <2>2 DEF b_c, Exits
  <2>3. CASE d.cond \notin {14, 15} /\ Taken(c, d.cond)
    BY <1>3, <1>4, <2>1, <2>3 DEF b_c
  <2>4. CASE d.cond \notin {14, 15} /\ ~Taken(c, d.cond)
    <3>1. /\ executeJumpTable(v, w, d) = Outcome(v, w, 1, FALSE)
          /\ executeJumpTable(c, m, d) = Outcome(c, m, 1, FALSE)
      BY <1>3, <2>1, <2>4 DEF b_c
    <3> QED BY <3>1 DEF Outcome, SameEnd
  <2> QED BY <2>2, <2>3, <2>4
<1>7. CASE d.op \in {"bl", "blx"}
  <2> DEFINE go(x, y, z) == [x EXCEPT !.gpr[GPR_LR] = y, !.gpr[GPR_PC] = z]
  <2>1. \A y, z : View(go(v, y, z)) = View(go(c, y, z))
    BY <1>1 DEF View, CPU
  <2>2. CASE d.op = "bl"
    <3> DEFINE z == Wrap(c.gpr[GPR_PC] + d.imm)
    <3>1. /\ executeJumpTable(v, w, d) = Outcome(go(v, c.gpr[GPR_PC], z), w, 3, TRUE)
          /\ executeJumpTable(c, m, d) = Outcome(go(c, c.gpr[GPR_PC], z), m, 3, TRUE)
      BY <1>1, <2>2 DEF executeJumpTable, bl
    <3> HIDE DEF go, z
    <3> QED BY <2>1, <3>1 DEF Outcome, SameEnd
  <2>3. CASE d.op = "blx" /\ c.gpr[d.rM] % 2 # 0
    <3> DEFINE y == Wrap(c.gpr[GPR_PC] - 2)
    <3>1. /\ executeJumpTable(v, w, d) = Outcome(go(v, y, c.gpr[d.rM]), w, 2, TRUE)
          /\ executeJumpTable(c, m, d) = Outcome(go(c, y, c.gpr[d.rM]), m, 2, TRUE)
      BY <1>1, <2>3 DEF executeJumpTable, blx
    <3> HIDE DEF go, y
    <3> QED BY <2>1, <3>1 DEF Outcome, SameEnd
  <2>4. CASE d.op = "blx" /\ c.gpr[d.rM] % 2 = 0
    BY <1>1, <2>4 DEF executeJumpTable, blx, Exits
  <2> QED BY <1>7, <2>2, <2>3, <2>4
<1>8. CASE d.op = "bx" /\ ~IsExcReturn(c.gpr[d.rM])
  <2>1. CASE c.gpr[d.rM] % 2 = 0
    BY <1>1, <1>8, <2>1 DEF executeJumpTable, bx, Exits
  <2>2. CASE c.gpr[d.rM] % 2 # 0
    <3>1. /\ executeJumpTable(v, w, d) = Outcome(SetGpr(v, GPR_PC, c.gpr[d.rM]), w, 2, TRUE)
          /\ executeJumpTable(c, m, d) = Outcome(SetGpr(c, GPR_PC, c.gpr[d.rM]), m, 2, TRUE)
      BY <1>1, <1>8, <2>2 DEF executeJumpTable, bx
    <3> QED BY <1>2, <3>1 DEF Outcome, SameEnd
  <2> QED BY <2>1, <2>2
<1> QED BY <1>5, <1>6, <1>7, <1>8

\* A load, a POP or an exception return, with the words it reads the same.
LEMMA LoadAgrees ==
  ASSUME NEW c \in CPU, NEW v \in CPU, View(v) = View(c), NEW d \in DECODE_RESULT,
         NEW m, NEW w, \A a \in Reads(c, d) : w[a] = m[a],
         d.op \in {"ldr_i", "pop"} \/ (d.op = "bx" /\ IsExcReturn(c.gpr[d.rM]))
  PROVE  /\ SameEnd(executeJumpTable(v, w, d), executeJumpTable(c, m, d))
            \/ executeJumpTable(c, m, d).exit # "no"
         /\ executeJumpTable(v, w, d).mem = w /\ executeJumpTable(c, m, d).mem = m
<1>1. v.gpr = c.gpr /\ v.apsr = c.apsr /\ v.mode = c.mode /\ v.stack = c.stack
  BY ViewsAgree
<1>2. CASE d.op = "ldr_i"
  <2> DEFINE a == Target(c, d)
  <2>1. Reads(c, d) = {a}
    BY <1>2 DEF Reads, Returns
  <2>2. CASE a \in MemWords
    <3>1. /\ executeJumpTable(v, w, d) = Outcome(SetGpr(v, d.rD, w[a]), w, 2, FALSE)
          /\ executeJumpTable(c, m, d) = Outcome(SetGpr(c, d.rD, m[a]), m, 2, FALSE)
      BY <1>1, <1>2, <2>2 DEF executeJumpTable, ldr_i, Target
    <3>2. w[a] = m[a]
      BY <2>1
    <3> HIDE DEF a
    <3>3. View(SetGpr(v, d.rD, w[a])) = View(SetGpr(c, d.rD, m[a]))
      BY <3>2, ViewsAgree
    <3> QED BY <3>1, <3>3 DEF Outcome, SameEnd
  <2>3. CASE a \notin MemWords
    BY <1>1, <1>2, <2>3 DEF executeJumpTable, ldr_i, Target, Exits
  <2> QED BY <2>2, <2>3
<1>3. CASE d.op = "pop"
  <2> DEFINE list == Listed(d, GPR_PC)
             sp   == c.gpr[GPR_SP]
             g(n) == [r \in GPR |->
                        CASE r \in list  -> n[Slot(sp, list, r)]
                          [] r = GPR_SP -> Wrap(sp + 4 * Cardinality(list))
                          [] OTHER      -> c.gpr[r]]
             ok   == \A r \in list : Slot(sp, list, r) \in MemWords
  <2>1. Reads(c, d) = {Slot(sp, list, r) : r \in list}
    BY <1>3 DEF Reads, Returns
  <2>2. \A r \in list : w[Slot(sp, list, r)] = m[Slot(sp, list, r)]
    BY <2>1
  <2>3. executeJumpTable(v, w, d) = pop(v, w, d) /\ executeJumpTable(c, m, d) = pop(c, m, d)
    BY <1>3 DEF executeJumpTable
  <2> DEFINE spOf(x)   == x.gpr[GPR_SP]
             gOf(x, n) == [r \in GPR |->
                             CASE r \in list  -> n[Slot(spOf(x), list, r)]
                               [] r = GPR_SP -> Wrap(spOf(x) + 4 * Cardinality(list))
                               [] OTHER      -> x.gpr[r]]
             okOf(x)   == \A r \in list : Slot(spOf(x), list, r) \in MemWords
  <2>p. \A x, n : pop(x, n, d) = IF okOf(x) THEN Outcome([x EXCEPT !.gpr = gOf(x, n)], n, 2, GPR_PC \in list)
                                           ELSE Exits(x, n, "exit1")
    BY Zenon DEF pop, Listed
  <2>q. spOf(v) = sp /\ spOf(c) = sp /\ gOf(v, w) = g(w) /\ gOf(c, m) = g(m)
        /\ (okOf(v) <=> ok) /\ (okOf(c) <=> ok)
    BY <1>1
  <2>4. /\ pop(v, w, d) = IF ok THEN Outcome([v EXCEPT !.gpr = g(w)], w, 2, GPR_PC \in list)
                                ELSE Exits(v, w, "exit1")
        /\ pop(c, m, d) = IF ok THEN Outcome([c EXCEPT !.gpr = g(m)], m, 2, GPR_PC \in list)
                                ELSE Exits(c, m, "exit1")
    <3> HIDE DEF gOf, g, okOf, ok
    <3> QED BY <2>p, <2>q
  <2> HIDE DEF list, sp
  <2>5. g(w) = g(m)
    BY <2>2
  <2> HIDE DEF g
  <2>6. View([v EXCEPT !.gpr = g(w)]) = View([c EXCEPT !.gpr = g(m)])
    BY <1>1, <2>5 DEF View, CPU
  <2> QED BY <2>3, <2>4, <2>6 DEF Outcome, Exits, SameEnd
<1>4. CASE d.op = "bx" /\ IsExcReturn(c.gpr[d.rM])
  <2> DEFINE sp   == c.gpr[GPR_SP]
             p    == c.gpr[d.rM]
             f(n) == [k \in 0 .. 7 |-> n[FrameSlot(sp, k)]]
             g(h) == [r \in GPR |->
                        CASE r \in 0 .. 3 -> h[r]
                          [] r = 12      -> h[4]
                          [] r = GPR_LR  -> h[5]
                          [] r = GPR_PC  -> h[6]
                          [] r = GPR_SP  -> Wrap(sp + 32)
                          [] OTHER       -> c.gpr[r]]
             x(h, mask) == [gpr |-> g(h), apsr |-> h[7] - (h[7] % (WordMod \div 16)),
                            ipsr |-> 0,
                            mode |-> IF p % 16 = HandlerMain THEN "handler" ELSE "thread",
                            stack |-> IF p % 16 = ThreadProcess THEN "process" ELSE "main",
                            exceptmask |-> mask]
             ok == /\ p % 16 \in {HandlerMain, ThreadMain, ThreadProcess}
                   /\ FrameSlots(sp) \subseteq MemWords
  <2>1. Reads(c, d) = FrameSlots(sp)
    BY <1>4 DEF Reads, Returns
  <2>2. f(w) = f(m)
    BY <2>1 DEF FrameSlots
  <2>3. CASE p % 2 = 0
    BY <1>1, <1>4, <2>3 DEF executeJumpTable, bx, Exits
  <2>4. CASE p % 2 # 0
    <3>1. /\ executeJumpTable(v, w, d) = except_exit(v, w, p)
          /\ executeJumpTable(c, m, d) = except_exit(c, m, p)
      BY <1>1, <1>4, <2>4 DEF executeJumpTable, bx
    <3>2. /\ except_exit(v, w, p) = IF ok THEN Outcome(x(f(w), v.exceptmask), w, 2, TRUE)
                                          ELSE Exits(v, w, "exit1")
          /\ except_exit(c, m, p) = IF ok THEN Outcome(x(f(m), c.exceptmask), m, 2, TRUE)
                                          ELSE Exits(c, m, "exit1")
      <4>1. CASE ok
        <5>1. except_exit(v, w, p) = Outcome(x(f(w), v.exceptmask), w, 2, TRUE)
          <6> DEFINE spv  == v.gpr[GPR_SP]
                     fv   == [k \in 0 .. 7 |-> w[FrameSlot(spv, k)]]
                     gv   == [r \in GPR |->
                                CASE r \in 0 .. 3 -> fv[r]
                                  [] r = 12      -> fv[4]
                                  [] r = GPR_LR  -> fv[5]
                                  [] r = GPR_PC  -> fv[6]
                                  [] r = GPR_SP  -> Wrap(spv + 32)
                                  [] OTHER       -> v.gpr[r]]
          <6>1. spv = sp
            BY <1>1
          <6>2. FrameSlots(spv) \subseteq MemWords
            BY <4>1, <6>1
          <6>3. except_exit(v, w, p)
                  = Outcome([gpr |-> gv, apsr |-> fv[7] - (fv[7] % (WordMod \div 16)),
                             ipsr |-> 0,
                             mode |-> IF p % 16 = HandlerMain THEN "handler" ELSE "thread",
                             stack |-> IF p % 16 = ThreadProcess THEN "process" ELSE "main",
                             exceptmask |-> v.exceptmask], w, 2, TRUE)
            BY <4>1, <6>2, Zenon DEF except_exit
          <6>4. fv = f(w)
            BY <6>1
          <6>5. gv = g(f(w))
            BY <1>1, <6>1, <6>4
          <6> HIDE DEF fv, gv, f, g
          <6> QED BY <6>3, <6>4, <6>5
        <5>2. except_exit(c, m, p) = Outcome(x(f(m), c.exceptmask), m, 2, TRUE)
          BY <4>1, Zenon DEF except_exit
        <5> HIDE DEF ok
        <5> QED BY <4>1, <5>1, <5>2
      <4>2. CASE ~ok
        <5>1. except_exit(v, w, p) = Exits(v, w, "exit1")
          BY <1>1, <4>2 DEF except_exit
        <5>2. except_exit(c, m, p) = Exits(c, m, "exit1")
          BY <4>2, Zenon DEF except_exit
        <5> HIDE DEF ok
        <5> QED BY <4>2, <5>1, <5>2
      <4> HIDE DEF ok
      <4> QED BY <4>1, <4>2
    <3>3. View(x(f(w), v.exceptmask)) = View(x(f(m), c.exceptmask))
      <4> HIDE DEF f, g
      <4> QED BY <2>2 DEF View
    <3> HIDE DEF x, ok
    <3> QED BY <3>1, <3>2, <3>3 DEF Outcome, Exits, SameEnd
  <2> QED BY <2>3, <2>4
<1> QED BY <1>2, <1>3, <1>4

\* A store or a PUSH writes the same words into whatever memory it finds.
LEMMA StoreAgrees ==
  ASSUME NEW c \in CPU, NEW v \in CPU, View(v) = View(c), NEW d \in DECODE_RESULT,
         NEW m \in Memory, NEW w \in Memory, d.op \in {"str_i", "push"},
         executeJumpTable(c, m, d).exit = "no", DoResetAddr \notin Writes(c, d)
  PROVE  /\ SameEnd(executeJumpTable(v, w, d), executeJumpTable(c, m, d))
         /\ \A a \in MemWords :
              a \in Writes(c, d) \/ w[a] = m[a] =>
                executeJumpTable(v, w, d).mem[a] = executeJumpTable(c, m, d).mem[a]
<1>1. v.gpr = c.gpr
  BY ViewsAgree
<1>2. CASE d.op = "str_i"
  <2> DEFINE a   == Target(c, d)
             val == c.gpr[d.rD]
  <2>1. Writes(c, d) = {a}
    BY <1>2 DEF Writes
  <2>2. a \in MemWords
    <3>1. executeJumpTable(c, m, d) = str_i(c, m, d)
      BY <1>2 DEF executeJumpTable
    <3>2. CASE a \notin MemWords
      <4>1. str_i(c, m, d) = Exits(c, m, "exit1")
        BY <2>1, <3>2 DEF str_i, Target
      <4> QED BY <3>1, <4>1 DEF Exits
    <3> QED BY <3>2
  <2>3. /\ executeJumpTable(v, w, d) = Outcome(v, [w EXCEPT ![a] = val], 2, FALSE)
        /\ executeJumpTable(c, m, d) = Outcome(c, [m EXCEPT ![a] = val], 2, FALSE)
    BY <1>1, <1>2, <2>2, CpuAssumption DEF executeJumpTable, str_i, Target
  <2> HIDE DEF a, val
  <2> QED BY <2>1, <2>3 DEF Outcome, SameEnd, Memory
<1>3. CASE d.op = "push"
  <2> DEFINE list == Listed(d, GPR_LR)
             sp   == Wrap(c.gpr[GPR_SP] - 4 * Cardinality(list))
             put(n) == [a \in MemWords |->
                          IF \E q \in list : Slot(sp, list, q) = a
                          THEN c.gpr[CHOOSE q \in list : Slot(sp, list, q) = a] ELSE n[a]]
             ok   == \A q \in list : Slot(sp, list, q) \in MemWords
  <2>1. Writes(c, d) = {Slot(sp, list, q) : q \in list}
    BY <1>3 DEF Writes
  <2>2. executeJumpTable(v, w, d) = push(v, w, d) /\ executeJumpTable(c, m, d) = push(c, m, d)
    BY <1>3 DEF executeJumpTable
  <2>3. /\ push(v, w, d) = IF ok THEN Outcome(SetGpr(v, GPR_SP, sp), put(w),
                                              1 + Cardinality(list), FALSE)
                                 ELSE Exits(v, w, "exit1")
        /\ push(c, m, d) = IF ok THEN Outcome(SetGpr(c, GPR_SP, sp), put(m),
                                              1 + Cardinality(list), FALSE)
                                 ELSE Exits(c, m, "exit1")
    BY <1>1 DEF push, Listed
  <2> HIDE DEF list, sp
  <2>4. ok
    <3>1. CASE ~ok
      <4>1. executeJumpTable(c, m, d) = Exits(c, m, "exit1")
        BY <2>2, <2>3, <3>1
      <4> QED BY <4>1 DEF Exits
    <3> QED BY <3>1
  <2> HIDE DEF ok
  <2>5. View(SetGpr(v, GPR_SP, sp)) = View(SetGpr(c, GPR_SP, sp))
    BY ViewsAgree
  <2>6. \A a \in MemWords : a \in Writes(c, d) \/ w[a] = m[a] => put(w)[a] = put(m)[a]
    BY <2>1
  <2> HIDE DEF put
  <2> QED BY <2>2, <2>3, <2>4, <2>5, <2>6 DEF Outcome, SameEnd
<1> QED BY <1>2, <1>3

\* An instruction that returns does the same for every processor with the
\* same view and every memory that agrees where it reads, and the memories
\* it leaves agree wherever they did or it wrote.
LEMMA Agreement ==
  ASSUME NEW c \in CPU, NEW v \in CPU, View(v) = View(c), NEW d \in DECODE_RESULT,
         NEW m \in Memory, NEW w \in Memory, \A a \in Reads(c, d) : w[a] = m[a],
         executeJumpTable(c, m, d).exit = "no", DoResetAddr \notin Writes(c, d)
  PROVE  /\ SameEnd(executeJumpTable(v, w, d), executeJumpTable(c, m, d))
         /\ \A a \in MemWords :
              a \in Writes(c, d) \/ w[a] = m[a] =>
                executeJumpTable(v, w, d).mem[a] = executeJumpTable(c, m, d).mem[a]
<1>1. d.op \in Handlers
  BY DEF DECODE_RESULT
<1>2. CASE d.op \in {"str_i", "push"}
  BY <1>2, StoreAgrees
<1>3. CASE d.op \notin {"str_i", "push", "exit"}
  <2>1. Writes(c, d) = {}
    BY <1>3 DEF Writes
  <2>2. /\ SameEnd(executeJumpTable(v, w, d), executeJumpTable(c, m, d))
        /\ executeJumpTable(v, w, d).mem = w /\ executeJumpTable(c, m, d).mem = m
    <3>1. CASE d.op \in {"movs_i", "adds_i8", "subs_i8", "muls"}
      BY <3>1, ArithmeticAgrees
    <3>2. CASE \/ d.op \in {"b", "b_c", "bl", "blx"}
               \/ (d.op = "bx" /\ ~IsExcReturn(c.gpr[d.rM]))
      BY <3>2, BranchAgrees
    <3>3. CASE \/ d.op \in {"ldr_i", "pop"}
               \/ (d.op = "bx" /\ IsExcReturn(c.gpr[d.rM]))
      BY <3>3, LoadAgrees
    <3> QED BY <1>1, <1>3, <3>1, <3>2, <3>3 DEF Handlers
  <2> QED BY <2>1, <2>2
<1>4. CASE d.op = "exit"
  BY <1>4 DEF executeJumpTable, Exits
<1> QED BY <1>2, <1>3, <1>4

-----------------------------------------------------------------------------
(***************************************************************************)
(* The registers an instruction leaves: the PC and the stack pointer       *)
(***************************************************************************)

\* Arithmetic and loads write a low register.
LEMMA LowOnly ==
  ASSUME NEW c \in CPU, NEW d \in DECODE_RESULT, NEW m \in Memory,
         d.op \in {"movs_i", "adds_i8", "subs_i8", "muls", "ldr_i"}
  PROVE  \A r \in GPR \ (0 .. 7) : executeJumpTable(c, m, d).cpu.gpr[r] = c.gpr[r]
<1>1. /\ d.rD \in 0 .. 7 /\ d.rD \in GPR /\ d.rM \in GPR /\ d.imm \in Int
  BY DEF DECODE_RESULT, GPR
<1>2. c.gpr[d.rD] \in Word /\ c.gpr[d.rM] \in Word /\ WordMod \in Nat /\ Wrap(d.imm) \in Word
  BY <1>1, WrapWord, CpuAssumption DEF CPU
<1>3. \A val : \A r \in GPR \ (0 .. 7) : SetGpr(c, d.rD, val).gpr[r] = c.gpr[r]
  BY <1>1 DEF SetGpr, CPU, GPR
<1>4. \A x \in CPU : \A res : SetNZ(x, res).gpr = x.gpr
  BY DEF SetNZ, CPU
<1>5. \A x \in CPU : \A a, s, carry, res : SetCV(x, a, s, carry, res).gpr = x.gpr
  BY DEF SetCV, CPU
<1>6. \A val \in Word : SetGpr(c, d.rD, val) \in CPU
  BY SetGprType
<1>7. \A val \in Word : SetNZ(SetGpr(c, d.rD, val), val) \in CPU
  BY <1>6, SetNZType
<1>8. CASE d.op = "movs_i"
  <2> DEFINE val == Wrap(d.imm)
  <2>1. executeJumpTable(c, m, d).cpu = SetNZ(SetGpr(c, d.rD, val), val)
    BY <1>8 DEF executeJumpTable, movs_i, Outcome
  <2> QED BY <1>2, <1>3, <1>4, <1>6, <2>1
<1>9. CASE d.op = "adds_i8"
  <2> DEFINE a   == c.gpr[d.rD]
             val == Wrap(a + Wrap(d.imm))
  <2>1. executeJumpTable(c, m, d).cpu
          = SetCV(SetNZ(SetGpr(c, d.rD, val), val), a, Wrap(d.imm), 0, val)
    BY <1>9 DEF executeJumpTable, adds_i8, Outcome
  <2>2. val \in Word
    BY <1>2, WrapWord DEF Word
  <2> HIDE DEF val
  <2> QED BY <1>3, <1>4, <1>5, <1>6, <1>7, <2>1, <2>2
<1>10. CASE d.op = "subs_i8"
  <2> DEFINE a   == c.gpr[d.rD]
             sub == WordMod - 1 - Wrap(d.imm)
             val == Wrap(a + sub + 1)
  <2>1. executeJumpTable(c, m, d).cpu
          = SetCV(SetNZ(SetGpr(c, d.rD, val), val), a, sub, 1, val)
    BY <1>10 DEF executeJumpTable, subs_i8, Outcome
  <2>2. val \in Word
    <3>1. sub \in Int /\ a \in Int
      BY <1>2 DEF Word
    <3> QED BY <3>1, WrapWord
  <2> HIDE DEF val, sub
  <2> QED BY <1>3, <1>4, <1>5, <1>6, <1>7, <2>1, <2>2
<1>11. CASE d.op = "muls"
  <2> DEFINE val == Wrap(c.gpr[d.rD] * c.gpr[d.rM])
  <2>1. executeJumpTable(c, m, d).cpu = SetNZ(SetGpr(c, d.rD, val), val)
    BY <1>11 DEF executeJumpTable, muls, Outcome
  <2>2. c.gpr[d.rD] * c.gpr[d.rM] \in Int
    BY <1>2 DEF Word
  <2>3. val \in Word
    BY <2>2, WrapWord
  <2> HIDE DEF val
  <2> QED BY <1>3, <1>4, <1>6, <2>1, <2>3
<1>12. CASE d.op = "ldr_i"
  <2>1. \/ executeJumpTable(c, m, d).cpu = SetGpr(c, d.rD, m[Target(c, d)])
        \/ executeJumpTable(c, m, d).cpu = c
    BY <1>12 DEF executeJumpTable, ldr_i, Target, Outcome, Exits
  <2> QED BY <1>3, <2>1
<1> QED BY <1>8, <1>9, <1>10, <1>11, <1>12

\* The slots of a register list are consecutive: its registers have the
\* ranks from 0 up to their number.
LEMMA Ranks ==
  ASSUME NEW list \in SUBSET GPR, IsFiniteSet(list),
         NEW j \in 0 .. Cardinality(list) - 1
  PROVE  \E r \in list : Cardinality({q \in list : q < r}) = j
<1> DEFINE below(r) == {q \in list : q < r}
           n        == Cardinality(list)
           f        == [r \in list |-> Cardinality(below(r))]
<1>1. \A r \in list : r \in Int
  BY DEF GPR
<1>2. n \in Nat
  BY FS_CardinalityType
<1>3. \A r \in list : /\ IsFiniteSet(below(r)) /\ Cardinality(below(r)) \in 0 .. n - 1
  <2> TAKE r \in list
  <2>1. below(r) \in SUBSET list /\ r \notin below(r)
    BY <1>1
  <2> HIDE DEF below
  <2>2. /\ IsFiniteSet(below(r)) /\ Cardinality(below(r)) <= Cardinality(list)
        /\ Cardinality(list) = Cardinality(below(r)) => list = below(r)
    BY ONLY <2>1, IsFiniteSet(list), FS_Subset, Zenon
  <2>3. Cardinality(below(r)) \in Nat
    BY <2>2, FS_CardinalityType
  <2>4. Cardinality(list) # Cardinality(below(r))
    BY <2>1, <2>2
  <2> QED BY <1>2, <2>2, <2>3, <2>4
<1>4. ASSUME NEW p \in list, NEW r \in list, p < r
      PROVE  Cardinality(below(p)) # Cardinality(below(r))
  <2>1. \A q \in list : q < p => q < r
    BY <1>1, <1>4
  <2>2. ~(p < p)
    BY <1>1
  <2>3. below(p) \in SUBSET below(r) /\ p \in below(r) /\ p \notin below(p)
    BY <1>4, <2>1, <2>2, Zenon
  <2>4. IsFiniteSet(below(r))
    BY <1>3
  <2> HIDE DEF below
  <2>5. Cardinality(below(r)) = Cardinality(below(p)) => below(r) = below(p)
    BY ONLY <2>3, <2>4, FS_Subset, Zenon
  <2> QED BY <2>3, <2>5
<1> HIDE DEF below
<1>5. f \in Injection(list, 0 .. n - 1)
  <2>1. f \in [list -> 0 .. n - 1]
    BY <1>3
  <2>2. ASSUME NEW p \in list, NEW r \in list, f[p] = f[r] PROVE p = r
    <3>1. Cardinality(below(p)) = Cardinality(below(r))
      BY <2>2
    <3>2. ~(p < r) /\ ~(r < p)
      BY <1>4, <3>1
    <3> QED BY <1>1, <3>2
  <2>3. \A p \in list, r \in list : f[p] = f[r] => p = r
    BY <2>2
  <2> HIDE DEF f
  <2> QED BY <2>1, <2>3 DEF Injection, IsInjective
<1>6. IsFiniteSet(0 .. n - 1) /\ Cardinality(0 .. n - 1) = n
  <2>1. 0 \in Int /\ n - 1 \in Int
    BY <1>2
  <2> HIDE DEF n
  <2>2. /\ IsFiniteSet(0 .. n - 1)
        /\ Cardinality(0 .. n - 1) = (IF 0 > n - 1 THEN 0 ELSE (n - 1) - 0 + 1)
    BY ONLY <2>1, FS_Interval, Zenon
  <2> QED BY <1>2, <2>2
<1>7. f \in Surjection(list, 0 .. n - 1)
  <2> DEFINE T == 0 .. n - 1
  <2>1. f \in Injection(list, T) /\ IsFiniteSet(T) /\ Cardinality(list) = Cardinality(T)
    BY <1>5, <1>6
  <2> HIDE DEF f, T
  <2>2. f \in Surjection(list, T)
    BY ONLY <2>1, FS_Injection
  <2> QED BY <2>2 DEF T
<1>8. \E r \in list : f[r] = j
  BY <1>7, Zenon DEF Surjection, n
<1> QED BY <1>8 DEF below

\* PUSH writes every word by which it moves the stack pointer down.
LEMMA PushFills ==
  ASSUME NEW c \in CPU, OnStack(c), NEW d \in DECODE_RESULT, d.op = "push",
         NEW a \in StackWords, a < c.gpr[GPR_SP],
         a >= Wrap(c.gpr[GPR_SP] - 4 * Cardinality(Listed(d, GPR_LR)))
  PROVE  a \in Writes(c, d)
<1> DEFINE list == Listed(d, GPR_LR)
           n    == Cardinality(list)
           old  == c.gpr[GPR_SP]
           sp   == Wrap(old - 4 * n)
<1>1. Writes(c, d) = {Slot(sp, list, r) : r \in list}
  BY DEF Writes
<1>2. list \in SUBSET GPR /\ IsFiniteSet(list) /\ n \in 0 .. 9
  <2>1. list \subseteq (0 .. 7) \cup {GPR_LR} /\ GPR_LR \in GPR
    BY DEF Listed, GPR, GPR_LR
  <2>2. list \subseteq GPR
    BY DEF Listed, DECODE_RESULT
  <2> HIDE DEF list
  <2> QED BY <2>1, <2>2, ListSize
<1>3. old \in Word /\ old % 4 = 0 /\ 64 < old
  BY StackPointer
<1>4. a \in Int /\ a % 4 = 0 /\ a < WordMod
  <2>1. a \in Int /\ a % 4 = 0 /\ 64 < a /\ a + 40 < WordMod
    BY StackWord
  <2> QED BY <2>1, CpuAssumption
<1>5. old \in Int /\ old < WordMod /\ WordMod \in Nat
  BY <1>3, CpuAssumption DEF Word
<1> HIDE DEF list
<1>6. sp = old - 4 * n /\ a >= sp /\ a < old
  <2>1. Wrap(old - 4 * n) = old - 4 * n
    <3> HIDE DEF n, old
    <3>1. n \in 0 .. 9 /\ 64 < old
      BY <1>2, <1>3
    <3> DEFINE x == old - 4 * n
    <3>2. x \in Int /\ 0 <= x /\ x < WordMod
      BY <3>1, <1>5
    <3>3. WordMod \in Nat
      BY <1>5
    <3> HIDE DEF x
    <3>4. Wrap(x) = x
      BY <3>2, <3>3, WrapCases
    <3> QED BY <3>4 DEF x
  <2> QED BY <2>1 DEF list
<1> DEFINE j == (a - sp) \div 4
<1> HIDE DEF n, old, sp
<1>7. j \in 0 .. n - 1 /\ a = sp + 4 * j
  BY <1>2, <1>3, <1>4, <1>5, <1>6
<1> HIDE DEF j
<1>8. PICK r \in list : Cardinality({q \in list : q < r}) = j
  BY <1>2, <1>7, Ranks DEF n
<1>9. sp + 4 * j \in Int /\ Wrap(sp + 4 * j) = sp + 4 * j
  <2>1. a >= 0
    BY <1>2, <1>3, <1>4, <1>5, <1>6
  <2>2. Wrap(a) = a
    BY <1>4, <1>5, <2>1, WrapCases
  <2> QED BY <1>4, <1>7, <2>2
<1>10. Slot(sp, list, r) = a
  BY <1>4, <1>7, <1>8, <1>9 DEF Slot, WordAddr
<1> QED BY <1>1, <1>8, <1>10

\* An instruction leaves the PC alone unless it says it took a branch, and
\* has written every word that becomes part of the stack.
LEMMA Lands ==
  ASSUME NEW c \in CPU, OnStack(c), NEW d \in DECODE_RESULT, NEW m \in Memory,
         executeJumpTable(c, m, d).exit = "no"
  PROVE  /\ ~executeJumpTable(c, m, d).taken =>
              executeJumpTable(c, m, d).cpu.gpr[GPR_PC] = c.gpr[GPR_PC]
         /\ \A a \in StackWords :
              a < c.gpr[GPR_SP] /\ a >= executeJumpTable(c, m, d).cpu.gpr[GPR_SP]
                => a \in Writes(c, d)
<1> DEFINE r == executeJumpTable(c, m, d)
           old == c.gpr[GPR_SP]
<1>1. d.op \in Handlers
  BY DEF DECODE_RESULT
<1>2. /\ old \in Word /\ old + 36 < WordMod /\ WordMod \in Nat
      /\ GPR_PC \in GPR \ (0 .. 7) /\ GPR_SP \in GPR \ (0 .. 7)
  BY StackPointer, CpuAssumption DEF GPR, GPR_PC, GPR_SP
<1>3. old \in Int /\ old >= 0 /\ \A a \in StackWords : a \in Int
  BY <1>2, StackWord DEF Word
<1>4. \A x : r # Exits(c, m, x) \/ x = "no"
  <2> HIDE DEF r
  <2>1. r.exit = "no"
    BY DEF r
  <2> QED BY <2>1 DEF Exits
<1>5. ASSUME r.cpu.gpr[GPR_SP] \in Int, r.cpu.gpr[GPR_SP] >= old, NEW a \in StackWords
      PROVE  ~(a < old /\ a >= r.cpu.gpr[GPR_SP])
  <2> HIDE DEF r, old
  <2> QED BY <1>3, <1>5
<1>6. CASE d.op \in {"movs_i", "adds_i8", "subs_i8", "muls", "ldr_i"}
  <2>1. r.cpu.gpr[GPR_PC] = c.gpr[GPR_PC] /\ r.cpu.gpr[GPR_SP] = old
    BY <1>2, <1>6, LowOnly
  <2> QED BY <1>3, <1>5, <2>1
<1>7. CASE d.op = "str_i"
  <2>1. r = str_i(c, m, d)
    BY <1>7 DEF executeJumpTable
  <2>2. r.cpu = c
    <3>1. CASE Target(c, d) \in MemWords
      BY <2>1, <3>1, CpuAssumption DEF str_i, Target, Outcome
    <3>2. CASE Target(c, d) \notin MemWords
      BY <2>1, <3>2 DEF str_i, Target, Outcome, Exits
    <3> QED BY <3>1, <3>2
  <2> QED BY <1>3, <1>5, <2>2
<1>8. CASE d.op = "push"
  <2> DEFINE sp == Wrap(old - 4 * Cardinality(Listed(d, GPR_LR)))
  <2>1. r.cpu = SetGpr(c, GPR_SP, sp) \/ r.cpu = c
    BY <1>8 DEF executeJumpTable, push, Listed, Outcome, Exits
  <2>2. \A x : /\ SetGpr(c, GPR_SP, x).gpr[GPR_PC] = c.gpr[GPR_PC]
               /\ SetGpr(c, GPR_SP, x).gpr[GPR_SP] = x
    BY DEF SetGpr, CPU, GPR, GPR_PC, GPR_SP
  <2>3. ASSUME NEW a \in StackWords, a < old, a >= r.cpu.gpr[GPR_SP]
        PROVE  a \in Writes(c, d)
    <3>1. CASE r.cpu.gpr[GPR_SP] = sp
      BY <1>8, <2>3, <3>1, PushFills
    <3>2. CASE r.cpu = c
      BY <1>3, <2>3, <3>2
    <3> QED BY <2>1, <2>2, <3>1, <3>2
  <2> QED BY <2>1, <2>2, <2>3
<1>9. CASE d.op = "pop"
  <2> DEFINE list == Listed(d, GPR_PC)
             n    == Cardinality(list)
             g    == [q \in GPR |->
                        CASE q \in list  -> m[Slot(old, list, q)]
                          [] q = GPR_SP -> Wrap(old + 4 * n)
                          [] OTHER      -> c.gpr[q]]
  <2>1. r.cpu = [c EXCEPT !.gpr = g] /\ r.taken = (GPR_PC \in list)
    <3>1. r = pop(c, m, d)
      BY <1>9 DEF executeJumpTable
    <3> DEFINE ok == \A q \in list : Slot(old, list, q) \in MemWords
    <3>2. pop(c, m, d) = IF ok THEN Outcome([c EXCEPT !.gpr = g], m, 2, GPR_PC \in list)
                               ELSE Exits(c, m, "exit1")
      BY Zenon DEF pop, Listed
    <3> HIDE DEF r, g, ok, list
    <3>3. r = Outcome([c EXCEPT !.gpr = g], m, 2, GPR_PC \in list)
      BY <1>4, <3>1, <3>2
    <3> QED BY <3>3 DEF Outcome
  <2>2. n \in 0 .. 9 /\ GPR_SP \notin list
    <3>1. list \subseteq (0 .. 7) \cup {GPR_PC}
      BY DEF Listed
    <3> QED BY <3>1, ListSize DEF GPR, GPR_PC, GPR_SP
  <2> HIDE DEF list, n, r
  <2>3. /\ r.cpu.gpr[GPR_SP] = Wrap(old + 4 * n)
        /\ GPR_PC \notin list => r.cpu.gpr[GPR_PC] = c.gpr[GPR_PC]
    BY <2>1, <2>2 DEF CPU, GPR, GPR_PC, GPR_SP
  <2>4. Wrap(old + 4 * n) = old + 4 * n
    <3> HIDE DEF old
    <3> QED BY <1>2, <1>3, <2>2, WrapCases
  <2>5. r.cpu.gpr[GPR_SP] \in Int /\ r.cpu.gpr[GPR_SP] >= old
    BY <1>3, <2>2, <2>3, <2>4
  <2> QED BY <1>5, <2>1, <2>3, <2>5 DEF r
<1>10. CASE d.op \in {"b", "b_c", "bl", "blx"}
  <2>1. \A x : SetGpr(c, GPR_PC, x).gpr[GPR_SP] = old
    BY DEF SetGpr, CPU, GPR, GPR_PC, GPR_SP
  <2>2. \A x, y : [c EXCEPT !.gpr[GPR_LR] = x, !.gpr[GPR_PC] = y].gpr[GPR_SP] = old
    BY DEF CPU, GPR, GPR_LR, GPR_PC, GPR_SP
  <2>3. r.cpu.gpr[GPR_SP] = old /\ (~r.taken => r.cpu = c)
    <3>1. b(c, m, d) = Outcome(SetGpr(c, GPR_PC, Wrap(c.gpr[GPR_PC] + d.imm)), m, 2, TRUE)
      BY DEF b
    <3>2. CASE d.op = "b"
      BY <2>1, <3>1, <3>2 DEF executeJumpTable, Outcome
    <3>3. CASE d.op = "b_c"
      <4>1. r = b_c(c, m, d)
        BY <3>3 DEF executeJumpTable
      <4> HIDE DEF r
      <4>2. r \in {Exits(c, m, "exit1"), b(c, m, d), Outcome(c, m, 1, FALSE)}
        BY <4>1 DEF b_c
      <4> QED BY <1>4, <2>1, <3>1, <4>2 DEF Outcome
    <3>4. CASE d.op = "bl"
      BY <2>2, <3>4 DEF executeJumpTable, bl, Outcome
    <3>5. CASE d.op = "blx"
      <4>1. r = blx(c, m, d)
        BY <3>5 DEF executeJumpTable
      <4> HIDE DEF r
      <4>2. \/ r = Exits(c, m, "exit1")
            \/ r = Outcome([c EXCEPT !.gpr[GPR_LR] = Wrap(c.gpr[GPR_PC] - 2),
                                     !.gpr[GPR_PC] = c.gpr[d.rM]], m, 2, TRUE)
        BY <4>1 DEF blx
      <4>3. /\ r.cpu = [c EXCEPT !.gpr[GPR_LR] = Wrap(c.gpr[GPR_PC] - 2),
                                 !.gpr[GPR_PC] = c.gpr[d.rM]]
            /\ r.taken
        BY <1>4, <4>2 DEF Outcome
      <4> QED BY <2>2, <4>3
    <3> QED BY <1>10, <3>2, <3>3, <3>4, <3>5
  <2> QED BY <1>3, <1>5, <2>3
<1>11. CASE d.op = "bx"
  <2>1. r.cpu.gpr[GPR_SP] \in {old, Wrap(old + 32)} /\ r.taken
    <3>1. r = bx(c, m, d)
      BY <1>11 DEF executeJumpTable
    <3>2. CASE c.gpr[d.rM] % 2 = 0
      <4>1. r = Exits(c, m, "exit1")
        BY <3>1, <3>2 DEF bx
      <4> QED BY <1>4, <4>1
    <3>3. CASE c.gpr[d.rM] % 2 # 0 /\ ~IsExcReturn(c.gpr[d.rM])
      <4>1. r = Outcome(SetGpr(c, GPR_PC, c.gpr[d.rM]), m, 2, TRUE)
        BY <3>1, <3>3 DEF bx
      <4> HIDE DEF r
      <4> QED BY <4>1 DEF Outcome, SetGpr, CPU, GPR, GPR_PC, GPR_SP
    <3>4. CASE c.gpr[d.rM] % 2 # 0 /\ IsExcReturn(c.gpr[d.rM])
      <4> DEFINE p == c.gpr[d.rM]
                 f == [k \in 0 .. 7 |-> m[FrameSlot(old, k)]]
                 g == [q \in GPR |->
                         CASE q \in 0 .. 3 -> f[q]
                           [] q = 12      -> f[4]
                           [] q = GPR_LR  -> f[5]
                           [] q = GPR_PC  -> f[6]
                           [] q = GPR_SP  -> Wrap(old + 32)
                           [] OTHER       -> c.gpr[q]]
                 e == [gpr |-> g, apsr |-> f[7] - (f[7] % (WordMod \div 16)), ipsr |-> 0,
                       mode |-> IF p % 16 = HandlerMain THEN "handler" ELSE "thread",
                       stack |-> IF p % 16 = ThreadProcess THEN "process" ELSE "main",
                       exceptmask |-> c.exceptmask]
                 ok == /\ p % 16 \in {HandlerMain, ThreadMain, ThreadProcess}
                       /\ FrameSlots(old) \subseteq MemWords
      <4>1. r = except_exit(c, m, p)
        BY <3>1, <3>4 DEF bx
      <4>2. except_exit(c, m, p) = IF ok THEN Outcome(e, m, 2, TRUE) ELSE Exits(c, m, "exit1")
        BY Zenon DEF except_exit
      <4>3. g[GPR_SP] = Wrap(old + 32)
        BY DEF GPR, GPR_SP, GPR_LR, GPR_PC
      <4> HIDE DEF g, f, ok, r
      <4>4. r = Outcome(e, m, 2, TRUE)
        BY <1>4, <4>1, <4>2
      <4> QED BY <4>3, <4>4 DEF Outcome
    <3> QED BY <3>2, <3>3, <3>4
  <2>2. Wrap(old + 32) = old + 32
    <3> HIDE DEF old
    <3> QED BY <1>2, <1>3, WrapCases
  <2>3. r.cpu.gpr[GPR_SP] \in Int /\ r.cpu.gpr[GPR_SP] >= old
    <3> HIDE DEF old, r
    <3> QED BY <1>3, <2>1, <2>2
  <2> QED BY <1>5, <2>1, <2>3
<1>12. CASE d.op = "exit"
  BY <1>12 DEF executeJumpTable, Exits
<1> QED BY <1>1, <1>6, <1>7, <1>8, <1>9, <1>10, <1>11, <1>12 DEF Handlers

-----------------------------------------------------------------------------
(***************************************************************************)
(* The flags and the mode of a context that an exception can save          *)
(***************************************************************************)

\* Only the four flags are set in apsr, and a handler runs on the main stack:
\* what a frame and an EXC_RETURN value can carry.
Clean(c) == c.apsr % (WordMod \div 16) = 0 /\ (c.mode = "handler" => c.stack = "main")

\* The multiples of a positive number.
LEMMA Multiples ==
  ASSUME NEW q \in Nat \ {0}
  PROVE  /\ \A k \in Int : (k * q) % q = 0
         /\ \A x \in Int : x % q = 0 => \E k \in Int : x = k * q
<1>1. \A k \in Int : (q * k + 0) % q = 0
  OBVIOUS
<1>2. \A k \in Int : k * q = q * k + 0
  OBVIOUS
<1>3. \A x \in Int : x = q * (x \div q) + (x % q) /\ x \div q \in Int
  OBVIOUS
<1> QED BY <1>1, <1>2, <1>3

\* A number stays a multiple of a fourth of the base it is reduced by.
LEMMA Reduced ==
  ASSUME NEW q \in Nat \ {0}, NEW x \in Int, x % q = 0
  PROVE  (x % (4 * q)) % q = 0 /\ x % (4 * q) \in Int
<1>1. PICK k \in Int : x = k * q
  BY Multiples
<1>2. 4 * q \in Nat \ {0}
  OBVIOUS
<1> DEFINE t == x \div (4 * q)
<1>3. x = (4 * q) * t + (x % (4 * q)) /\ t \in Int /\ x % (4 * q) \in Int
  BY <1>2
<1> HIDE DEF t
<1>4. x % (4 * q) = (k - 4 * t) * q /\ k - 4 * t \in Int
  <2> DEFINE y == x % (4 * q)
  <2>1. y = k * q - (4 * q) * t
    BY <1>1, <1>3
  <2>2. k * q - (4 * q) * t = (k - 4 * t) * q
    BY <1>1, <1>3
  <2> HIDE DEF y
  <2> QED BY <1>1, <1>3, <2>1, <2>2 DEF y
<1>5. ((k - 4 * t) * q) % q = 0
  <2> DEFINE i == k - 4 * t
  <2>1. i \in Int
    BY <1>4
  <2> HIDE DEF i
  <2>2. (i * q) % q = 0
    BY <2>1, Multiples
  <2> QED BY <2>2 DEF i
<1> DEFINE y == x % (4 * q)
<1>6. y = (k - 4 * t) * q /\ y \in Int
  BY <1>3, <1>4
<1> HIDE DEF y
<1>7. y % q = 0
  BY <1>5, <1>6
<1> QED BY <1>6, <1>7 DEF y

\* The flag updates keep the other bits of apsr clear.
LEMMA FlagsClean ==
  ASSUME NEW c \in CPU, Clean(c)
  PROVE  /\ \A res : Clean(SetNZ(c, res))
         /\ \A a, s, carry, res : Clean(SetCV(c, a, s, carry, res))
<1>1. PICK q \in Nat \ {0} : /\ WordMod = 16 * q /\ WordMod \div 2 = 8 * q
                             /\ WordMod \div 4 = 4 * q /\ WordMod \div 8 = 2 * q
                             /\ WordMod \div 16 = q
  BY Quarters
<1> DEFINE f == c.apsr
<1>2. f \in Int /\ f % q = 0
  BY <1>1 DEF CPU, Clean, Word
<1> HIDE DEF f
<1>3. (f % (4 * q)) % q = 0 /\ f % (4 * q) \in Int
  BY <1>2, Reduced
<1>4. PICK k \in Int : f = k * q
  BY <1>2, Multiples
<1>5. PICK j \in Int : f % (4 * q) = j * q
  BY <1>3, Multiples
<1>6. ASSUME NEW res PROVE Clean(SetNZ(c, res))
  <2> DEFINE bn == Bit(res >= WordMod \div 2, WordMod \div 2)
             bz == Bit(res = 0, WordMod \div 4)
  <2>1. bn \in {0, 8 * q} /\ bz \in {0, 4 * q}
    BY <1>1 DEF Bit
  <2>2. SetNZ(c, res) = [c EXCEPT !.apsr = bn + bz + (f % (4 * q))]
    BY <1>1 DEF SetNZ, CPU, f
  <2> HIDE DEF bn, bz
  <2>3. PICK i \in {0, 4, 8, 12} : bn + bz = i * q
    <3>1. bn + bz \in {0 * q, 4 * q, 8 * q, 12 * q}
      BY <2>1
    <3> QED BY <3>1
  <2>4. bn + bz + (f % (4 * q)) = (i + j) * q /\ i + j \in Int
    BY <1>5, <2>1, <2>3
  <2>5. (bn + bz + (f % (4 * q))) % q = 0
    BY <2>4, Multiples
  <2> QED BY <1>1, <2>2, <2>5 DEF Clean, CPU
<1>7. ASSUME NEW a, NEW s, NEW carry, NEW res PROVE Clean(SetCV(c, a, s, carry, res))
  <2> DEFINE neg(x) == x >= WordMod \div 2
             bc == Bit(a + s + carry >= WordMod, WordMod \div 8)
             bv == Bit(neg(a) = neg(s) /\ neg(res) # neg(a), WordMod \div 16)
             new == (f - (f % (4 * q))) + bc + bv + (f % q)
  <2>1. bc \in {0, 2 * q} /\ bv \in {0, q}
    BY <1>1 DEF Bit
  <2>2. SetCV(c, a, s, carry, res) = [c EXCEPT !.apsr = new]
    BY <1>1 DEF SetCV, CPU, f
  <2> HIDE DEF bc, bv
  <2>3. PICK i \in {0, 1, 2, 3} : bc + bv = i * q
    <3>1. bc + bv \in {0 * q, 1 * q, 2 * q, 3 * q}
      BY <2>1
    <3> QED BY <3>1
  <2>4. new = (k - j + i) * q /\ k - j + i \in Int
    <3>1. f % q = 0 /\ bc \in Int /\ bv \in Int
      BY <1>2, <2>1
    <3>2. new = (k * q - j * q) + i * q
      BY <1>3, <1>4, <1>5, <2>3, <3>1
    <3>3. (k * q - j * q) + i * q = (k - j + i) * q
      OBVIOUS
    <3> QED BY <3>2, <3>3
  <2> HIDE DEF new
  <2>5. new % q = 0
    BY <2>4, Multiples
  <2> QED BY <1>1, <2>2, <2>5 DEF Clean, CPU
<1> QED BY <1>6, <1>7

\* Whatever an instruction leaves can be saved again.
LEMMA StaysClean ==
  ASSUME NEW c \in CPU, Clean(c), NEW d \in DECODE_RESULT, NEW m \in Memory,
         executeJumpTable(c, m, d).exit = "no"
  PROVE  Clean(executeJumpTable(c, m, d).cpu)
<1> DEFINE r == executeJumpTable(c, m, d)
<1>1. d.op \in Handlers /\ d.rD \in GPR /\ d.rM \in GPR /\ d.imm \in Int
  BY DEF DECODE_RESULT, GPR
<1>2. c.gpr[d.rD] \in Word /\ c.gpr[d.rM] \in Word /\ WordMod \in Nat /\ Wrap(d.imm) \in Word
  BY <1>1, WrapWord, CpuAssumption DEF CPU
<1>3. \A x \in CPU : x.apsr = c.apsr /\ x.mode = c.mode /\ x.stack = c.stack => Clean(x)
  BY DEF Clean
<1>4. \A val \in Word : SetGpr(c, d.rD, val) \in CPU /\ Clean(SetGpr(c, d.rD, val))
  <2> TAKE val \in Word
  <2>1. /\ SetGpr(c, d.rD, val).apsr = c.apsr /\ SetGpr(c, d.rD, val).mode = c.mode
        /\ SetGpr(c, d.rD, val).stack = c.stack
    BY DEF SetGpr, CPU
  <2> QED BY <1>3, <2>1, SetGprType
<1>5. \A val \in Word : LET x == SetNZ(SetGpr(c, d.rD, val), val) IN x \in CPU /\ Clean(x)
  BY <1>4, SetNZType, FlagsClean
<1>6. CASE d.op = "movs_i"
  <2>1. r.cpu = SetNZ(SetGpr(c, d.rD, Wrap(d.imm)), Wrap(d.imm))
    BY <1>6 DEF executeJumpTable, movs_i, Outcome
  <2> QED BY <1>2, <1>5, <2>1
<1>7. CASE d.op = "adds_i8"
  <2> DEFINE a   == c.gpr[d.rD]
             val == Wrap(a + Wrap(d.imm))
  <2>1. r.cpu = SetCV(SetNZ(SetGpr(c, d.rD, val), val), a, Wrap(d.imm), 0, val)
    BY <1>7 DEF executeJumpTable, adds_i8, Outcome
  <2>2. val \in Word
    BY <1>2, WrapWord DEF Word
  <2> HIDE DEF val
  <2> QED BY <1>5, <2>1, <2>2, FlagsClean
<1>8. CASE d.op = "subs_i8"
  <2> DEFINE a   == c.gpr[d.rD]
             sub == WordMod - 1 - Wrap(d.imm)
             val == Wrap(a + sub + 1)
  <2>1. r.cpu = SetCV(SetNZ(SetGpr(c, d.rD, val), val), a, sub, 1, val)
    BY <1>8 DEF executeJumpTable, subs_i8, Outcome
  <2>2. val \in Word
    <3>1. sub \in Int /\ a \in Int
      BY <1>2 DEF Word
    <3> QED BY <3>1, WrapWord
  <2> HIDE DEF val, sub
  <2> QED BY <1>5, <2>1, <2>2, FlagsClean
<1>9. CASE d.op = "muls"
  <2> DEFINE val == Wrap(c.gpr[d.rD] * c.gpr[d.rM])
  <2>1. r.cpu = SetNZ(SetGpr(c, d.rD, val), val)
    BY <1>9 DEF executeJumpTable, muls, Outcome
  <2>2. c.gpr[d.rD] * c.gpr[d.rM] \in Int
    BY <1>2 DEF Word
  <2>3. val \in Word
    BY <2>2, WrapWord
  <2> HIDE DEF val
  <2> QED BY <1>5, <2>1, <2>3
<1>10. CASE d.op = "bx" /\ IsExcReturn(c.gpr[d.rM])
  <2> DEFINE p == c.gpr[d.rM]
             z == m[FrameSlot(c.gpr[GPR_SP], 7)]
  <2>1. r = bx(c, m, d)
    BY <1>10 DEF executeJumpTable
  <2>2. /\ r.cpu.apsr = z - (z % (WordMod \div 16))
        /\ r.cpu.mode = (IF p % 16 = HandlerMain THEN "handler" ELSE "thread")
        /\ r.cpu.stack = (IF p % 16 = ThreadProcess THEN "process" ELSE "main")
        /\ FrameSlots(c.gpr[GPR_SP]) \subseteq MemWords
    <3>1. CASE p % 2 = 0
      <4>1. r = Exits(c, m, "exit1")
        BY <2>1, <3>1 DEF bx
      <4> HIDE DEF r
      <4>2. r.exit = "exit1"
        BY <4>1 DEF Exits
      <4> QED BY <4>2 DEF r
    <3>2. CASE p % 2 # 0
      <4>1. r = except_exit(c, m, p)
        BY <1>10, <2>1, <3>2 DEF bx
      <4>2. r.exit = "no"
        OBVIOUS
      <4> HIDE DEF r, p
      <4> QED BY <4>1, <4>2 DEF except_exit, Outcome, Exits
    <3> QED BY <3>1, <3>2
  <2>3. z \in Int
    BY <2>2 DEF FrameSlots, Memory, Word
  <2>4. WordMod \div 16 \in Nat \ {0}
    BY Quarters
  <2>5. (z - (z % (WordMod \div 16))) % (WordMod \div 16) = 0
    <3> DEFINE q == WordMod \div 16
               t == z \div q
    <3> HIDE DEF z, q
    <3>1. z = q * t + (z % q) /\ t \in Int /\ z % q \in Int
      BY <2>3, <2>4 DEF q
    <3> HIDE DEF t
    <3>2. z - (z % q) = t * q
      BY <2>3, <2>4, <3>1 DEF q
    <3>3. (t * q) % q = 0
      BY <2>4, <3>1, Multiples DEF q
    <3> QED BY <3>2, <3>3 DEF q
  <2> HIDE DEF r, z, p
  <2>6. r.cpu.apsr % (WordMod \div 16) = 0
    BY <2>2, <2>5
  <2>7. r.cpu.mode = "handler" => r.cpu.stack = "main"
    BY <2>2 DEF HandlerMain, ThreadProcess
  <2> QED BY <2>6, <2>7 DEF Clean, r
<1>11. CASE \/ d.op \in {"ldr_i", "str_i", "push", "pop", "b", "b_c", "bl", "blx"}
            \/ (d.op = "bx" /\ ~IsExcReturn(c.gpr[d.rM]))
  <2>1. r.cpu.apsr = c.apsr /\ r.cpu.mode = c.mode /\ r.cpu.stack = c.stack
    <3>1. \A x, y : /\ SetGpr(c, x, y).apsr = c.apsr /\ SetGpr(c, x, y).mode = c.mode
                    /\ SetGpr(c, x, y).stack = c.stack
      BY DEF SetGpr, CPU
    <3>2. CASE d.op = "ldr_i"
      BY <3>1, <3>2 DEF executeJumpTable, ldr_i, Outcome, Exits
    <3>3. CASE d.op = "str_i"
      <4>1. r = str_i(c, m, d)
        BY <3>3 DEF executeJumpTable
      <4>2. r.cpu = c
        <5>1. CASE Target(c, d) \in MemWords
          BY <4>1, <5>1, CpuAssumption DEF str_i, Target, Outcome
        <5>2. CASE Target(c, d) \notin MemWords
          BY <4>1, <5>2 DEF str_i, Target, Outcome, Exits
        <5> QED BY <5>1, <5>2
      <4> QED BY <4>2
    <3>4. CASE d.op = "push"
      <4>1. \E x : r.cpu = SetGpr(c, GPR_SP, x) \/ r.cpu = c
        BY <3>4 DEF executeJumpTable, push, Outcome, Exits
      <4> QED BY <3>1, <4>1
    <3>5. CASE d.op = "pop"
      <4>1. \E g : r.cpu = [c EXCEPT !.gpr = g] \/ r.cpu = c
        BY <3>5 DEF executeJumpTable, pop, Outcome, Exits
      <4> QED BY <4>1 DEF CPU
    <3>6. CASE d.op \in {"b", "b_c"}
      BY <3>1, <3>6 DEF executeJumpTable, b, b_c, Outcome, Exits
    <3>7. CASE d.op \in {"bl", "blx"}
      <4>1. \A x, y : LET z == [c EXCEPT !.gpr[GPR_LR] = x, !.gpr[GPR_PC] = y]
                      IN z.apsr = c.apsr /\ z.mode = c.mode /\ z.stack = c.stack
        BY DEF CPU
      <4> QED BY <3>7, <4>1 DEF executeJumpTable, bl, blx, Outcome, Exits
    <3>8. CASE d.op = "bx" /\ ~IsExcReturn(c.gpr[d.rM])
      BY <3>1, <3>8 DEF executeJumpTable, bx, Outcome, Exits
    <3> QED BY <1>11, <3>2, <3>3, <3>4, <3>5, <3>6, <3>7, <3>8
  <2> HIDE DEF r
  <2> QED BY <2>1 DEF Clean, r
<1>12. CASE d.op = "exit"
  BY <1>12 DEF executeJumpTable, Exits
<1> QED BY <1>1, <1>6, <1>7, <1>8, <1>9, <1>10, <1>11, <1>12 DEF Handlers

\* So can what an exception entry or a reset leaves.
LEMMA EntryClean ==
  ASSUME NEW c \in CPU, Clean(c), FrameSlots(EnterSP(c)) \subseteq MemWords, NEW m
  PROVE  Clean([except_enter(c, m, WDT_EXCEPTION).cpu EXCEPT !.exceptmask = {}])
<1> DEFINE n == PushFrame(c, m)
           g == [c.gpr EXCEPT ![GPR_SP] = EnterSP(c), ![GPR_LR] = ExcReturn(c),
                              ![GPR_PC] = n[4 * WDT_EXCEPTION]]
           e == [gpr |-> g, apsr |-> c.apsr, ipsr |-> WDT_EXCEPTION,
                 mode |-> "handler", stack |-> "main", exceptmask |-> c.exceptmask]
<1>1. except_enter(c, m, WDT_EXCEPTION) = Outcome(e, n, 0, TRUE)
  BY Zenon DEF except_enter
<1> HIDE DEF n, g
<1> QED BY <1>1 DEF Outcome, Clean

LEMMA ResetClean ==
  ASSUME NEW c \in CPU, NEW m PROVE Clean(ResetAndPrefetch(c, m))
<1>1. ResetAndPrefetch(c, m).apsr = 0 /\ ResetAndPrefetch(c, m).stack = "main"
  BY DEF ResetAndPrefetch, cpu_reset
<1>2. WordMod \div 16 \in Nat \ {0} /\ 0 % (WordMod \div 16) = 0
  BY Quarters
<1> QED BY <1>1, <1>2 DEF Clean

-----------------------------------------------------------------------------
(***************************************************************************)
(* Returning from the outermost handler                                    *)
(***************************************************************************)

\* From an intact frame, with the registers no frame holds put back, a
\* handler returns to exactly the context it interrupted.
LEMMA ReturnsTo ==
  ASSUME NEW c \in CPU, NEW from \in CPU, Clean(from), NEW m \in Memory,
         c.gpr[GPR_SP] = EnterSP(from), \A r \in 4 .. 11 : c.gpr[r] = from.gpr[r],
         \A k \in 0 .. 7 : m[FrameSlot(EnterSP(from), k)] = FrameWord(from, k),
         except_exit(c, m, ExcReturn(from)).exit = "no"
  PROVE  LET x == except_exit(c, m, ExcReturn(from)).cpu
         IN  View(SetGpr(x, GPR_PC, AdvancedPC(x, TRUE))) = View(from)
<1> USE DEF GPR_SP, GPR_LR, GPR_PC
<1> DEFINE x  == except_exit(c, m, ExcReturn(from))
           sp == EnterSP(from)
           p  == ExcReturn(from)
           f  == [k \in 0 .. 7 |-> m[FrameSlot(c.gpr[GPR_SP], k)]]
           g  == [r \in GPR |->
                    CASE r \in 0 .. 3 -> f[r]
                      [] r = 12      -> f[4]
                      [] r = GPR_LR  -> f[5]
                      [] r = GPR_PC  -> f[6]
                      [] r = GPR_SP  -> Wrap(c.gpr[GPR_SP] + 32)
                      [] OTHER       -> c.gpr[r]]
           e  == [gpr   |-> g, apsr  |-> f[7] - (f[7] % (WordMod \div 16)), ipsr  |-> 0,
                  mode  |-> IF p % 16 = HandlerMain THEN "handler" ELSE "thread",
                  stack |-> IF p % 16 = ThreadProcess THEN "process" ELSE "main",
                  exceptmask |-> c.exceptmask]
           ok == /\ p % 16 \in {HandlerMain, ThreadMain, ThreadProcess}
                 /\ FrameSlots(c.gpr[GPR_SP]) \subseteq MemWords
<1>1. /\ from.gpr \in [GPR -> Word] /\ from.mode \in {"handler", "thread"}
      /\ from.stack \in {"main", "process"} /\ from.apsr \in Int
  BY DEF CPU, Word
<1>2. x.cpu = e
  <2>1. x = IF ok THEN Outcome(e, m, 2, TRUE) ELSE Exits(c, m, "exit1")
    BY Zenon DEF except_exit
  <2>2. x.exit = "no"
    OBVIOUS
  <2> HIDE DEF x, e, ok
  <2> QED BY <2>1, <2>2 DEF Outcome, Exits
<1>3. \A k \in 0 .. 7 : f[k] = FrameWord(from, k)
  OBVIOUS
<1>4. p % 16 = CASE from.mode = "handler" -> HandlerMain
                 [] from.mode # "handler" /\ from.stack = "main" -> ThreadMain
                 [] OTHER -> ThreadProcess
  BY CpuAssumption DEF ExcReturn, HandlerMain, ThreadMain, ThreadProcess
<1>5. WordMod \in Nat /\ 64 < WordMod /\ from.gpr[13] \in 0 .. WordMod - 1
      /\ from.gpr[15] \in 0 .. WordMod - 1
  BY <1>1, CpuAssumption DEF GPR, Word
<1>6. Wrap(sp + 32) = from.gpr[13]
  <2>1. sp = IF from.gpr[13] < 32 THEN from.gpr[13] - 32 + WordMod ELSE from.gpr[13] - 32
    BY <1>5, WrapCases DEF EnterSP
  <2> QED BY <1>5, <2>1, WrapCases
<1>7. Wrap(Wrap(from.gpr[15] - 4) + 4) = from.gpr[15]
  <2>1. Wrap(from.gpr[15] - 4)
          = IF from.gpr[15] < 4 THEN from.gpr[15] - 4 + WordMod ELSE from.gpr[15] - 4
    BY <1>5, WrapCases
  <2> QED BY <1>5, <2>1, WrapCases
<1> HIDE DEF x, sp, p, f
<1>8. \A r \in GPR : g[r] = IF r = 15 THEN Wrap(from.gpr[15] - 4) ELSE from.gpr[r]
  <2> SUFFICES ASSUME NEW r \in GPR
               PROVE  g[r] = IF r = 15 THEN Wrap(from.gpr[15] - 4) ELSE from.gpr[r]
    OBVIOUS
  <2>1. r \in Int
    BY DEF GPR
  <2>2. CASE r \in {0, 1, 2, 3, 12, 14, 15}
    BY <1>3, <2>1, <2>2 DEF FrameWord
  <2>3. CASE r = 13
    BY <1>6, <2>3 DEF sp
  <2>4. CASE r \in 4 .. 11
    BY <2>1, <2>4
  <2>5. r \in {0, 1, 2, 3, 12, 13, 14, 15} \/ r \in 4 .. 11
    BY DEF GPR
  <2> QED BY <2>2, <2>3, <2>4, <2>5
<1>9. e.apsr = from.apsr
  <2>1. f[7] = from.apsr
    BY <1>3 DEF FrameWord
  <2> QED BY <1>1, <2>1 DEF Clean
<1>10. e.mode = from.mode /\ e.stack = from.stack
  BY <1>1, <1>4 DEF Clean, HandlerMain, ThreadMain, ThreadProcess
<1>11. g \in [GPR -> Word]
  <2>1. Wrap(from.gpr[15] - 4) \in Word
    BY <1>5, WrapWord
  <2> QED BY <1>1, <1>8, <2>1
<1>12. AdvancedPC(e, TRUE) = from.gpr[15]
  <2>1. e.gpr[15] = Wrap(from.gpr[15] - 4)
    BY <1>8 DEF GPR
  <2> HIDE DEF e
  <2> QED BY <1>7, <2>1 DEF AdvancedPC
<1>13. SetGpr(e, GPR_PC, AdvancedPC(e, TRUE)).gpr = from.gpr
  <2>1. SetGpr(e, GPR_PC, from.gpr[15]).gpr = [g EXCEPT ![15] = from.gpr[15]]
    BY DEF SetGpr
  <2> HIDE DEF g
  <2>2. [g EXCEPT ![15] = from.gpr[15]] = from.gpr
    BY <1>1, <1>8, <1>11
  <2> QED BY <1>12, <2>1, <2>2
<1>14. LET y == SetGpr(e, GPR_PC, AdvancedPC(e, TRUE))
       IN y.apsr = e.apsr /\ y.mode = e.mode /\ y.stack = e.stack
  <2> HIDE DEF g
  <2> QED BY DEF SetGpr
<1> HIDE DEF e
<1> QED BY <1>2, <1>9, <1>10, <1>13, <1>14 DEF View, x, p

-----------------------------------------------------------------------------
(***************************************************************************)
(* The words a context owns                                                *)
(***************************************************************************)

\* Two memories that agree on what a context owns are the same to it.
LEMMA OwnedSame ==
  ASSUME NEW c, NEW m, NEW n, \A a \in MemWords \ Dead(c) : m[a] = n[a]
  PROVE  Owned(c, m) = Owned(c, n)
BY DEF Owned

\* A view is a processor outside any exception, and what it owns a memory.
LEMMA Unviewed ==
  ASSUME NEW c \in CPU, NEW m \in Memory
  PROVE  /\ Unview(View(c)) \in CPU /\ View(Unview(View(c))) = View(c)
         /\ Owned(View(c), m) \in Memory /\ Owned(View(c), m) = Owned(c, m)
         /\ Dead(View(c)) = Dead(c) /\ InsnAddr(View(c)) = InsnAddr(c)
<1>1. 0 \in Word
  BY CpuAssumption DEF Word
<1>2. Dead(View(c)) = Dead(c)
  BY DEF Dead, View
<1>3. Unview(View(c)) \in CPU
  BY DEF Unview, View, CPU
<1>4. View(Unview(View(c))) = View(c)
  BY DEF Unview, View
<1>5. InsnAddr(View(c)) = InsnAddr(c)
  BY DEF InsnAddr, View
<1>6. Owned(View(c), m) = Owned(c, m)
  BY <1>2 DEF Owned
<1>7. Owned(c, m) \in Memory
  BY <1>1 DEF Owned, Memory
<1> QED BY <1>2, <1>3, <1>4, <1>5, <1>6, <1>7

-----------------------------------------------------------------------------
(***************************************************************************)
(* The operators of the abstract specification are those of the machine    *)
(***************************************************************************)

LEMMA SameWords ==
  /\ U!GPR = GPR /\ U!GPR_SP = GPR_SP /\ U!GPR_LR = GPR_LR /\ U!GPR_PC = GPR_PC
  /\ U!Code = Code /\ U!Zero16 = Zero16
  /\ U!HandlerMain = HandlerMain /\ U!ThreadMain = ThreadMain /\ U!ThreadProcess = ThreadProcess
  /\ \A x : U!Wrap(x) = Wrap(x) /\ U!WordAddr(x) = WordAddr(x) /\ U!IsExcReturn(x) = IsExcReturn(x)
  /\ \A x, k : U!FrameSlot(x, k) = FrameSlot(x, k)
  /\ \A x : U!FrameSlots(x) = FrameSlots(x)
BY DEF U!GPR, GPR, U!GPR_SP, GPR_SP, U!GPR_LR, GPR_LR, U!GPR_PC, GPR_PC, U!Code, Code,
       U!Zero16, Zero16, U!HandlerMain, HandlerMain, U!ThreadMain, ThreadMain,
       U!ThreadProcess, ThreadProcess, U!Wrap, Wrap, U!WordAddr, WordAddr,
       U!IsExcReturn, IsExcReturn, U!FrameSlot, FrameSlot, U!FrameSlots, FrameSlots

LEMMA SameRegisters ==
  /\ \A c, r, x : U!SetGpr(c, r, x) = SetGpr(c, r, x)
  /\ \A c, res : U!SetNZ(c, res) = SetNZ(c, res)
  /\ \A c, x, y, carry, res : U!SetCV(c, x, y, carry, res) = SetCV(c, x, y, carry, res)
  /\ \A c, cond : U!Taken(c, cond) = Taken(c, cond)
  /\ \A c, m : U!ResetAndPrefetch(c, m) = ResetAndPrefetch(c, m) /\ U!ResetToARM(m) = ResetToARM(m)
<1>1. \A c, r, x : U!SetGpr(c, r, x) = SetGpr(c, r, x)
  BY Zenon DEF U!SetGpr, SetGpr
<1>2. \A c, res : U!SetNZ(c, res) = SetNZ(c, res)
  BY Zenon DEF U!SetNZ, SetNZ, U!Bit, Bit
<1>3. \A c, x, y, carry, res : U!SetCV(c, x, y, carry, res) = SetCV(c, x, y, carry, res)
  BY Zenon DEF U!SetCV, SetCV, U!Bit, Bit
<1>4. \A c, cond : U!Taken(c, cond) = Taken(c, cond)
  BY Zenon DEF U!Taken, Taken, U!FLAG_N, FLAG_N, U!FLAG_Z, FLAG_Z, U!FLAG_C, FLAG_C, U!FLAG_V, FLAG_V
<1>5. \A c, m : U!ResetAndPrefetch(c, m) = ResetAndPrefetch(c, m)
  BY Zenon DEF U!ResetAndPrefetch, ResetAndPrefetch, U!cpu_reset, cpu_reset, U!Zero16, Zero16,
        U!GPR, GPR, U!GPR_SP, GPR_SP, U!GPR_PC, GPR_PC, U!WordAddr, WordAddr, U!Wrap, Wrap
<1>6. \A m : U!ResetToARM(m) = ResetToARM(m)
  BY DEF U!ResetToARM, ResetToARM
<1> QED BY <1>1, <1>2, <1>3, <1>4, <1>5, <1>6

\* Each handler of the abstract specification's dispatch is the machine's.
LEMMA SameHandlers ==
  /\ \A c, m, d : U!movs_i(c, m, d) = movs_i(c, m, d)
  /\ \A c, m, d : U!adds_i8(c, m, d) = adds_i8(c, m, d)
  /\ \A c, m, d : U!subs_i8(c, m, d) = subs_i8(c, m, d)
  /\ \A c, m, d : U!muls(c, m, d) = muls(c, m, d)
  /\ \A c, m, d : U!ldr_i(c, m, d) = ldr_i(c, m, d)
  /\ \A c, m, d : U!str_i(c, m, d) = str_i(c, m, d)
  /\ \A c, m, d : U!push(c, m, d) = push(c, m, d)
  /\ \A c, m, d : U!pop(c, m, d) = pop(c, m, d)
  /\ \A c, m, d : U!b(c, m, d) = b(c, m, d)
  /\ \A c, m, d : U!b_c(c, m, d) = b_c(c, m, d)
  /\ \A c, m, d : U!bl(c, m, d) = bl(c, m, d)
  /\ \A c, m, d : U!blx(c, m, d) = blx(c, m, d)
  /\ \A c, m, d : U!bx(c, m, d) = bx(c, m, d)
  /\ \A c, m, how : U!Exits(c, m, how) = Exits(c, m, how)
<1>1. \A c, m, d : U!movs_i(c, m, d) = movs_i(c, m, d)
  BY ZenonT(60) DEF U!movs_i, movs_i, U!Outcome, Outcome, U!SetNZ, SetNZ, U!SetGpr, SetGpr,
       U!Bit, Bit, U!Wrap, Wrap
<1>2. \A c, m, d : U!adds_i8(c, m, d) = adds_i8(c, m, d)
  BY SameRegisters, SameWords DEF U!adds_i8, adds_i8, U!Outcome, Outcome
<1>3. \A c, m, d : U!subs_i8(c, m, d) = subs_i8(c, m, d)
  BY SameRegisters, SameWords DEF U!subs_i8, subs_i8, U!Outcome, Outcome
<1>4. \A c, m, d : U!muls(c, m, d) = muls(c, m, d)
  BY ZenonT(60) DEF U!muls, muls, U!Outcome, Outcome, U!SetNZ, SetNZ, U!SetGpr, SetGpr, U!Bit,
       Bit, U!Wrap, Wrap
<1>5. \A c, m, d : U!ldr_i(c, m, d) = ldr_i(c, m, d)
  BY ZenonT(60) DEF U!ldr_i, ldr_i, U!Outcome, Outcome, U!Exits, Exits, U!SetGpr, SetGpr,
       U!Wrap, Wrap, U!WordAddr, WordAddr
<1>6. \A c, m, d : U!str_i(c, m, d) = str_i(c, m, d)
  <2> TAKE c, m, d
  <2> DEFINE a == WordAddr(Wrap(c.gpr[d.rN] + 4 * d.imm))
             x == c.gpr[d.rD]
  <2>1. /\ a = U!WordAddr(U!Wrap(c.gpr[d.rN] + 4 * d.imm))
        /\ U!ResetAndPrefetch(c, m) = ResetAndPrefetch(c, m)
    BY SameRegisters, SameWords
  <2>2. U!ResetToARM(m) = ResetToARM(m)
    BY SameRegisters
  <2> DEFINE out(y, z, reset) ==
               CASE y \in MemWords -> Outcome(c, [m EXCEPT ![y] = x], 2, FALSE)
                 [] y = DoResetAddr /\ x = 0 -> Outcome(c, m, 2, FALSE)
                 [] y = DoResetAddr /\ x # 0 ->
                      IF reset THEN Exits(c, m, "exit1") ELSE [Outcome(z, m, 2, FALSE) EXCEPT !.exit = "reset"]
                 [] OTHER -> Exits(c, m, "exit1")
  <2>3. str_i(c, m, d) = out(a, ResetAndPrefetch(c, m), ResetToARM(m))
    BY ZenonT(60) DEF str_i
  <2>4. U!str_i(c, m, d) = out(U!WordAddr(U!Wrap(c.gpr[d.rN] + 4 * d.imm)),
                               U!ResetAndPrefetch(c, m), U!ResetToARM(m))
    BY ZenonT(60) DEF U!str_i, U!Outcome, Outcome, U!Exits, Exits
  <2> HIDE DEF out, a
  <2> QED BY <2>1, <2>2, <2>3, <2>4
<1>7. \A c, m, d : U!push(c, m, d) = push(c, m, d)
  BY ZenonT(60) DEF U!push, push, U!Outcome, Outcome, U!Exits, Exits, U!SetGpr, SetGpr, U!Slot,
       Slot, U!GPR_SP, GPR_SP, U!GPR_LR, GPR_LR, U!Wrap, Wrap, U!WordAddr, WordAddr,
       U!Cardinality, Cardinality, U!IsFiniteSet, IsFiniteSet
<1>8. \A c, m, d : U!pop(c, m, d) = pop(c, m, d)
  BY ZenonT(60) DEF U!pop, pop, U!Outcome, Outcome, U!Exits, Exits, U!Slot, Slot, U!GPR, GPR,
       U!GPR_SP, GPR_SP, U!GPR_PC, GPR_PC, U!Wrap, Wrap, U!WordAddr, WordAddr,
       U!Cardinality, Cardinality, U!IsFiniteSet, IsFiniteSet
<1>9. \A c, m, d : U!b(c, m, d) = b(c, m, d)
  BY ZenonT(60) DEF U!b, b, U!Outcome, Outcome, U!SetGpr, SetGpr, U!GPR_PC, GPR_PC, U!Wrap,
       Wrap
<1>10. \A c, m, d : U!b_c(c, m, d) = b_c(c, m, d)
  BY ZenonT(60) DEF U!b_c, b_c, U!b, b, U!Taken, Taken, U!FLAG_N, FLAG_N, U!FLAG_Z, FLAG_Z,
       U!FLAG_C, FLAG_C, U!FLAG_V, FLAG_V, U!Outcome, Outcome, U!Exits, Exits, U!SetGpr,
       SetGpr, U!GPR_PC, GPR_PC, U!Wrap, Wrap
<1>11. \A c, m, d : U!bl(c, m, d) = bl(c, m, d)
  BY ZenonT(60) DEF U!bl, bl, U!Outcome, Outcome, U!GPR_LR, GPR_LR, U!GPR_PC, GPR_PC, U!Wrap,
       Wrap
<1>12. \A c, m, d : U!blx(c, m, d) = blx(c, m, d)
  BY ZenonT(60) DEF U!blx, blx, U!Outcome, Outcome, U!Exits, Exits, U!GPR_LR, GPR_LR, U!GPR_PC,
       GPR_PC, U!Wrap, Wrap
<1>13. \A c, m, d : U!bx(c, m, d) = bx(c, m, d)
  <2>1. \A c, m, p : U!except_exit(c, m, p) = except_exit(c, m, p)
    <3>1. ASSUME NEW c, NEW m, NEW p PROVE U!except_exit(c, m, p) = except_exit(c, m, p)
      BY ZenonT(60) DEF U!except_exit, except_exit, U!FrameSlots, FrameSlots, U!FrameSlot, FrameSlot,
           U!HandlerMain, HandlerMain, U!ThreadMain, ThreadMain,
           U!ThreadProcess, ThreadProcess, U!Outcome, Outcome, U!Exits, Exits, U!GPR, GPR,
           U!GPR_SP, GPR_SP, U!GPR_LR, GPR_LR, U!GPR_PC, GPR_PC, U!Wrap, Wrap,
           U!WordAddr, WordAddr
    <3> QED BY <3>1
  <2> QED BY <2>1, SameRegisters, SameWords, ZenonT(60) DEF U!bx, bx, U!Outcome, Outcome, U!Exits, Exits
<1>14. \A c, m, how : U!Exits(c, m, how) = Exits(c, m, how)
  BY Zenon DEF U!Exits, Exits
<1> QED BY <1>1, <1>2, <1>3, <1>4, <1>5, <1>6, <1>7, <1>8, <1>9, <1>10, <1>11, <1>12, <1>13, <1>14

LEMMA SameInstance ==
  /\ \A c, m, d : U!executeJumpTable(c, m, d) = executeJumpTable(c, m, d)
  /\ \A c : U!View(c) = View(c) /\ U!Unview(c) = Unview(c) /\ U!InsnAddr(c) = InsnAddr(c)
  /\ \A c, m : U!Owned(c, m) = Owned(c, m)
  /\ \A c, t : U!AdvancedPC(c, t) = AdvancedPC(c, t)
<1>1. ASSUME NEW c, NEW m, NEW d
      PROVE  U!executeJumpTable(c, m, d) = executeJumpTable(c, m, d)
  BY SameHandlers, Zenon DEF U!executeJumpTable, executeJumpTable
<1>2. \A c : U!View(c) = View(c) /\ U!Unview(c) = Unview(c)
  BY Zenon DEF U!View, View, U!Unview, Unview
<1>3. \A c : U!InsnAddr(c) = InsnAddr(c)
  BY Zenon DEF U!InsnAddr, InsnAddr, U!Wrap, Wrap, U!GPR_PC, GPR_PC
<1>4. \A c, m : U!Owned(c, m) = Owned(c, m)
  BY Zenon DEF U!Owned, Owned, U!Dead, Dead, U!GPR_SP, GPR_SP
<1>5. \A c, t : U!AdvancedPC(c, t) = AdvancedPC(c, t)
  BY Zenon DEF U!AdvancedPC, AdvancedPC, U!Wrap, Wrap, U!GPR_PC, GPR_PC
<1> QED BY <1>1, <1>2, <1>3, <1>4, <1>5

-----------------------------------------------------------------------------
(***************************************************************************)
(* The invariant the refinement rests on: what runs keeps the discipline,  *)
(* and the instruction that has run would run again to the same end.       *)
(***************************************************************************)
Ran ==
  phase = "except" =>
    /\ InsnAddr(lastCPU) \in Code
    /\ LET r == executeJumpTable(lastCPU, mem, Retired)
       IN r.exit = "no" /\ r.taken = takenBranch /\ r.mem = mem /\ View(r.cpu) = View(cpu)

\* No branch goes untagged, so the loop never exits for one.
Tagged == phase = "advance" => takenBranch \/ cpu.gpr[GPR_PC] = lastCPU.gpr[GPR_PC]

\* The initial stack pointer stays where the loader put it.
Vector == mem[0] = FlashInit[0]

AllClean == /\ Clean(cpu) /\ Clean(lastCPU)
            /\ \A i \in 1 .. Len(interrupted) : Clean(interrupted[i])

TInv == FInv /\ Ran /\ Tagged /\ Vector /\ AllClean

\* A disciplined instruction requests no reset and keeps the vector; below a
\* running handler it writes only words that are the handler's.
LEMMA DisciplinedWrites ==
  ASSUME NEW c \in CPU, NEW m \in Memory, Disciplined(c), interrupted \in Seq(CPU),
         InsnAddr(c) \in Code,
         executeJumpTable(c, m, Program[InsnAddr(c)]).exit \in {"no", "reset"}
  PROVE  LET d == Program[InsnAddr(c)]
         IN  /\ executeJumpTable(c, m, d).exit = "no"
             /\ DoResetAddr \notin Writes(c, d) /\ 0 \notin Writes(c, d)
             /\ interrupted # <<>> =>
                  Writes(c, d) \subseteq
                    HandlerWords \cup {a \in StackWords : a < EnterSP(interrupted[1])}
<1> DEFINE d == Program[InsnAddr(c)]
<1>1. d \in DECODE_RESULT
  BY CpuAssumption
<1> HIDE DEF d
<1>2. /\ Writes(c, d) \subseteq MemWords \cup {DoResetAddr}
      /\ executeJumpTable(c, m, d).exit = "reset" => DoResetAddr \in Writes(c, d)
  BY <1>1, Written DEF d
<1>3. interrupted # <<>> =>
        Writes(c, d) \subseteq HandlerWords \cup {a \in StackWords : a < EnterSP(interrupted[1])}
  <2>1. interrupted # <<>> => HandlerKeeps(c, d, interrupted[1])
    BY DEF Disciplined, d
  <2> QED BY <1>2, <2>1 DEF HandlerKeeps
<1>4. DoResetAddr \notin Writes(c, d) /\ 0 \notin Writes(c, d)
  <2>1. CASE interrupted = <<>>
    BY <2>1 DEF Disciplined, ProgramKeeps, d
  <2>2. CASE interrupted # <<>>
    <3>1. \A a \in HandlerWords \cup StackWords : a \in MemWords /\ a # 0
      BY StackWord, RefinementAssumption
    <3> QED BY <1>3, <2>2, <3>1, CpuAssumption
  <2> QED BY <2>1, <2>2
<1> QED BY <1>2, <1>3, <1>4 DEF d

\* Running an instruction again on the memory it left changes nothing.
LEMMA RunsAgain ==
  ASSUME NEW c \in CPU, NEW m \in Memory, NEW d \in DECODE_RESULT,
         executeJumpTable(c, m, d).exit = "no", DoResetAddr \notin Writes(c, d)
  PROVE  LET n == executeJumpTable(c, m, d).mem
         IN  /\ SameEnd(executeJumpTable(c, n, d), executeJumpTable(c, m, d))
             /\ executeJumpTable(c, n, d).mem = n
<1> DEFINE r == executeJumpTable(c, m, d)
           n == r.mem
           s == executeJumpTable(c, n, d)
<1>1. n \in Memory
  BY InstructionHandled DEF Handled, Outcomes
<1>2. \A a \in MemWords \ Writes(c, d) : n[a] = m[a]
  BY Written
<1>3. \A a \in Reads(c, d) : n[a] = m[a]
  <2>1. CASE Reads(c, d) = {}
    BY <2>1
  <2>2. CASE Reads(c, d) # {}
    <3>1. Writes(c, d) = {}
      BY <2>2 DEF Reads, Writes, Returns
    <3> HIDE DEF n
    <3>2. n = m
      BY <1>1, <1>2, <3>1 DEF Memory
    <3> QED BY <3>2
  <2> QED BY <2>1, <2>2
<1>4. /\ SameEnd(s, r)
      /\ \A a \in MemWords : a \in Writes(c, d) \/ n[a] = m[a] => s.mem[a] = n[a]
  <2> HIDE DEF n
  <2>1. /\ SameEnd(executeJumpTable(c, n, d), executeJumpTable(c, m, d))
        /\ \A a \in MemWords : a \in Writes(c, d) \/ n[a] = m[a] =>
             executeJumpTable(c, n, d).mem[a] = executeJumpTable(c, m, d).mem[a]
    BY <1>1, <1>3, Agreement
  <2> QED BY <2>1 DEF n
<1>5. s.mem \in Memory
  <2> HIDE DEF n
  <2> QED BY <1>1, InstructionHandled DEF Handled, Outcomes
<1> HIDE DEF s, n, r
<1>6. s.mem = n
  BY <1>1, <1>2, <1>4, <1>5 DEF Memory
<1> QED BY <1>4, <1>6 DEF s, n, r

\* What an instruction that returns reads is data.
LEMMA ReadsData ==
  ASSUME NEW c \in CPU, NEW m \in Memory, NEW d \in DECODE_RESULT,
         executeJumpTable(c, m, d).exit = "no"
  PROVE  Reads(c, d) \subseteq MemWords
<1> DEFINE r == executeJumpTable(c, m, d)
<1>1. r # Exits(c, m, "exit1")
  <2> HIDE DEF r
  <2>1. r.exit = "no"
    BY DEF r
  <2> QED BY <2>1 DEF Exits
<1>2. CASE d.op = "ldr_i"
  <2>1. CASE Target(c, d) \notin MemWords
    <3>1. r = Exits(c, m, "exit1")
      BY <1>2, <2>1 DEF executeJumpTable, ldr_i, Target
    <3> QED BY <1>1, <3>1
  <2>2. Reads(c, d) = {Target(c, d)}
    BY <1>2 DEF Reads, Returns
  <2> QED BY <2>1, <2>2
<1>3. CASE d.op = "pop"
  <2> DEFINE list == Listed(d, GPR_PC)
             sp   == c.gpr[GPR_SP]
  <2>1. CASE ~(\A q \in list : Slot(sp, list, q) \in MemWords)
    <3>1. r = pop(c, m, d)
      BY <1>3 DEF executeJumpTable
    <3>2. pop(c, m, d) = Exits(c, m, "exit1")
      BY <2>1, Zenon DEF pop, Listed
    <3> QED BY <1>1, <3>1, <3>2
  <2>2. Reads(c, d) = {Slot(sp, list, q) : q \in list}
    BY <1>3 DEF Reads, Returns
  <2> HIDE DEF list, sp
  <2> QED BY <2>1, <2>2
<1>4. CASE Returns(c, d)
  <2>1. Reads(c, d) = FrameSlots(c.gpr[GPR_SP])
    BY <1>4 DEF Reads, Returns
  <2>2. CASE ~(FrameSlots(c.gpr[GPR_SP]) \subseteq MemWords)
    <3>1. r = Exits(c, m, "exit1")
      BY <1>4, <2>2 DEF executeJumpTable, bx, Returns, except_exit
    <3> QED BY <1>1, <3>1
  <2> QED BY <2>1, <2>2
<1>5. CASE d.op \notin {"ldr_i", "pop"} /\ ~Returns(c, d)
  BY <1>5 DEF Reads, Returns
<1> QED BY <1>2, <1>3, <1>4, <1>5

\* Run on what the program sees, an instruction of the program ends as it
\* does on the machine and leaves the same memory to it, before the next
\* stack pointer is known and after.
LEMMA AttemptAgrees ==
  ASSUME NEW c \in CPU, NEW m \in Memory, NEW d \in DECODE_RESULT, OnStack(c),
         ProgramKeeps(c, d), executeJumpTable(c, m, d).exit = "no"
  PROVE  LET r == executeJumpTable(c, m, d)
             s == executeJumpTable(Unview(View(c)), Owned(c, m), d)
         IN  /\ SameEnd(s, r) /\ Unview(View(c)) \in CPU /\ Owned(c, m) \in Memory
             /\ Owned(c, s.mem) = Owned(c, r.mem)
             /\ \A x : x.gpr[GPR_SP] = r.cpu.gpr[GPR_SP] => Owned(x, s.mem) = Owned(x, r.mem)
<1> DEFINE r == executeJumpTable(c, m, d)
           s == executeJumpTable(Unview(View(c)), Owned(c, m), d)
<1>1. /\ Unview(View(c)) \in CPU /\ View(Unview(View(c))) = View(c)
      /\ Owned(c, m) \in Memory
  BY Unviewed
<1>2. \A a \in MemWords \ Dead(c) : Owned(c, m)[a] = m[a]
  BY DEF Owned
<1>3. \A a \in Reads(c, d) : Owned(c, m)[a] = m[a]
  BY <1>2, ReadsData DEF ProgramKeeps
<1>4. /\ SameEnd(s, r)
      /\ \A a \in MemWords : a \in Writes(c, d) \/ Owned(c, m)[a] = m[a] => s.mem[a] = r.mem[a]
  BY <1>1, <1>3, Agreement DEF ProgramKeeps
<1>5. \A a \in StackWords : a < c.gpr[GPR_SP] /\ a >= r.cpu.gpr[GPR_SP] => a \in Writes(c, d)
  BY Lands
<1>6. c.gpr[GPR_SP] \in Int /\ r.cpu.gpr[GPR_SP] \in Int /\ \A a \in StackWords : a \in Int
  <2>1. r.cpu \in CPU
    BY InstructionHandled DEF Handled, Outcomes
  <2> HIDE DEF r
  <2>2. c.gpr[GPR_SP] \in Word /\ r.cpu.gpr[GPR_SP] \in Word
    BY <2>1 DEF CPU, GPR, GPR_SP
  <2> QED BY <2>2, StackWord DEF Word
<1> HIDE DEF r, s
<1>7. Owned(c, s.mem) = Owned(c, r.mem)
  BY <1>2, <1>4, OwnedSame
<1>8. ASSUME NEW x, x.gpr[GPR_SP] = r.cpu.gpr[GPR_SP]
      PROVE  Owned(x, s.mem) = Owned(x, r.mem)
  <2>1. ASSUME NEW a \in MemWords \ Dead(x) PROVE s.mem[a] = r.mem[a]
    <3>1. CASE a \notin Dead(c)
      BY <1>2, <1>4, <3>1
    <3>2. CASE a \in Dead(c)
      <4>1. a \in StackWords /\ a < c.gpr[GPR_SP] /\ ~(a < r.cpu.gpr[GPR_SP])
        BY <1>8, <2>1, <3>2 DEF Dead
      <4>2. a \in Writes(c, d)
        BY <1>5, <1>6, <4>1
      <4> QED BY <1>4, <4>2
    <3> QED BY <3>1, <3>2
  <2> QED BY <2>1, OwnedSame
<1> QED BY <1>1, <1>4, <1>7, <1>8 DEF r, s

-----------------------------------------------------------------------------
(***************************************************************************)
(* The invariant is inductive                                              *)
(***************************************************************************)

LEMMA TInvInit == Init => TInv
<1> SUFFICES ASSUME Init PROVE TInv
  OBVIOUS
<1>1. phase = "fetch" /\ interrupted = <<>> /\ Len(<<>>) = 0 /\ mem = FlashInit /\ lastCPU = cpu
  BY DEF Init
<1>2. StaticCPU \in CPU
  <2>1. 0 \in Word
    BY CpuAssumption DEF Word
  <2> QED BY <2>1 DEF StaticCPU, CPU, Zero16
<1>3. Clean(cpu)
  BY <1>2, ResetClean DEF Init
<1> QED BY <1>1, <1>3, FramesInit DEF TInv, Ran, Tagged, Vector, AllClean

\* After the iteration's instruction: what it did can be told from the
\* backup, and neither the vector nor a reset was written.
LEMMA RanStep ==
  ASSUME IInv, StackDiscipline, TInv, exwbmem
  PROVE  Ran' /\ Vector' /\ Clean(cpu')
<1> DEFINE d == Program[InsnAddr(cpu)]
           r == executeJumpTable(cpu, mem, d)
<1>1. /\ cpu \in CPU /\ mem \in Memory /\ interrupted \in Seq(CPU) /\ InsnAddr(cpu) \in Code
      /\ phase = "execute" /\ lastCPU = cpu /\ Clean(cpu) /\ mem[0] = FlashInit[0]
  BY DEF IInv, TypeOK, Fetched, exwbmem, Memory, TInv, FInv, BackedUp, AllClean, Vector
<1>2. d \in DECODE_RESULT /\ Disciplined(cpu)
  BY <1>1, CpuAssumption DEF StackDiscipline
<1>3. /\ r.exit \in {"no", "reset"} /\ mem' = r.mem /\ takenBranch' = r.taken
      /\ lastCPU' = lastCPU
      /\ cpu' = r.cpu \/ cpu' = cpu_set_except(r.cpu, WDT_EXCEPTION)
  BY DEF exwbmem, Executed, Insn
<1>4. r.exit = "no" /\ DoResetAddr \notin Writes(cpu, d) /\ 0 \notin Writes(cpu, d)
  BY <1>1, <1>2, <1>3, DisciplinedWrites
<1>5. LET s == executeJumpTable(cpu, r.mem, d) IN SameEnd(s, r) /\ s.mem = r.mem
  BY <1>1, <1>2, <1>4, RunsAgain
<1>6. r.cpu \in CPU /\ Clean(r.cpu) /\ r.mem[0] = mem[0]
  <2>1. r.cpu \in CPU
    BY <1>1, <1>2, InstructionHandled DEF Handled, Outcomes
  <2>2. Clean(r.cpu)
    BY <1>1, <1>2, <1>4, StaysClean
  <2>3. r.mem[0] = mem[0]
    BY <1>1, <1>2, <1>4, Written, CpuAssumption
  <2> QED BY <2>1, <2>2, <2>3
<1>7. View(cpu') = View(r.cpu) /\ Clean(cpu')
  <2> HIDE DEF r
  <2>1. LET e == cpu_set_except(r.cpu, WDT_EXCEPTION)
        IN e.gpr = r.cpu.gpr /\ e.apsr = r.cpu.apsr /\ e.mode = r.cpu.mode /\ e.stack = r.cpu.stack
    BY <1>6 DEF cpu_set_except, CPU
  <2> QED BY <1>3, <1>6, <2>1 DEF View, Clean
<1>8. Ran'
  <2>1. d = Retired'
    BY <1>1, <1>3 DEF Retired
  <2>2. /\ executeJumpTable(lastCPU', mem', Retired') = executeJumpTable(cpu, r.mem, d)
        /\ InsnAddr(lastCPU') = InsnAddr(cpu)
    BY <1>1, <1>3, <2>1
  <2> HIDE DEF r, d
  <2> QED BY <1>1, <1>3, <1>4, <1>5, <1>7, <2>2 DEF Ran, SameEnd
<1> QED BY <1>1, <1>3, <1>6, <1>7, <1>8 DEF Vector

\* An instruction that does not branch leaves the PC to Advance.
LEMMA TaggedStep ==
  ASSUME IInv, TInv, Retire PROVE Tagged'
<1> DEFINE r == executeJumpTable(lastCPU, mem, Retired)
<1>1. /\ phase = "except" /\ lastCPU \in CPU /\ mem \in Memory
      /\ UNCHANGED <<cpu, lastCPU, takenBranch>>
  BY DEF Retire, IInv, TypeOK, Memory
<1>2. /\ InsnAddr(lastCPU) \in Code /\ r.exit = "no" /\ r.taken = takenBranch
      /\ View(r.cpu) = View(cpu) /\ OnStack(lastCPU)
  BY <1>1 DEF TInv, FInv, Ran, Kept, Disciplined
<1>3. Retired \in DECODE_RESULT
  BY <1>2, CpuAssumption DEF Retired
<1>4. ~r.taken => r.cpu.gpr[GPR_PC] = lastCPU.gpr[GPR_PC]
  BY <1>1, <1>2, <1>3, Lands
<1> HIDE DEF r
<1> QED BY <1>1, <1>2, <1>4 DEF Tagged, View

\* An exception is entered below the stack pointer, on the stack.
LEMMA EntersBelow ==
  ASSUME NEW c \in CPU, NEW m \in Memory, OnStack(c), FrameSlots(EnterSP(c)) \subseteq MemWords
  PROVE  \A a \in MemWords :
           \/ PushFrame(c, m)[a] = m[a]
           \/ a \in StackWords /\ a < c.gpr[GPR_SP]
<1>1. FrameSlots(EnterSP(c)) \subseteq StackWords
  BY DEF OnStack
<1>2. /\ c.gpr[GPR_SP] \in Word /\ c.gpr[GPR_SP] + 36 < WordMod
      /\ EnterSP(c) = c.gpr[GPR_SP] - 32 /\ EnterSP(c) \in Word /\ EnterSP(c) % 4 = 0
  BY StackPointer
<1> DEFINE s == EnterSP(c)
<1>3. WordMod \in Nat /\ c.gpr[GPR_SP] \in Int
  BY <1>2, CpuAssumption DEF Word
<1>4. ASSUME NEW a \in FrameSlots(s) PROVE a < c.gpr[GPR_SP]
  <2> DEFINE sp == c.gpr[GPR_SP]
  <2>1. PICK k \in 0 .. 7 : a = FrameSlot(s, k)
    BY DEF FrameSlots
  <2>2. s = sp - 32 /\ sp \in Int /\ s \in Word /\ s % 4 = 0 /\ sp + 36 < WordMod
    BY <1>2, <1>3
  <2> HIDE DEF s, sp
  <2>3. s + 32 < WordMod
    BY <1>3, <2>2
  <2>4. a = s + 4 * k
    BY <2>1, <2>2, <2>3, Slot8
  <2> QED BY <2>2, <2>4 DEF sp
<1>5. \A a \in MemWords \ FrameSlots(s) : PushFrame(c, m)[a] = m[a]
  BY DEF PushFrame
<1> QED BY <1>1, <1>4, <1>5

LEMMA CleanStep ==
  ASSUME IInv, StackDiscipline, TInv, [Next]_vars PROVE AllClean'
<1>1. /\ cpu \in CPU /\ lastCPU \in CPU /\ mem \in Memory /\ interrupted \in Seq(CPU)
      /\ Len(interrupted) \in Nat
  BY DEF IInv, TypeOK, Memory
<1>2. AllClean
  BY DEF TInv
<1>3. \A i \in 1 .. Len(interrupted) : Clean(interrupted[i])
  BY <1>2 DEF AllClean
<1>4. CASE Fetch
  BY <1>2, <1>4 DEF Fetch, AllClean, Clean
<1>5. CASE exwbmem
  <2>1. Clean(cpu') /\ lastCPU' = lastCPU /\ interrupted' = interrupted
    BY <1>5, RanStep DEF exwbmem
  <2> QED BY <1>2, <2>1 DEF AllClean, Clean
<1>6. CASE sim_exit
  BY <1>2, <1>6 DEF sim_exit, AllClean, Clean
<1>7. CASE check_except
  <2>1. lastCPU' = lastCPU /\ Clean(lastCPU)
    BY <1>2, <1>7 DEF check_except, AllClean
  <2>2. CASE interrupted' = interrupted /\ View(cpu') = View(lastCPU)
    BY <1>2, <2>1, <2>2 DEF AllClean, Clean, View
  <2>3. CASE /\ interrupted' = <<lastCPU>> \o interrupted
             /\ FrameSlots(EnterSP(lastCPU)) \subseteq MemWords
             /\ cpu' = [except_enter(lastCPU, mem, WDT_EXCEPTION).cpu EXCEPT !.exceptmask = {}]
    <3>1. Clean(cpu')
      BY <1>1, <2>1, <2>3, EntryClean
    <3>2. ASSUME NEW i \in 1 .. Len(interrupted') PROVE Clean(interrupted'[i])
      BY <1>1, <1>3, <2>1, <2>3, Pushed
    <3> QED BY <2>1, <3>1, <3>2 DEF AllClean, Clean
  <2> QED BY <1>7, <2>2, <2>3, Entered
<1>8. CASE Retire
  <2>1. cpu' = cpu /\ lastCPU' = lastCPU
    BY <1>8 DEF Retire
  <2>2. interrupted' = interrupted \/ interrupted' = <<>>
          \/ (interrupted # <<>> /\ interrupted' = Tail(interrupted))
    BY <1>8 DEF Retire
  <2>3. ASSUME NEW i \in 1 .. Len(interrupted') PROVE Clean(interrupted'[i])
    <3>1. CASE interrupted' = interrupted
      BY <1>3, <3>1
    <3>2. CASE interrupted # <<>> /\ interrupted' = Tail(interrupted)
      <4>1. Len(interrupted') = Len(interrupted) - 1 /\ interrupted'[i] = interrupted[i + 1]
        BY <1>1, <3>2
      <4>2. i + 1 \in 1 .. Len(interrupted)
        BY <1>1, <4>1
      <4> QED BY <1>3, <4>1, <4>2
    <3>3. CASE interrupted' = <<>>
      BY <3>3
    <3> QED BY <2>2, <3>1, <3>2, <3>3
  <2> QED BY <1>2, <2>1, <2>3 DEF AllClean, Clean
<1>9. CASE Advance
  <2>1. lastCPU' = lastCPU /\ interrupted' = interrupted
    BY <1>9 DEF Advance
  <2>2. \A r, v : SetGpr(cpu, r, v).apsr = cpu.apsr /\ SetGpr(cpu, r, v).mode = cpu.mode
                    /\ SetGpr(cpu, r, v).stack = cpu.stack
    BY <1>1 DEF SetGpr, CPU
  <2>3. cpu' = cpu \/ cpu' = SetGpr(cpu, GPR_PC, AdvancedPC(cpu, takenBranch))
    BY <1>9 DEF Advance
  <2> QED BY <1>2, <2>1, <2>2, <2>3 DEF AllClean, Clean
<1>10. CASE sim_command
  <2>1. cpu' = ResetAndPrefetch(cpu, mem) /\ lastCPU' = lastCPU /\ interrupted' = <<>>
    BY <1>10 DEF sim_command
  <2>2. Clean(cpu') /\ Len(<<>>) = 0
    BY <1>1, <2>1, ResetClean
  <2> QED BY <1>2, <2>1, <2>2 DEF AllClean, Clean
<1>11. CASE \E s \in Seeds : DebugWriteSeed(s)
  BY <1>2, <1>11 DEF DebugWriteSeed, AllClean, Clean
<1>12. CASE UNCHANGED vars
  BY <1>2, <1>12 DEF vars, AllClean, Clean
<1> QED BY <1>4, <1>5, <1>6, <1>7, <1>8, <1>9, <1>10, <1>11, <1>12 DEF Next, Step, Debug

LEMMA TInvStep ==
  ASSUME IInv, StackDiscipline, TInv, [Next]_vars PROVE TInv'
<1>1. FInv' /\ AllClean'
  BY FramesStep, CleanStep DEF TInv
<1>2. Vector /\ Ran /\ Tagged
  BY DEF TInv
<1>3. CASE Fetch
  BY <1>1, <1>2, <1>3 DEF Fetch, TInv, Ran, Tagged, Vector
<1>4. CASE exwbmem
  <2>1. phase' = "except"
    BY <1>4 DEF exwbmem
  <2> QED BY <1>1, <1>4, <2>1, RanStep DEF TInv, Tagged
<1>5. CASE sim_exit
  <2>1. phase' \in {"exit0", "exit1"} /\ mem' = mem
    BY <1>5 DEF sim_exit
  <2> QED BY <1>1, <1>2, <2>1 DEF TInv, Ran, Tagged, Vector
<1>6. CASE check_except
  <2>1. phase = "except" /\ phase' \in {"advance", "exit1"} /\ takenBranch' = TRUE
    BY <1>6 DEF check_except
  <2>2. lastCPU \in CPU /\ mem \in Memory /\ OnStack(lastCPU)
    BY <2>1 DEF IInv, TypeOK, Memory, TInv, FInv, Kept, Disciplined
  <2>3. mem'[0] = mem[0]
    <3>1. CASE mem' = mem
      BY <3>1
    <3>2. CASE /\ FrameSlots(EnterSP(lastCPU)) \subseteq MemWords
               /\ mem' = PushFrame(lastCPU, mem)
      BY <2>2, <3>2, EntersBelow, StackWord, CpuAssumption
    <3> QED BY <1>6, <3>1, <3>2, Entered
  <2> QED BY <1>1, <1>2, <2>1, <2>3 DEF TInv, Ran, Tagged, Vector
<1>7. CASE Retire
  <2>1. phase' = "advance" /\ mem' = mem
    BY <1>7 DEF Retire
  <2> QED BY <1>1, <1>2, <1>7, <2>1, TaggedStep DEF TInv, Ran, Vector
<1>8. CASE Advance
  <2>1. phase' \in {"exit1", "fetch"} /\ mem' = mem
    BY <1>8 DEF Advance
  <2> QED BY <1>1, <1>2, <2>1 DEF TInv, Ran, Tagged, Vector
<1>9. CASE sim_command
  <2>1. phase' \in {"exit1", "fetch"} /\ mem' = mem
    BY <1>9 DEF sim_command, Command
  <2> QED BY <1>1, <1>2, <2>1 DEF TInv, Ran, Tagged, Vector
<1>10. CASE \E s \in Seeds : DebugWriteSeed(s)
  <2>1. phase' = "fetch" /\ mem' = mem
    BY <1>10 DEF DebugWriteSeed, Command
  <2> QED BY <1>1, <1>2, <2>1 DEF TInv, Ran, Tagged, Vector
<1>11. CASE UNCHANGED vars
  BY <1>1, <1>2, <1>11 DEF vars, TInv, Ran, Retired, Tagged, Vector
<1> QED BY <1>3, <1>4, <1>5, <1>6, <1>7, <1>8, <1>9, <1>10, <1>11 DEF Next, Step, Debug

-----------------------------------------------------------------------------
(***************************************************************************)
(* Every step of the loop is one of the program's, or none                 *)
(***************************************************************************)
Seen    == <<View(ProgramContext), Owned(ProgramContext, mem)>>
Attempt == executeJumpTable(Unview(View(ProgramContext)), Owned(ProgramContext, mem),
                            Program[InsnAddr(ProgramContext)])

\* The steps of the abstract specification, in the machine's operators.
LEMMA AbstractSteps ==
  ASSUME ProgramContext \in CPU, mem \in Memory
  PROVE  /\ /\ InsnAddr(ProgramContext) \in Code /\ Attempt.exit = "no"
            /\ View(ProgramContext)' = View(ProgramContext)
            /\ Owned(ProgramContext, mem)' = Owned(View(ProgramContext), Attempt.mem)
            => U!ANext
         /\ /\ InsnAddr(ProgramContext) \in Code /\ Attempt.exit = "no"
            /\ View(ProgramContext)' =
                 View(SetGpr(Attempt.cpu, GPR_PC, AdvancedPC(Attempt.cpu, Attempt.taken)))
            /\ Owned(ProgramContext, mem)' = Owned(View(ProgramContext)', Attempt.mem)
            => U!ANext
         /\ /\ \E mode \in {"handler", "thread"} :
                 View(ProgramContext)' =
                   View(ResetAndPrefetch([Unview(View(ProgramContext)) EXCEPT !.mode = mode],
                                         Owned(ProgramContext, mem)))
            /\ Owned(ProgramContext, mem)' = Owned(View(ProgramContext)', Owned(ProgramContext, mem))
            => U!ANext
<1>1. InsnAddr(View(ProgramContext)) = InsnAddr(ProgramContext)
  BY Unviewed
<1>2. U!Attempt = Attempt /\ U!InsnAddr(View(ProgramContext)) = InsnAddr(ProgramContext)
  BY <1>1, SameInstance DEF U!Attempt, Attempt
<1>3. U!Code = Code /\ U!GPR_PC = GPR_PC
  BY SameWords
<1> DEFINE v == View(ProgramContext)
           o == Owned(ProgramContext, mem)
<1>4. v' = v /\ o' = Owned(v, Attempt.mem) /\ Attempt.exit = "no" => U!AStore
  BY <1>2, SameInstance DEF U!AStore
<1>5. /\ v' = View(SetGpr(Attempt.cpu, GPR_PC, AdvancedPC(Attempt.cpu, Attempt.taken)))
      /\ o' = Owned(v', Attempt.mem) /\ Attempt.exit = "no"
      => U!ARetire
  BY <1>2, <1>3, SameInstance, SameRegisters DEF U!ARetire
<1>6. ASSUME NEW mode \in {"handler", "thread"},
             v' = View(ResetAndPrefetch([Unview(v) EXCEPT !.mode = mode], o)),
             o' = Owned(v', o)
      PROVE  U!AReset
  <2>1. U!ResetContext(mode) = View(ResetAndPrefetch([Unview(v) EXCEPT !.mode = mode], o))
    BY SameInstance, SameRegisters DEF U!ResetContext
  <2> QED BY <1>6, <2>1, SameInstance DEF U!AReset, U!Modes
<1> QED BY <1>2, <1>3, <1>4, <1>5, <1>6 DEF U!ANext

\* The program's context is a processor; the outermost context that waits is
\* above the frame of the one interrupted last.
LEMMA Outermost ==
  ASSUME IInv, Nested, interrupted # <<>>
  PROVE  LET x == interrupted[Len(interrupted)]
         IN  /\ x \in CPU /\ x.gpr[GPR_SP] \in Int /\ ProgramContext = x
             /\ interrupted[1] \in CPU /\ EnterSP(interrupted[1]) \in Int
             /\ EnterSP(interrupted[1]) < x.gpr[GPR_SP]
<1> DEFINE n == Len(interrupted)
           x == interrupted[n]
           y == interrupted[1]
<1>1. interrupted \in Seq(CPU) /\ n \in Nat /\ 1 \in 1 .. n /\ n \in 1 .. n
  BY DEF IInv, TypeOK
<1>2. x \in CPU /\ y \in CPU /\ OnStack(x) /\ OnStack(y)
  BY <1>1 DEF Nested
<1>3. 1 < n => y.gpr[GPR_SP] <= EnterSP(x)
  BY <1>1 DEF Nested
<1>4. /\ x.gpr[GPR_SP] \in Int /\ EnterSP(x) = x.gpr[GPR_SP] - 32
      /\ y.gpr[GPR_SP] \in Int /\ EnterSP(y) = y.gpr[GPR_SP] - 32
  <2>1. /\ x.gpr[GPR_SP] \in Word /\ EnterSP(x) = x.gpr[GPR_SP] - 32
        /\ y.gpr[GPR_SP] \in Word /\ EnterSP(y) = y.gpr[GPR_SP] - 32
    BY <1>2, StackPointer
  <2> HIDE DEF x, y
  <2> QED BY <2>1, CpuAssumption DEF Word
<1>5. ProgramContext = x
  BY DEF ProgramContext
<1>6. n = 1 => x = y
  OBVIOUS
<1> HIDE DEF x, y
<1>7. EnterSP(y) < x.gpr[GPR_SP] /\ EnterSP(y) \in Int
  <2> DEFINE sx == x.gpr[GPR_SP]
             sy == y.gpr[GPR_SP]
  <2>1. sx \in Int /\ sy \in Int /\ EnterSP(y) = sy - 32 /\ EnterSP(x) = sx - 32
    BY <1>4
  <2>2. sy <= EnterSP(x) \/ sx = sy
    <3>1. n = 1 \/ 1 < n
      <4> HIDE DEF n
      <4> QED BY <1>1
    <3> QED BY <1>3, <1>6, <3>1
  <2> HIDE DEF sx, sy, n
  <2>3. EnterSP(y) < sx /\ EnterSP(y) \in Int
    BY <2>1, <2>2
  <2> QED BY <2>3 DEF sx
<1> QED BY <1>2, <1>4, <1>5, <1>7 DEF x, y

LEMMA ContextType == ASSUME IInv, Nested PROVE ProgramContext \in CPU
<1>1. CASE interrupted # <<>>
  BY <1>1, Outermost
<1>2. CASE interrupted = <<>>
  <2>1. cpu \in CPU /\ lastCPU \in CPU /\ WordMod \in Nat \ {0}
    BY CpuAssumption DEF IInv, TypeOK
  <2>2. cpu.gpr[GPR_PC] \in Int
    BY <2>1 DEF CPU, GPR, GPR_PC, Word
  <2>3. AdvancedPC(cpu, takenBranch) \in Word
    <3>1. cpu.gpr[GPR_PC] + 4 \in Int /\ cpu.gpr[GPR_PC] + 2 \in Int
      BY <2>2
    <3> QED BY <3>1, WrapWord DEF AdvancedPC
  <2>4. SetGpr(cpu, GPR_PC, AdvancedPC(cpu, takenBranch)) \in CPU
    BY <2>1, <2>3, SetGprType DEF GPR, GPR_PC
  <2> QED BY <1>2, <2>1, <2>4 DEF ProgramContext
<1> QED BY <1>1, <1>2

\* A change of words that are dead to the program is not seen.
LEMMA Unseen ==
  ASSUME ProgramContext' = ProgramContext,
         \A a \in MemWords : mem'[a] = mem[a] \/ a \in Dead(ProgramContext)
  PROVE  UNCHANGED Seen
<1>1. Owned(ProgramContext, mem') = Owned(ProgramContext, mem)
  BY OwnedSame
<1>2. Owned(ProgramContext, mem)' = Owned(ProgramContext', mem')
  BY DEF Owned, Dead
<1>3. View(ProgramContext)' = View(ProgramContext')
  BY DEF View
<1> QED BY <1>1, <1>2, <1>3 DEF Seen

LEMMA OwnedView == \A c, m : Owned(View(c), m) = Owned(c, m)
BY DEF Owned, Dead, View

\* An instruction of the program makes its stores visible; one of a handler
\* changes nothing the program can see.
LEMMA ExecutionMaps ==
  ASSUME IInv, StackDiscipline, TInv, exwbmem PROVE U!ANext \/ UNCHANGED Seen
<1> DEFINE d == Program[InsnAddr(cpu)]
           r == executeJumpTable(cpu, mem, d)
<1>1. /\ cpu \in CPU /\ mem \in Memory /\ interrupted \in Seq(CPU) /\ InsnAddr(cpu) \in Code
      /\ phase = "execute" /\ lastCPU = cpu /\ Nested
  BY DEF IInv, TypeOK, Fetched, exwbmem, Memory, TInv, FInv, BackedUp
<1>2. d \in DECODE_RESULT /\ Disciplined(cpu)
  BY <1>1, CpuAssumption DEF StackDiscipline
<1>3. /\ r.exit \in {"no", "reset"} /\ mem' = r.mem
      /\ UNCHANGED <<lastCPU, interrupted>> /\ phase' = "except"
  BY DEF exwbmem, Executed, Insn
<1>4. /\ r.exit = "no" /\ DoResetAddr \notin Writes(cpu, d)
      /\ interrupted # <<>> =>
           Writes(cpu, d) \subseteq
             HandlerWords \cup {a \in StackWords : a < EnterSP(interrupted[1])}
  BY <1>1, <1>2, <1>3, DisciplinedWrites
<1>5. \A a \in MemWords \ Writes(cpu, d) : r.mem[a] = mem[a]
  BY <1>1, <1>2, <1>4, Written
<1>6. CASE interrupted = <<>>
  <2>1. ProgramContext = cpu /\ ProgramContext' = cpu
    BY <1>1, <1>3, <1>6 DEF ProgramContext
  <2>2. OnStack(cpu) /\ ProgramKeeps(cpu, d)
    BY <1>2, <1>6 DEF Disciplined
  <2>3. /\ SameEnd(Attempt, r) /\ Owned(cpu, Attempt.mem) = Owned(cpu, r.mem)
    BY <1>1, <1>2, <1>4, <2>1, <2>2, AttemptAgrees DEF Attempt
  <2>4. View(ProgramContext)' = View(ProgramContext)
    BY <2>1 DEF View
  <2>5. Owned(ProgramContext, mem)' = Owned(ProgramContext', mem')
    BY DEF Owned, Dead
  <2> HIDE DEF r
  <2>6. Owned(ProgramContext, mem)' = Owned(View(ProgramContext), Attempt.mem)
    BY <1>3, <2>1, <2>3, <2>5, OwnedView
  <2>7. Attempt.exit = "no" /\ InsnAddr(ProgramContext) \in Code
    BY <1>1, <1>4, <2>1, <2>3 DEF SameEnd
  <2> QED BY <1>1, <2>1, <2>4, <2>6, <2>7, AbstractSteps
<1>7. CASE interrupted # <<>>
  <2> DEFINE x == interrupted[Len(interrupted)]
  <2>1. /\ ProgramContext = x /\ x.gpr[GPR_SP] \in Int
        /\ EnterSP(interrupted[1]) \in Int /\ EnterSP(interrupted[1]) < x.gpr[GPR_SP]
    BY <1>1, <1>7, Outermost
  <2>2. ProgramContext' = x
    BY <1>3, <1>7 DEF ProgramContext
  <2> HIDE DEF x, r
  <2>3. ASSUME NEW a \in MemWords, mem'[a] # mem[a] PROVE a \in Dead(x)
    <3>1. a \in HandlerWords \/ (a \in StackWords /\ a < EnterSP(interrupted[1]))
      BY <1>3, <1>4, <1>5, <1>7, <2>3
    <3> QED BY <2>1, <3>1, StackWord DEF Dead
  <2> QED BY <2>1, <2>2, <2>3, Unseen
<1> QED BY <1>6, <1>7

\* Entering a handler changes nothing the program can see.
LEMMA EntryMaps ==
  ASSUME IInv, TInv, check_except PROVE UNCHANGED Seen
<1>1. /\ lastCPU \in CPU /\ mem \in Memory /\ interrupted \in Seq(CPU) /\ phase = "except"
      /\ Nested /\ Disciplined(lastCPU) /\ OnStack(lastCPU)
      /\ UNCHANGED lastCPU
  BY DEF IInv, TypeOK, check_except, Memory, TInv, FInv, Kept, Disciplined
<1>2. CASE phase' = "exit1" /\ mem' = mem /\ interrupted' = interrupted /\ View(cpu') = View(lastCPU)
  <2>1. CASE interrupted = <<>>
    <3>1. ProgramContext = lastCPU /\ ProgramContext' = cpu'
      BY <1>1, <1>2, <2>1 DEF ProgramContext
    <3>2. Owned(ProgramContext, mem)' = Owned(ProgramContext', mem') /\ View(ProgramContext)' = View(ProgramContext')
      BY DEF Owned, Dead, View
    <3> QED BY <1>2, <3>1, <3>2, OwnedView DEF Seen
  <2>2. CASE interrupted # <<>>
    <3>1. ProgramContext' = ProgramContext
      BY <1>2, <2>2 DEF ProgramContext
    <3> QED BY <1>2, <3>1, Unseen
  <2> QED BY <2>1, <2>2
<1>3. CASE /\ phase' = "advance" /\ interrupted' = <<lastCPU>> \o interrupted
           /\ FrameSlots(EnterSP(lastCPU)) \subseteq MemWords
           /\ mem' = PushFrame(lastCPU, mem)
  <2>1. \A a \in MemWords : mem'[a] = mem[a] \/ (a \in StackWords /\ a < lastCPU.gpr[GPR_SP])
    BY <1>1, <1>3, EntersBelow
  <2>2. /\ Len(interrupted') = Len(interrupted) + 1 /\ interrupted'[1] = lastCPU
        /\ Len(interrupted) \in Nat
        /\ \A i \in 1 .. Len(interrupted') :
             i = 1 \/ (i - 1 \in 1 .. Len(interrupted) /\ interrupted'[i] = interrupted[i - 1])
    BY <1>1, <1>3, Pushed
  <2>3. interrupted' # <<>>
    BY <2>2
  <2>4. ProgramContext' = interrupted'[Len(interrupted')]
    BY <2>3 DEF ProgramContext
  <2>5. CASE interrupted = <<>>
    <3>1. Len(interrupted') = 1
      BY <2>2, <2>5
    <3>2. ProgramContext = lastCPU /\ ProgramContext' = lastCPU
      BY <1>1, <2>2, <2>4, <2>5, <3>1 DEF ProgramContext
    <3>3. \A a \in MemWords : mem'[a] = mem[a] \/ a \in Dead(lastCPU)
      BY <2>1 DEF Dead
    <3> QED BY <3>2, <3>3, Unseen
  <2>6. CASE interrupted # <<>>
    <3> DEFINE x == interrupted[Len(interrupted)]
    <3>1. /\ ProgramContext = x /\ x.gpr[GPR_SP] \in Int
          /\ EnterSP(interrupted[1]) \in Int /\ EnterSP(interrupted[1]) < x.gpr[GPR_SP]
      BY <1>1, <2>6, Outermost
    <3>2. ProgramContext' = x
      <4>1. Len(interrupted) # 0
        BY <1>1, <2>6
      <4>2. Len(interrupted') \in 1 .. Len(interrupted') /\ Len(interrupted') # 1
            /\ Len(interrupted') - 1 = Len(interrupted)
        BY <2>2, <4>1
      <4> QED BY <2>2, <2>4, <4>2
    <3>3. lastCPU.gpr[GPR_SP] <= EnterSP(interrupted[1]) /\ lastCPU.gpr[GPR_SP] \in Int
      <4>1. HandlerKeeps(lastCPU, Program[InsnAddr(lastCPU)], interrupted[1])
        BY <1>1, <2>6 DEF Disciplined
      <4>2. lastCPU.gpr[GPR_SP] \in Word
        BY <1>1, StackPointer
      <4> QED BY <4>1, <4>2 DEF HandlerKeeps, Word
    <3> HIDE DEF x
    <3>4. \A a \in MemWords : mem'[a] = mem[a] \/ a \in Dead(x)
      <4> TAKE a \in MemWords
      <4>1. CASE a \in StackWords /\ a < lastCPU.gpr[GPR_SP]
        <5>1. a \in Int
          BY <4>1, StackWord
        <5> QED BY <3>1, <3>3, <4>1, <5>1 DEF Dead
      <4> QED BY <2>1, <4>1
    <3> QED BY <3>1, <3>2, <3>4, Unseen
  <2> QED BY <2>5, <2>6
<1> QED BY <1>2, <1>3, Entered

\* Retiring an instruction of the program is its step; retiring one of a
\* handler, the return of the outermost one too, is none.
LEMMA RetireMaps ==
  ASSUME IInv, TInv, Retire PROVE U!ANext \/ UNCHANGED Seen
<1> DEFINE r == executeJumpTable(lastCPU, mem, Retired)
<1>1. /\ phase = "except" /\ phase' = "advance" /\ cpu \in CPU /\ lastCPU \in CPU
      /\ mem \in Memory /\ interrupted \in Seq(CPU) /\ Len(interrupted) \in Nat
      /\ Nested /\ Disciplined(lastCPU) /\ OnStack(lastCPU)
      /\ UNCHANGED <<cpu, lastCPU, takenBranch, mem>>
  BY DEF IInv, TypeOK, Retire, Memory, TInv, FInv, Kept, Disciplined
<1>2. /\ InsnAddr(lastCPU) \in Code /\ r.exit = "no" /\ r.taken = takenBranch
      /\ r.mem = mem /\ View(r.cpu) = View(cpu)
  BY <1>1 DEF TInv, Ran
<1>3. Retired \in DECODE_RESULT /\ r.cpu \in CPU
  <2>1. Retired \in DECODE_RESULT
    BY <1>2, CpuAssumption DEF Retired
  <2> QED BY <1>1, <2>1, InstructionHandled DEF Handled, Outcomes
<1>4. interrupted' = IF Returned /\ interrupted # <<>> THEN Tail(interrupted) ELSE interrupted
  BY <1>2 DEF Retire, WasReset
<1>5. /\ View(ProgramContext)' = View(ProgramContext')
      /\ Owned(ProgramContext, mem)' = Owned(ProgramContext', mem')
  BY DEF View, Owned, Dead
<1>6. interrupted' = <<>> =>
        ProgramContext' = SetGpr(cpu, GPR_PC, AdvancedPC(cpu, takenBranch))
  <2>1. interrupted' = <<>> =>
          ProgramContext' = SetGpr(cpu', GPR_PC, AdvancedPC(cpu', takenBranch'))
    BY <1>1 DEF ProgramContext, SetGpr, AdvancedPC, GPR_PC
  <2> QED BY <1>1, <2>1
<1>7. CASE interrupted = <<>>
  <2>1. ProgramContext = lastCPU
    BY <1>1, <1>7 DEF ProgramContext
  <2>2. ProgramKeeps(lastCPU, Retired)
    BY <1>1, <1>7 DEF Disciplined, Retired
  <2>3. /\ SameEnd(Attempt, r) /\ Unview(View(lastCPU)) \in CPU /\ Owned(lastCPU, mem) \in Memory
        /\ \A x : x.gpr[GPR_SP] = r.cpu.gpr[GPR_SP] => Owned(x, Attempt.mem) = Owned(x, r.mem)
    BY <1>1, <1>2, <1>3, <2>1, <2>2, AttemptAgrees DEF Attempt, Retired
  <2>4. Attempt.cpu \in CPU
    BY <1>3, <2>1, <2>3, InstructionHandled DEF Handled, Outcomes, Attempt, Retired
  <2>5. /\ Attempt.exit = "no" /\ Attempt.taken = takenBranch
        /\ View(Attempt.cpu) = View(cpu) /\ Attempt.cpu.gpr = cpu.gpr
    <3> HIDE DEF r
    <3>1. Attempt.exit = "no" /\ Attempt.taken = takenBranch /\ View(Attempt.cpu) = View(cpu)
      BY <1>2, <2>3 DEF SameEnd
    <3> QED BY <1>1, <2>4, <3>1, ViewsAgree
  <2>6. View(ProgramContext)' =
          View(SetGpr(Attempt.cpu, GPR_PC, AdvancedPC(Attempt.cpu, Attempt.taken)))
    <3>1. AdvancedPC(Attempt.cpu, Attempt.taken) = AdvancedPC(cpu, takenBranch)
      BY <2>5 DEF AdvancedPC
    <3>2. \A x : View(SetGpr(Attempt.cpu, GPR_PC, x)) = View(SetGpr(cpu, GPR_PC, x))
      BY <1>1, <2>4, <2>5, ViewsAgree
    <3> QED BY <1>4, <1>5, <1>6, <1>7, <3>1, <3>2
  <2>7. Owned(ProgramContext, mem)' = Owned(View(ProgramContext)', Attempt.mem)
    <3> DEFINE x == SetGpr(cpu, GPR_PC, AdvancedPC(cpu, takenBranch))
    <3>1. x.gpr[GPR_SP] = cpu.gpr[GPR_SP]
      BY <1>1 DEF SetGpr, CPU, GPR, GPR_SP, GPR_PC
    <3>2. r.cpu.gpr = cpu.gpr
      BY <1>1, <1>2, <1>3, ViewsAgree
    <3> HIDE DEF x, r
    <3>3. Owned(x, Attempt.mem) = Owned(x, mem)
      BY <1>2, <2>3, <3>1, <3>2
    <3>4. ProgramContext' = x
      BY <1>4, <1>6, <1>7 DEF x
    <3> QED BY <1>1, <1>5, <3>3, <3>4, OwnedView
  <2> QED BY <1>1, <1>2, <2>1, <2>5, <2>6, <2>7, AbstractSteps
<1>8. CASE interrupted # <<>> /\ ~(Returned /\ Len(interrupted) = 1)
  <2> DEFINE x == interrupted[Len(interrupted)]
  <2>1. ProgramContext = x
    BY <1>1, <1>8, Outermost
  <2>2. interrupted' # <<>> /\ interrupted'[Len(interrupted')] = x
    <3>1. CASE ~Returned
      BY <1>4, <1>8, <3>1
    <3>2. CASE Returned
      <4>1. interrupted' = Tail(interrupted) /\ Len(interrupted) # 1 /\ Len(interrupted) # 0
        BY <1>1, <1>4, <1>8, <3>2
      <4>2. /\ Len(interrupted') = Len(interrupted) - 1
            /\ \A i \in 1 .. Len(interrupted') : interrupted'[i] = interrupted[i + 1]
        BY <1>1, <4>1
      <4>3. Len(interrupted') \in 1 .. Len(interrupted') /\ Len(interrupted') + 1 = Len(interrupted)
        BY <1>1, <4>1, <4>2
      <4> QED BY <4>2, <4>3
    <3> QED BY <3>1, <3>2
  <2>3. ProgramContext' = x
    BY <2>2 DEF ProgramContext
  <2> QED BY <1>1, <2>1, <2>3, Unseen
<1>9. CASE interrupted # <<>> /\ Returned /\ Len(interrupted) = 1
  <2> DEFINE from == interrupted[1]
             e    == except_exit(lastCPU, mem, ExcReturn(from))
  <2>1. ProgramContext = from /\ from \in CPU
    BY <1>1, <1>9, Outermost
  <2>2. interrupted' = <<>>
    <3>1. interrupted' = Tail(interrupted) /\ Len(interrupted') = 0
      BY <1>1, <1>4, <1>9
    <3> QED BY <1>1, <3>1
  <2>3. /\ Retired.op = "bx" /\ lastCPU.gpr[Retired.rM] = ExcReturn(from)
        /\ lastCPU.gpr[GPR_SP] = EnterSP(from)
        /\ \A q \in 4 .. 11 : lastCPU.gpr[q] = from.gpr[q]
    BY <1>1, <1>9 DEF Disciplined, HandlerKeeps, Returns, Returned, Retired
  <2>4. r = e /\ IsExcReturn(ExcReturn(from))
    <3>1. IsExcReturn(ExcReturn(from))
      BY <1>9, <2>3 DEF Returned
    <3>2. r = bx(lastCPU, mem, Retired)
      BY <2>3 DEF executeJumpTable
    <3>3. bx(lastCPU, mem, Retired) =
            IF lastCPU.gpr[Retired.rM] % 2 = 0 THEN Exits(lastCPU, mem, "exit1")
            ELSE IF IsExcReturn(lastCPU.gpr[Retired.rM])
                 THEN except_exit(lastCPU, mem, lastCPU.gpr[Retired.rM])
            ELSE Outcome(SetGpr(lastCPU, GPR_PC, lastCPU.gpr[Retired.rM]), mem, 2, TRUE)
      BY Zenon DEF bx
    <3> HIDE DEF r
    <3>4. r # Exits(lastCPU, mem, "exit1")
      BY <1>2 DEF Exits
    <3> QED BY <2>3, <3>1, <3>2, <3>3, <3>4
  <2>5. Clean(from) /\ \A k \in 0 .. 7 : mem[FrameSlot(EnterSP(from), k)] = FrameWord(from, k)
    BY <1>9 DEF TInv, FInv, AllClean, FramesIntact
  <2>6. e.exit = "no" /\ e.taken = TRUE
    <3>1. e = Exits(lastCPU, mem, "exit1") \/ e.taken = TRUE
      BY DEF except_exit, Outcome
    <3> HIDE DEF e, r
    <3> QED BY <1>2, <2>4, <3>1 DEF Exits
  <2>7. View(SetGpr(e.cpu, GPR_PC, AdvancedPC(e.cpu, TRUE))) = View(from)
    BY <1>1, <2>1, <2>3, <2>5, <2>6, ReturnsTo
  <2>8. View(SetGpr(cpu, GPR_PC, AdvancedPC(cpu, takenBranch))) = View(from)
    <3> HIDE DEF e, r
    <3>1. takenBranch = TRUE /\ e.cpu \in CPU /\ View(e.cpu) = View(cpu)
      BY <1>2, <1>3, <2>4, <2>6
    <3>2. /\ e.cpu.gpr = cpu.gpr
          /\ \A q, x : View(SetGpr(e.cpu, q, x)) = View(SetGpr(cpu, q, x))
      BY <1>1, <3>1, ViewsAgree
    <3>3. AdvancedPC(cpu, takenBranch) = AdvancedPC(e.cpu, TRUE)
      BY <3>1, <3>2 DEF AdvancedPC
    <3> QED BY <2>7, <3>2, <3>3
  <2>9. View(ProgramContext') = View(ProgramContext)
    BY <1>6, <2>1, <2>2, <2>8
  <2> HIDE DEF from, e, r
  <2>10. Owned(ProgramContext', mem) = Owned(ProgramContext, mem)
    BY <2>9, OwnedView
  <2> QED BY <1>1, <1>5, <2>9, <2>10 DEF Seen
<1> QED BY <1>1, <1>7, <1>8, <1>9

\* A reset keeps nothing of the processor but its mode.
LEMMA ResetSame ==
  ASSUME NEW c, NEW x, NEW m, NEW n, c.mode = x.mode, m[0] = n[0], m[4] = n[4]
  PROVE  ResetAndPrefetch(c, m) = ResetAndPrefetch(x, n)
BY DEF ResetAndPrefetch, cpu_reset

\* The debugger's reset is the program's: every word of the stack is dead
\* after it, and the vectors never are.
LEMMA ResetMaps ==
  ASSUME IInv, TInv, sim_command PROVE U!ANext
<1> DEFINE c == ProgramContext
           o == Owned(ProgramContext, mem)
           x == [Unview(View(c)) EXCEPT !.mode = cpu.mode]
           e == ResetAndPrefetch(cpu, mem)
<1>1. /\ cpu \in CPU /\ mem \in Memory /\ c \in CPU /\ mem[0] = FlashInit[0]
      /\ cpu.mode \in {"handler", "thread"}
  BY ContextType DEF IInv, TypeOK, Memory, TInv, FInv, Vector, CPU
<1>2. mem' = mem /\ cpu' = e /\ interrupted' = <<>> /\ phase' \in {"exit1", "fetch"}
  BY DEF sim_command, Command
<1>3. ProgramContext' = e
  BY <1>2 DEF ProgramContext
<1>4. o[0] = mem[0] /\ o[4] = mem[4]
  <2>1. 0 \notin Dead(c) /\ 4 \notin Dead(c)
    BY StackWord, RefinementAssumption DEF Dead
  <2> QED BY <2>1, CpuAssumption DEF Owned
<1>5. x.mode = cpu.mode
  BY DEF Unview
<1> HIDE DEF x
<1>6. ResetAndPrefetch(x, o) = e
  BY <1>4, <1>5, ResetSame
<1>7. e.gpr[GPR_SP] = WordAddr(FlashInit[0])
  BY <1>1 DEF ResetAndPrefetch, cpu_reset, Zero16, GPR, GPR_SP, GPR_PC
<1>8. Owned(e, o) = Owned(e, mem)
  <2> HIDE DEF e, c
  <2>1. ASSUME NEW a \in MemWords \ Dead(e) PROVE o[a] = mem[a]
    <3>1. a \notin HandlerWords /\ a \notin StackWords
      BY <1>7, <2>1, RefinementAssumption DEF Dead
    <3> QED BY <3>1 DEF Owned, Dead
  <2> QED BY <2>1, OwnedSame
<1>9. View(ProgramContext)' = View(e) /\ Owned(ProgramContext, mem)' = Owned(e, mem)
  <2> HIDE DEF e
  <2>1. /\ View(ProgramContext)' = View(ProgramContext')
        /\ Owned(ProgramContext, mem)' = Owned(ProgramContext', mem')
    BY DEF View, Owned, Dead
  <2> QED BY <1>2, <1>3, <2>1
<1> HIDE DEF e
<1>10. Owned(ProgramContext, mem)' = Owned(View(ProgramContext)', o)
  BY <1>8, <1>9, OwnedView
<1>11. \E mode \in {"handler", "thread"} :
         View(ProgramContext)' =
           View(ResetAndPrefetch([Unview(View(c)) EXCEPT !.mode = mode], o))
  BY <1>1, <1>6, <1>9 DEF x
<1> QED BY <1>1, <1>10, <1>11, AbstractSteps

LEMMA InitMaps == Init => U!AInit
<1> SUFFICES ASSUME Init PROVE U!AInit
  OBVIOUS
<1> DEFINE zero == [gpr |-> Zero16, apsr |-> 0, mode |-> "handler", stack |-> "main"]
<1>1. cpu = ResetAndPrefetch(StaticCPU, FlashInit) /\ mem = FlashInit /\ ProgramContext = cpu
  BY DEF Init, ProgramContext
<1>2. StaticCPU.mode = Unview(zero).mode
  BY DEF StaticCPU, Unview
<1> HIDE DEF zero
<1>3. ProgramContext = ResetAndPrefetch(Unview(zero), FlashInit)
  BY <1>1, <1>2, ResetSame
<1>4. View(ProgramContext) = U!View(U!ResetAndPrefetch(U!Unview(zero), FlashInit))
  BY <1>3, SameInstance, SameRegisters
<1>5. Owned(ProgramContext, mem) = U!Owned(View(ProgramContext), FlashInit)
  BY <1>1, OwnedView, SameInstance
<1>6. zero = [gpr |-> U!Zero16, apsr |-> 0, mode |-> "handler", stack |-> "main"]
  BY SameWords DEF zero
<1> QED BY <1>4, <1>5, <1>6 DEF U!AInit, U!Modes

LEMMA StepMaps ==
  ASSUME IInv, StackDiscipline, TInv, [Next]_vars PROVE U!ANext \/ UNCHANGED Seen
<1>1. CASE Fetch
  <2>1. /\ phase = "fetch" /\ phase' \in {"execute", "exit1"}
        /\ UNCHANGED <<cpu, mem, interrupted>>
    BY <1>1 DEF Fetch
  <2>2. ProgramContext' = ProgramContext
    BY <2>1 DEF ProgramContext
  <2> QED BY <2>1, <2>2, Unseen
<1>2. CASE exwbmem
  BY <1>2, ExecutionMaps
<1>3. CASE sim_exit
  <2>1. /\ phase = "execute" /\ phase' \in {"exit0", "exit1"}
        /\ UNCHANGED <<cpu, mem, interrupted>>
    BY <1>3 DEF sim_exit
  <2>2. ProgramContext' = ProgramContext
    BY <2>1 DEF ProgramContext
  <2> QED BY <2>1, <2>2, Unseen
<1>4. CASE check_except
  BY <1>4, EntryMaps
<1>5. CASE Retire
  BY <1>5, RetireMaps
<1>6. CASE Advance
  <2>1. ~Untagged /\ phase = "advance"
    BY <1>6 DEF TInv, Tagged, Untagged, Advance
  <2>2. /\ phase' = "fetch" /\ UNCHANGED <<mem, interrupted>>
        /\ cpu' = SetGpr(cpu, GPR_PC, AdvancedPC(cpu, takenBranch))
    BY <1>6, <2>1 DEF Advance
  <2>3. ProgramContext' = ProgramContext
    BY <2>1, <2>2 DEF ProgramContext
  <2> QED BY <2>2, <2>3, Unseen
<1>7. CASE sim_command
  BY <1>7, ResetMaps
<1>8. CASE \E s \in Seeds : DebugWriteSeed(s)
  <2>1. phase = "fetch" /\ UNCHANGED <<phase, cpu, mem, interrupted>>
    BY <1>8 DEF DebugWriteSeed, Command
  <2>2. ProgramContext' = ProgramContext
    BY <2>1 DEF ProgramContext
  <2> QED BY <2>1, <2>2, Unseen
<1>9. CASE UNCHANGED vars
  <2>1. ProgramContext' = ProgramContext /\ mem' = mem
    BY <1>9 DEF vars, ProgramContext, SetGpr, AdvancedPC
  <2> QED BY <2>1, Unseen
<1> QED BY <1>1, <1>2, <1>3, <1>4, <1>5, <1>6, <1>7, <1>8, <1>9 DEF Next, Step, Debug

\* Every watchdog exception is transparent to the program, wherever the
\* watchdog strikes and however deep handlers interrupt handlers, if only
\* the program and its handler keep the stack discipline.
THEOREM ExceptionsAreTransparent == Spec /\ []StackDiscipline => Transparent
<1>1. Init => TInv /\ U!AInit
  BY TInvInit, InitMaps
<1>2. IInv /\ StackDiscipline /\ TInv /\ [Next]_vars => TInv'
  BY TInvStep
<1>3. IInv /\ StackDiscipline /\ TInv /\ [Next]_vars
        => [U!ANext]_<<View(ProgramContext), Owned(ProgramContext, mem)>>
  BY StepMaps DEF Seen
<1> QED BY <1>1, <1>2, <1>3, Invariance, PTL DEF Spec, Transparent, U!ASpec

=============================================================================
