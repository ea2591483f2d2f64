------------------------------ MODULE MemBus ------------------------------
(***************************************************************************)
(* The loads and stores of exmemwb_mem.c over the data side of the memory  *)
(* bus, simLoadData and simStoreData of sim_support.c: words of flash and  *)
(* RAM and the UART.  The bus moves whole words and ignores the two low    *)
(* bits of an address (MEM_CHECKS is 0), so the shorter loads select a     *)
(* lane of a word and the shorter stores read, modify and write one.       *)
(*                                                                         *)
(* push and pop, which move the stack pointer, are operators of Cpu, the   *)
(* watchpoint a store may hit is in RspServer, and SysTick and the         *)
(* memory-mapped words lie outside the addresses here.                     *)
(* A byte has ByteMod values, 256 in the code, and a word is four bytes.   *)
(***************************************************************************)
EXTENDS Integers, FiniteSets

CONSTANTS
  ByteMod, FLASH_SIZE, RAM_START, RAM_SIZE, UART,
  Low,      \* r0 .. r7, as far as they are modelled
  SP, PC,   \* the stack pointer and the (prefetching) PC, which stay put here
  MaxImm,   \* the largest immediate offset before it is scaled
  InitialWords, MaxSteps  \* bounds: what memory holds at first, instructions run

VARIABLES gpr, mem, exited, steps
vars == <<gpr, mem, exited, steps>>

WordMod == ByteMod * ByteMod * ByteMod * ByteMod
Word    == 0 .. WordMod - 1
Wrap(x) == x % WordMod
WordAddr(a) == a - (a % 4)      \* effectiveAddressWordAligned

Flash  == 0 .. FLASH_SIZE - 1
Ram    == RAM_START .. RAM_START + RAM_SIZE - 1
Memory == Flash \cup Ram
Words  == {a \in Memory : a % 4 = 0}

ASSUME MemBusAssumption ==
  /\ ByteMod \in {2, 4, 16, 256}
  /\ {FLASH_SIZE, RAM_START, RAM_SIZE, UART} \subseteq {a \in Word : a % 4 = 0}
  /\ FLASH_SIZE <= RAM_START /\ RAM_START + RAM_SIZE <= UART
  /\ Low \subseteq 0 .. 7
  /\ \A r \in Low : 4 * r < WordMod  \* a register list does not wrap onto itself
  /\ {SP, PC} \subseteq Word
  /\ MaxImm \in Nat /\ MaxSteps \in Nat
  /\ InitialWords \subseteq Word

-----------------------------------------------------------------------------
\* simLoadData_internal: an address that is none of these ends the simulation.
Readable(a) == a \in Memory \cup {UART}
simLoadData(a) == IF a = UART THEN 0 ELSE mem[WordAddr(a)]

\* simStoreData, for the words of put, a function from addresses to words.
Writable(a) == a \in Memory \cup {UART}
simStoreData(put) ==
  mem' = [w \in Words |->
            LET hits == {a \in DOMAIN put : a # UART /\ WordAddr(a) = w}
            IN IF hits = {} THEN mem[w] ELSE put[CHOOSE a \in hits : TRUE]]

\* How the simulation ended is the message it printed.
sim_exit(why) == exited' = why /\ UNCHANGED <<gpr, mem>>

\* The value of the lowest byte of lane k, and of the lowest two.
Weight(k) == CASE k = 0 -> 1
               [] k = 1 -> ByteMod
               [] k = 2 -> ByteMod * ByteMod
               [] OTHER -> ByteMod * ByteMod * ByteMod
SelectByte(w, ea) == (w \div Weight(ea % 4)) % ByteMod
SelectHalf(w, ea) == (w \div Weight(IF ea % 4 >= 2 THEN 2 ELSE 0)) % Weight(2)

\* Mutants: clears the lanes below the byte; forgets "& 0xFF" on the data.
MergeByteLow(w, ea, data) ==
  w - (w % (ByteMod * Weight(ea % 4))) + (data % ByteMod) * Weight(ea % 4)
MergeByteWide(w, ea, data) ==
  w - SelectByte(w, ea) * Weight(ea % 4) + data * Weight(ea % 4)

MergeByte(w, ea, data) ==
  w - SelectByte(w, ea) * Weight(ea % 4) + (data % ByteMod) * Weight(ea % 4)
MergeHalf(w, ea, data) ==
  LET lane == Weight(IF ea % 4 >= 2 THEN 2 ELSE 0)
  IN w - SelectHalf(w, ea) * lane + (data % Weight(2)) * lane

signExtend32(v, modulus) == IF v >= modulus \div 2 THEN WordMod - modulus + v ELSE v

-----------------------------------------------------------------------------
(***************************************************************************)
(* The effective addresses: base register and scaled immediate, two        *)
(* registers, SP, and the PC without its two low bits.                     *)
(***************************************************************************)
Imm == 0 .. MaxImm
EA_i(rN, imm, scale) == Wrap(gpr[rN] + scale * imm)
EA_r(rN, rM)         == Wrap(gpr[rN] + gpr[rM])
EA_sp(imm)           == Wrap(SP + 4 * imm)
EA_lit(imm)          == Wrap(WordAddr(PC) + 4 * imm)

Loaded(rD, a, value) ==
  IF Readable(a) THEN gpr' = [gpr EXCEPT ![rD] = value] /\ UNCHANGED <<mem, exited>>
                 ELSE sim_exit("range")

Stored(a, value) ==
  IF Writable(a) THEN simStoreData([x \in {a} |-> value]) /\ UNCHANGED <<gpr, exited>>
                 ELSE sim_exit("range")

ldr(rD, ea)   == Loaded(rD, ea, simLoadData(ea))
ldrb(rD, ea)  == Loaded(rD, WordAddr(ea), SelectByte(simLoadData(WordAddr(ea)), ea))
ldrh(rD, ea)  == Loaded(rD, WordAddr(ea), SelectHalf(simLoadData(WordAddr(ea)), ea))
ldrsb(rD, ea) ==
  Loaded(rD, WordAddr(ea),
         signExtend32(SelectByte(simLoadData(WordAddr(ea)), ea), ByteMod))
ldrsh(rD, ea) ==
  Loaded(rD, WordAddr(ea),
         signExtend32(SelectHalf(simLoadData(WordAddr(ea)), ea), Weight(2)))
str(rD, ea)   == Stored(ea, gpr[rD])
strb(rD, ea)  ==
  IF Readable(WordAddr(ea))
  THEN Stored(WordAddr(ea), MergeByte(simLoadData(WordAddr(ea)), ea, gpr[rD]))
  ELSE sim_exit("range")
strh(rD, ea)  ==
  IF Readable(WordAddr(ea))
  THEN Stored(WordAddr(ea), MergeHalf(simLoadData(WordAddr(ea)), ea, gpr[rD]))
  ELSE sim_exit("range")

ldr_i(rD, rN, imm)  == ldr(rD, EA_i(rN, imm, 4))
ldr_sp(rD, imm)     == ldr(rD, EA_sp(imm))
ldr_lit(rD, imm)    == ldr(rD, EA_lit(imm))
ldr_r(rD, rN, rM)   == ldr(rD, EA_r(rN, rM))
ldrb_i(rD, rN, imm) == ldrb(rD, EA_i(rN, imm, 1))
ldrb_r(rD, rN, rM)  == ldrb(rD, EA_r(rN, rM))
ldrh_i(rD, rN, imm) == ldrh(rD, EA_i(rN, imm, 2))
ldrh_r(rD, rN, rM)  == ldrh(rD, EA_r(rN, rM))
ldrsb_r(rD, rN, rM) == ldrsb(rD, EA_r(rN, rM))
ldrsh_r(rD, rN, rM) == ldrsh(rD, EA_r(rN, rM))
str_i(rD, rN, imm)  == str(rD, EA_i(rN, imm, 4))
str_sp(rD, imm)     == str(rD, EA_sp(imm))
str_r(rD, rN, rM)   == str(rD, EA_r(rN, rM))
strb_i(rD, rN, imm) == strb(rD, EA_i(rN, imm, 1))
strb_r(rD, rN, rM)  == strb(rD, EA_r(rN, rM))
strh_i(rD, rN, imm) == strh(rD, EA_i(rN, imm, 2))
strh_r(rD, rN, rM)  == strh(rD, EA_r(rN, rM))

(***************************************************************************)
(* The block transfers walk the list upwards, one word at a time.  ldm     *)
(* writes its base back unless it was loaded; stm always does, and refuses *)
(* a list that starts with its base.                                       *)
(***************************************************************************)
Slot(base, list, r) == Wrap(base + 4 * Cardinality({q \in list : q < r}))
After(base, list)   == Wrap(base + 4 * Cardinality(list))

ldm(rN, list) ==
  IF \A r \in list : Readable(Slot(gpr[rN], list, r))
  THEN /\ gpr' = [r \in Low |->
                    CASE r \in list               -> simLoadData(Slot(gpr[rN], list, r))
                      [] r = rN /\ rN \notin list -> After(gpr[rN], list)
                      [] OTHER                    -> gpr[r]]
       /\ UNCHANGED <<mem, exited>>
  ELSE sim_exit("range")

Malformed(rN, list) == rN \in list /\ \A q \in list : q >= rN

stm(rN, list) ==
  IF Malformed(rN, list) THEN sim_exit("malformed")
  ELSE IF \A r \in list : Writable(Slot(gpr[rN], list, r))
  THEN /\ simStoreData([a \in {Slot(gpr[rN], list, r) : r \in list} |->
                          gpr[CHOOSE r \in list : Slot(gpr[rN], list, r) = a]])
       /\ gpr' = [gpr EXCEPT ![rN] = After(@, list)]
       /\ UNCHANGED exited
  ELSE sim_exit("range")

-----------------------------------------------------------------------------
\* Earlier instructions have left any values in the registers.
Init ==
  /\ gpr \in [Low -> Word]
  /\ mem \in [Words -> InitialWords]
  /\ exited = "no"
  /\ steps = 0

ImmediateForm ==
  \E rD, rN \in Low, imm \in Imm :
    \/ ldr_i(rD, rN, imm) \/ ldrb_i(rD, rN, imm) \/ ldrh_i(rD, rN, imm)
    \/ str_i(rD, rN, imm) \/ strb_i(rD, rN, imm) \/ strh_i(rD, rN, imm)

RegisterForm ==
  \E rD, rN, rM \in Low :
    \/ ldr_r(rD, rN, rM)   \/ ldrb_r(rD, rN, rM)  \/ ldrh_r(rD, rN, rM)
    \/ ldrsb_r(rD, rN, rM) \/ ldrsh_r(rD, rN, rM)
    \/ str_r(rD, rN, rM)   \/ strb_r(rD, rN, rM)  \/ strh_r(rD, rN, rM)

RelativeForm ==
  \E rD \in Low, imm \in Imm : ldr_sp(rD, imm) \/ ldr_lit(rD, imm) \/ str_sp(rD, imm)

BlockForm == \E rN \in Low, list \in SUBSET Low : ldm(rN, list) \/ stm(rN, list)

Next ==
  /\ exited = "no" /\ steps < MaxSteps
  /\ steps' = steps + 1
  /\ ImmediateForm \/ RegisterForm \/ RelativeForm \/ BlockForm
Spec == Init /\ [][Next]_vars

-----------------------------------------------------------------------------
\* Registers and memory hold words: no merge or extension leaves the width.
TypeOK ==
  /\ gpr \in [Low -> Word]
  /\ mem \in [Words -> Word]
  /\ exited \in {"no", "range", "malformed"}
  /\ steps \in 0 .. MaxSteps

\* The words of the bus, read as bytes, are the little-endian byte memory a
\* program expects: no lane is misplaced, no neighbour of a byte, halfword or
\* block that is stored changes, and no base register is written wrongly.
Bytes == INSTANCE ByteMemory
           WITH bytes <- [x \in Memory |-> (mem[WordAddr(x)] \div Weight(x % 4)) % ByteMod]
ActsAsBytes == Bytes!Spec
============================================================================
