----------------------------- MODULE AluProofs -----------------------------
(***************************************************************************)
(* Theorems about Alu, for every width of a word.                          *)
(*                                                                         *)
(* The flags: carry and overflow are those of exact sums, the conditions   *)
(* of b_c order the numbers that were compared, and adcs and sbcs are      *)
(* exact over two words.  The invariant is FlagInv: it adds to the         *)
(* properties what the flags of a comparison are made of.  Four lemmas     *)
(* follow the four ways a handler ends (Sum, Logical, Shift, Copy); every  *)
(* instruction is an instance of one.                                      *)
(*                                                                         *)
(* The results: what the shifts, the logical instructions, the extensions  *)
(* and the byte reversals leave is what arithmetic says.  The handlers are *)
(* modelled by the positions of the ones of a word, the properties speak   *)
(* of numbers.  The two meet in the bits of a number, BitAt: words with    *)
(* the same ones are the same word (SameOnes), sums of bits without a      *)
(* carry are sums of words (WordSums), and n single shifts move the ones   *)
(* as one shift by n does (Runs).  ShiftLaws and ResultLaws state the two  *)
(* properties one instruction at a time, and are inductive beside FlagInv. *)
(***************************************************************************)
EXTENDS Alu, WellFoundedInduction, TLAPS

Dests == Regs \cup {NoReg}

HistoryType == sum \in [unsigned : 0 .. 2 * WordMod - 1, signed : Int]

\* As long as a comparison stands, the flags are those of its subtraction.
ComparisonStands ==
  compared.valid =>
    /\ sum.unsigned = compared.a + Not(compared.b) + 1
    /\ sum.signed = Signed(compared.a) + Signed(Not(compared.b)) + 1
    /\ flags.N <=> Neg(Wrap(compared.a + Not(compared.b) + 1))
    /\ flags.Z <=> Wrap(compared.a + Not(compared.b) + 1) = 0

FlagInv == TypeOK /\ HistoryType /\ CarryAndOverflowAreTrue /\ ComparisonStands

-----------------------------------------------------------------------------
(***************************************************************************)
(* The arithmetic of one word.                                             *)
(***************************************************************************)

\* A word is two halves, and wrapping stays inside it.
LEMMA Halves == Half \in Nat \ {0} /\ WordMod = 2 * Half /\ WordMod \in Nat
<1>1. WordMod \in Nat /\ WordMod >= 2 /\ WordMod % 2 = 0
  BY AluAssumption
<1> QED BY <1>1 DEF Half

LEMMA WrapType == \A x \in Int : Wrap(x) \in Word
BY Halves DEF Wrap, Word

\* Wrapping takes WordMod off once, if the number reaches it.
LEMMA WrapOnce ==
  \A x \in 0 .. 2 * WordMod - 1 : Wrap(x) = IF x >= WordMod THEN x - WordMod ELSE x
<1>1. SUFFICES ASSUME NEW x \in 0 .. 2 * WordMod - 1
               PROVE  x % WordMod = IF x >= WordMod THEN x - WordMod ELSE x
  BY DEF Wrap
<1>2. WordMod \in Nat \ {0} BY Halves
<1>3. CASE x >= WordMod
  <2>1. x - WordMod \in 0 .. WordMod - 1 BY <1>2, <1>3
  <2>2. x = (x - WordMod) + 1 * WordMod BY <1>2
  <2> QED BY <1>2, <1>3, <2>1, <2>2
<1>4. CASE x < WordMod BY <1>2, <1>4
<1> QED BY <1>2, <1>3, <1>4

\* The wrapped sum of two words and a carry is off by WordMod or not at all.
LEMMA WrapSum ==
  ASSUME NEW a \in Word, NEW b \in Word, NEW carry \in {0, 1}
  PROVE  Wrap(a + b + carry) =
           IF a + b + carry >= WordMod THEN a + b + carry - WordMod ELSE a + b + carry
<1>1. a + b + carry \in 0 .. 2 * WordMod - 1
  BY Halves DEF Word
<1>2. a \in Int /\ b \in Int /\ carry \in Int /\ WordMod \in Int
  BY Halves DEF Word
<1> QED BY <1>1, <1>2, WrapOnce

\* do_cflag finds the carry out of the whole addition (exmemwb.c:22).
LEMMA CarryOut ==
  ASSUME NEW a \in Word, NEW b \in Word, NEW carry \in {0, 1}
  PROVE  do_cflag(a, b, carry) <=> a + b + carry >= WordMod
<1> DEFINE low(x) == IF x >= Half THEN x - Half ELSE x
           top(x) == IF x >= Half THEN 1 ELSE 0
<1>1. ASSUME NEW x \in 0 .. 2 * Half - 1
      PROVE  x % Half = low(x) /\ x \div Half = top(x)
  <2>1. Half \in Nat \ {0} BY Halves
  <2> QED BY <2>1
<1>2. a \in 0 .. 2 * Half - 1 /\ b \in 0 .. 2 * Half - 1
  BY Halves DEF Word
<1>3. a % Half = low(a) /\ a \div Half = top(a) /\ b % Half = low(b) /\ b \div Half = top(b)
  BY <1>1, <1>2
<1>4. low(a) + low(b) + carry \in 0 .. 2 * Half - 1
  BY <1>2, Halves
<1>5. (low(a) + low(b) + carry) \div Half = top(low(a) + low(b) + carry)
  BY <1>1, <1>4
<1>6. ASSUME NEW n \in 0 .. 3 PROVE (n \div 2) % 2 = 1 <=> n >= 2
  OBVIOUS
<1>7. top(low(a) + low(b) + carry) + top(a) + top(b) \in 0 .. 3
  OBVIOUS
<1>8. do_cflag(a, b, carry) <=> top(low(a) + low(b) + carry) + top(a) + top(b) >= 2
  BY <1>3, <1>5, <1>6, <1>7 DEF do_cflag
<1> QED BY <1>2, <1>8, Halves

\* do_vflag finds the signed sums that do not fit (exmemwb.h:76).
LEMMA OverflowOut ==
  ASSUME NEW a \in Word, NEW b \in Word, NEW carry \in {0, 1}
  PROVE  do_vflag(a, b, Wrap(a + b + carry)) <=>
           \/ Signed(a) + Signed(b) + carry < -Half
           \/ Signed(a) + Signed(b) + carry >= Half
<1>1. Wrap(a + b + carry) =
        IF a + b + carry >= 2 * Half THEN a + b + carry - 2 * Half ELSE a + b + carry
  BY WrapSum, Halves
<1>2. a \in 0 .. 2 * Half - 1 /\ b \in 0 .. 2 * Half - 1 /\ WordMod = 2 * Half
  BY Halves DEF Word
<1> QED BY <1>1, <1>2, Halves DEF do_vflag, Neg, Signed

-----------------------------------------------------------------------------
(***************************************************************************)
(* The four ways a handler ends.                                           *)
(***************************************************************************)
LEMMA Complement == \A x \in Word : Not(x) \in Word
BY Halves DEF Not, Word

LEMMA CarryIn == TypeOK => Val(flags.C) \in {0, 1}
BY DEF TypeOK, Val

\* Writing a word to a register, or to none, leaves words in all of them.
LEMMA WriteType ==
  ASSUME TypeOK, NEW rD, NEW res \in Word, Write(rD, res)
  PROVE  gpr' \in [Regs -> Word]
BY DEF TypeOK, Write

LEMMA SumStep ==
  ASSUME FlagInv, NEW op, NEW rD, NEW a \in Word, NEW b \in Word, NEW carry \in {0, 1},
         NEW comparison \in [valid : BOOLEAN, a : Word, b : Word],
         comparison.valid => a = comparison.a /\ b = Not(comparison.b) /\ carry = 1,
         Sum(op, rD, a, b, carry, comparison)
  PROVE  FlagInv'
<1> DEFINE res == Wrap(a + b + carry)
<1>1. res \in Word
  BY WrapType, Halves DEF Word
<1>2. /\ Write(rD, res) /\ compared' = comparison
      /\ flags' = [N |-> do_nflag(res), Z |-> do_zflag(res),
                   C |-> do_cflag(a, b, carry), V |-> do_vflag(a, b, res)]
      /\ sum' = [unsigned |-> a + b + carry, signed |-> Signed(a) + Signed(b) + carry]
      /\ last' = [op |-> op, a |-> a, b |-> b, carry |-> flags.C, res |-> res]
      /\ UNCHANGED <<takenBranch, exited>>
  BY DEF Sum, Record
<1>3. /\ do_nflag(res) \in BOOLEAN /\ do_zflag(res) \in BOOLEAN
      /\ do_cflag(a, b, carry) \in BOOLEAN /\ do_vflag(a, b, res) \in BOOLEAN
  BY DEF do_nflag, do_zflag, do_cflag, do_vflag, Neg
<1>4. /\ do_cflag(a, b, carry) <=> a + b + carry >= WordMod
      /\ do_vflag(a, b, res) <=> \/ Signed(a) + Signed(b) + carry < -Half
                                 \/ Signed(a) + Signed(b) + carry >= Half
  BY CarryOut, OverflowOut
<1> HIDE DEF res
<1>5. TypeOK'
  <2>1. gpr' \in [Regs -> Word]
    BY <1>1, <1>2, WriteType DEF FlagInv
  <2>2. flags' \in [N : BOOLEAN, Z : BOOLEAN, C : BOOLEAN, V : BOOLEAN]
    BY <1>2, <1>3, Zenon
  <2>3. last'.a \in Word /\ last'.b \in Nat /\ last'.res \in Word
    BY <1>1, <1>2, Halves DEF Word
  <2>4. last'.carry \in BOOLEAN
    BY <1>2 DEF FlagInv, TypeOK
  <2> QED BY <1>2, <2>1, <2>2, <2>3, <2>4 DEF FlagInv, TypeOK
<1>6. HistoryType'
  <2>1. a + b + carry \in 0 .. 2 * WordMod - 1 /\ Signed(a) + Signed(b) + carry \in Int
    BY Halves DEF Word, Signed
  <2> QED BY <1>2, <2>1 DEF HistoryType
<1>7. CarryAndOverflowAreTrue'
  BY <1>2, <1>4 DEF CarryAndOverflowAreTrue
<1>8. ComparisonStands'
  <2>1. SUFFICES ASSUME comparison.valid PROVE ComparisonStands'
    BY <1>2 DEF ComparisonStands
  <2>2. a = comparison.a /\ b = Not(comparison.b) /\ carry = 1
    BY <2>1
  <2>3. flags'.N <=> Neg(res)
    BY <1>2 DEF do_nflag
  <2>4. flags'.Z <=> res = 0
    BY <1>2 DEF do_zflag
  <2>5. res = Wrap(comparison.a + Not(comparison.b) + 1)
    BY <2>2 DEF res
  <2>6. /\ sum'.unsigned = comparison.a + Not(comparison.b) + 1
        /\ sum'.signed = Signed(comparison.a) + Signed(Not(comparison.b)) + 1
    BY <1>2, <2>2
  <2> QED BY <1>2, <2>3, <2>4, <2>5, <2>6 DEF ComparisonStands
<1> QED BY <1>5, <1>6, <1>7, <1>8 DEF FlagInv

LEMMA LogicalStep ==
  ASSUME FlagInv, NEW op, NEW rD, NEW a \in Word, NEW b \in Word, NEW res \in Word,
         Logical(op, rD, a, b, res)
  PROVE  FlagInv'
<1>1. /\ Write(rD, res)
      /\ flags' = [flags EXCEPT !.N = do_nflag(res), !.Z = do_zflag(res)]
      /\ compared' = [compared EXCEPT !.valid = FALSE]
      /\ last' = [op |-> op, a |-> a, b |-> b, carry |-> flags.C, res |-> res]
      /\ UNCHANGED <<sum, takenBranch, exited>>
  BY DEF Logical, Record
<1>2. do_nflag(res) \in BOOLEAN /\ do_zflag(res) \in BOOLEAN
  BY DEF do_nflag, do_zflag, Neg
<1>3. TypeOK'
  <2>1. gpr' \in [Regs -> Word]
    BY <1>1, WriteType DEF FlagInv
  <2>2. flags' \in [N : BOOLEAN, Z : BOOLEAN, C : BOOLEAN, V : BOOLEAN]
    BY <1>1, <1>2 DEF FlagInv, TypeOK
  <2>3. last'.a \in Word /\ last'.b \in Nat /\ last'.res \in Word
    BY <1>1, Halves DEF Word
  <2>4. last'.carry \in BOOLEAN /\ compared' \in [valid : BOOLEAN, a : Word, b : Word]
    BY <1>1 DEF FlagInv, TypeOK
  <2> QED BY <1>1, <2>1, <2>2, <2>3, <2>4 DEF FlagInv, TypeOK
<1>4. CarryAndOverflowAreTrue'
  <2>1. flags'.C = flags.C /\ flags'.V = flags.V
    BY <1>1 DEF FlagInv, TypeOK
  <2> QED BY <1>1, <2>1 DEF FlagInv, CarryAndOverflowAreTrue
<1>5. ComparisonStands'
  <2>1. compared'.valid = FALSE
    BY <1>1 DEF FlagInv, TypeOK
  <2> QED BY <2>1 DEF ComparisonStands
<1> QED BY <1>1, <1>3, <1>4, <1>5 DEF FlagInv, HistoryType

LEMMA ShiftStep ==
  ASSUME FlagInv, NEW op, NEW rD, NEW a \in Word, NEW b \in Nat, NEW res \in Word,
         NEW amount \in Nat, NEW c \in BOOLEAN, amount = 0 => c = flags.C,
         Shift(op, rD, a, b, res, amount, c)
  PROVE  FlagInv'
<1>1. /\ Write(rD, res)
      /\ flags' = [flags EXCEPT !.N = do_nflag(res), !.Z = do_zflag(res), !.C = c]
      /\ sum' = IF amount = 0 THEN sum ELSE [sum EXCEPT !.unsigned = WordMod * Val(c)]
      /\ compared' = [compared EXCEPT !.valid = FALSE]
      /\ last' = [op |-> op, a |-> a, b |-> b, carry |-> flags.C, res |-> res]
      /\ UNCHANGED <<takenBranch, exited>>
  BY DEF Shift, Record
<1>2. do_nflag(res) \in BOOLEAN /\ do_zflag(res) \in BOOLEAN
  BY DEF do_nflag, do_zflag, Neg
<1>3. TypeOK'
  <2>1. gpr' \in [Regs -> Word]
    BY <1>1, WriteType DEF FlagInv
  <2>2. flags' \in [N : BOOLEAN, Z : BOOLEAN, C : BOOLEAN, V : BOOLEAN]
    BY <1>1, <1>2 DEF FlagInv, TypeOK
  <2>3. last'.a \in Word /\ last'.b \in Nat /\ last'.res \in Word
    BY <1>1
  <2>4. last'.carry \in BOOLEAN /\ compared' \in [valid : BOOLEAN, a : Word, b : Word]
    BY <1>1 DEF FlagInv, TypeOK
  <2> QED BY <1>1, <2>1, <2>2, <2>3, <2>4 DEF FlagInv, TypeOK
<1>4. WordMod * Val(c) \in 0 .. 2 * WordMod - 1 /\ (WordMod * Val(c) >= WordMod <=> c)
  BY Halves DEF Val
<1>5. HistoryType'
  BY <1>1, <1>4 DEF FlagInv, HistoryType
<1>6. CarryAndOverflowAreTrue'
  <2>1. flags'.C = c /\ flags'.V = flags.V
    BY <1>1 DEF FlagInv, TypeOK
  <2>2. sum'.signed = sum.signed
    BY <1>1 DEF FlagInv, HistoryType
  <2>3. c <=> sum'.unsigned >= WordMod
    <3>1. CASE amount = 0
      BY <1>1, <3>1 DEF FlagInv, CarryAndOverflowAreTrue
    <3>2. CASE amount # 0
      BY <1>1, <1>4, <3>2 DEF FlagInv, HistoryType
    <3> QED BY <3>1, <3>2
  <2> QED BY <2>1, <2>2, <2>3 DEF FlagInv, CarryAndOverflowAreTrue
<1>7. ComparisonStands'
  <2>1. compared'.valid = FALSE
    BY <1>1 DEF FlagInv, TypeOK
  <2> QED BY <2>1 DEF ComparisonStands
<1> QED BY <1>3, <1>5, <1>6, <1>7 DEF FlagInv

LEMMA CopyStep ==
  ASSUME FlagInv, NEW op, NEW rD, NEW a \in Word, NEW b \in Nat, NEW res \in Word,
         Copy(op, rD, a, b, res)
  PROVE  FlagInv'
<1>1. /\ Write(rD, IF rD = GPR_PC THEN res + 1 - (res % 2) ELSE res)
      /\ takenBranch' = (rD = GPR_PC)
      /\ last' = [op |-> op, a |-> a, b |-> b, carry |-> flags.C, res |-> res]
      /\ UNCHANGED <<flags, sum, compared, exited>>
  BY DEF Copy, Record
<1>2. res + 1 - (res % 2) \in Word
  BY Halves DEF Word
<1>3. gpr' \in [Regs -> Word]
  BY <1>1, <1>2, WriteType DEF FlagInv
<1>4. takenBranch' \in BOOLEAN
  BY <1>1
<1>5. TypeOK'
  BY <1>1, <1>3, <1>4 DEF FlagInv, TypeOK
<1>6. CarryAndOverflowAreTrue' /\ HistoryType' /\ ComparisonStands'
  BY <1>1 DEF FlagInv, CarryAndOverflowAreTrue, HistoryType, ComparisonStands
<1> QED BY <1>5, <1>6 DEF FlagInv

-----------------------------------------------------------------------------
(***************************************************************************)
(* Every instruction is an instance of one of the four.                    *)
(***************************************************************************)
LEMMA AdditionStep ==
  ASSUME FlagInv, NEW op, NEW rD, NEW a \in Word, NEW b \in Word, NEW carry \in {0, 1},
         Addition(op, rD, a, b, carry)
  PROVE  FlagInv'
<1> DEFINE comparison == [valid |-> FALSE, a |-> a, b |-> b]
<1>1. comparison \in [valid : BOOLEAN, a : Word, b : Word] /\ ~comparison.valid
  OBVIOUS
<1>2. Sum(op, rD, a, b, carry, comparison)
  BY DEF Addition
<1> HIDE DEF comparison
<1> QED BY <1>1, <1>2, SumStep

LEMMA SubtractionStep ==
  ASSUME FlagInv, NEW op, NEW rD, NEW a \in Word, NEW b \in Word,
         Subtraction(op, rD, a, b)
  PROVE  FlagInv'
<1> DEFINE comparison == [valid |-> TRUE, a |-> a, b |-> b]
<1>1. /\ comparison \in [valid : BOOLEAN, a : Word, b : Word]
      /\ comparison.a = a /\ comparison.b = b
  OBVIOUS
<1>2. Sum(op, rD, a, Not(b), 1, comparison) /\ Not(b) \in Word
  BY Complement DEF Subtraction
<1> HIDE DEF comparison
<1> QED BY <1>1, <1>2, SumStep

\* The operands: registers of Low and Dest, SP and PC, and the immediates are words.
LEMMA Operands ==
  TypeOK =>
    /\ \A r \in Low \cup Dest \cup {GPR_SP, GPR_PC} : gpr[r] \in Word
    /\ \A imm \in Imm : imm \in Word
    /\ 0 \in Word
BY AluAssumption, Halves DEF TypeOK, Regs, Word

LEMMA ArithmeticStep == FlagInv /\ Arithmetic => FlagInv'
<1>1. SUFFICES ASSUME FlagInv, Arithmetic PROVE FlagInv'
  OBVIOUS
<1>2. /\ \A r \in Low \cup Dest \cup {GPR_SP, GPR_PC} : gpr[r] \in Word
      /\ \A imm \in Imm : imm \in Word
      /\ 0 \in Word
      /\ Val(flags.C) \in {0, 1}
  BY <1>1, Operands, CarryIn DEF FlagInv
<1>3. \A x \in Int : Wrap(x) \in Word
  BY WrapType
<1>4. PICK rD \in Dest :
        \/ \E rM \in Low :
             \/ adcs(rD, rM) \/ sbcs(rD, rM) \/ rsbs(rD, rM) \/ cmp_r(rD, rM) \/ muls(rD, rM)
        \/ \E rN, rM \in Low : adds_r(rD, rN, rM) \/ subs(rD, rN, rM)
        \/ \E rN \in Low, imm \in Imm : adds_i3(rD, rN, imm) \/ subs_i3(rD, rN, imm)
        \/ \E imm \in Imm :
             \/ adds_i8(rD, imm) \/ subs_i8(rD, imm) \/ cmp_i(rD, imm)
             \/ add_sp(rD, imm)  \/ add_sp(GPR_SP, imm) \/ sub_sp(imm) \/ adr(rD, imm)
  BY <1>1 DEF Arithmetic
<1>5. ASSUME NEW rM \in Low,
             \/ adcs(rD, rM) \/ sbcs(rD, rM) \/ rsbs(rD, rM) \/ cmp_r(rD, rM) \/ muls(rD, rM)
      PROVE  FlagInv'
  <2>1. gpr[rD] \in Word /\ gpr[rM] \in Word
    BY <1>2
  <2>2. CASE adcs(rD, rM)
    BY <1>1, <1>2, <2>1, <2>2, AdditionStep DEF adcs
  <2>3. CASE sbcs(rD, rM)
    BY <1>1, <1>2, <2>1, <2>3, Complement, AdditionStep DEF sbcs
  <2>4. CASE rsbs(rD, rM)
    BY <1>1, <1>2, <2>1, <2>4, SubtractionStep DEF rsbs
  <2>5. CASE cmp_r(rD, rM)
    BY <1>1, <2>1, <2>5, SubtractionStep DEF cmp_r
  <2>6. CASE muls(rD, rM)
    <3>1. gpr[rD] * gpr[rM] \in Int
      BY <2>1, Halves DEF Word
    <3> QED BY <1>1, <1>3, <2>1, <2>6, <3>1, LogicalStep DEF muls
  <2> QED BY <1>5, <2>2, <2>3, <2>4, <2>5, <2>6
<1>6. ASSUME NEW rN \in Low, NEW rM \in Low, adds_r(rD, rN, rM) \/ subs(rD, rN, rM)
      PROVE  FlagInv'
  <2>1. gpr[rN] \in Word /\ gpr[rM] \in Word
    BY <1>2
  <2>2. CASE adds_r(rD, rN, rM)
    BY <1>1, <2>1, <2>2, AdditionStep DEF adds_r
  <2>3. CASE subs(rD, rN, rM)
    BY <1>1, <2>1, <2>3, SubtractionStep DEF subs
  <2> QED BY <1>6, <2>2, <2>3
<1>7. ASSUME NEW rN \in Low, NEW imm \in Imm, adds_i3(rD, rN, imm) \/ subs_i3(rD, rN, imm)
      PROVE  FlagInv'
  <2>1. gpr[rN] \in Word /\ imm \in Word
    BY <1>2
  <2>2. CASE adds_i3(rD, rN, imm)
    BY <1>1, <2>1, <2>2, AdditionStep DEF adds_i3
  <2>3. CASE subs_i3(rD, rN, imm)
    BY <1>1, <2>1, <2>3, SubtractionStep DEF subs_i3
  <2> QED BY <1>7, <2>2, <2>3
<1>8. ASSUME NEW imm \in Imm,
             \/ adds_i8(rD, imm) \/ subs_i8(rD, imm) \/ cmp_i(rD, imm)
             \/ add_sp(rD, imm)  \/ add_sp(GPR_SP, imm) \/ sub_sp(imm) \/ adr(rD, imm)
      PROVE  FlagInv'
  <2>1. gpr[rD] \in Word /\ imm \in Word /\ gpr[GPR_SP] \in Word /\ gpr[GPR_PC] \in Word
    BY <1>2
  <2>2. /\ imm \in Nat /\ 4 * imm \in Int
        /\ gpr[GPR_SP] + 4 * imm \in Int
        /\ gpr[GPR_PC] - (gpr[GPR_PC] % 4) + 4 * imm \in Int
    BY <2>1, Halves DEF Word
  <2>3. CASE adds_i8(rD, imm)
    BY <1>1, <2>1, <2>3, AdditionStep DEF adds_i8
  <2>4. CASE subs_i8(rD, imm)
    BY <1>1, <2>1, <2>4, SubtractionStep DEF subs_i8
  <2>5. CASE cmp_i(rD, imm)
    BY <1>1, <2>1, <2>5, SubtractionStep DEF cmp_i
  <2>6. CASE add_sp(rD, imm) \/ add_sp(GPR_SP, imm)
    BY <1>1, <1>3, <2>1, <2>2, <2>6, CopyStep DEF add_sp
  <2>7. CASE sub_sp(imm)
    <3>1. Not(Wrap(4 * imm)) \in Word
      BY <1>3, <2>2, Complement
    <3>2. gpr[GPR_SP] + Not(Wrap(4 * imm)) + 1 \in Int
      BY <2>1, <3>1, Halves DEF Word
    <3> QED BY <1>1, <1>3, <2>1, <2>2, <2>7, <3>2, CopyStep DEF sub_sp
  <2>8. CASE adr(rD, imm)
    BY <1>1, <1>3, <2>1, <2>2, <2>8, CopyStep DEF adr
  <2> QED BY <1>8, <2>3, <2>4, <2>5, <2>6, <2>7, <2>8
<1> QED BY <1>4, <1>5, <1>6, <1>7, <1>8

LEMMA HighStep == FlagInv /\ HighArithmetic => FlagInv'
<1>1. SUFFICES ASSUME FlagInv, NEW rD \in Dest \cup {GPR_PC}, NEW rM \in Low \cup {GPR_PC},
                      add_r(rD, rM)
               PROVE  FlagInv'
  BY DEF HighArithmetic
<1>2. gpr[rD] \in Word /\ gpr[rM] \in Word
  BY <1>1, Operands DEF FlagInv
<1>3. CASE rD = GPR_PC /\ rM = GPR_PC
  <2>1. exited' = TRUE /\ UNCHANGED <<gpr, flags, takenBranch, sum, compared, last>>
    BY <1>1, <1>3 DEF add_r
  <2>2. TypeOK' /\ HistoryType'
    BY <1>1, <2>1 DEF FlagInv, TypeOK, HistoryType
  <2> QED BY <1>1, <2>1, <2>2 DEF FlagInv, CarryAndOverflowAreTrue, ComparisonStands
<1>4. CASE ~(rD = GPR_PC /\ rM = GPR_PC)
  <2>1. Copy("add_r", rD, gpr[rD], gpr[rM], Wrap(gpr[rD] + gpr[rM]))
    BY <1>1, <1>4 DEF add_r
  <2>2. gpr[rM] \in Nat /\ gpr[rD] + gpr[rM] \in Int
    BY <1>2, Halves DEF Word
  <2>3. Wrap(gpr[rD] + gpr[rM]) \in Word
    BY <2>2, WrapType
  <2> QED BY <1>1, <1>2, <2>1, <2>2, <2>3, CopyStep
<1> QED BY <1>3, <1>4

LEMMA LogicStep == FlagInv /\ Logic => FlagInv'
<1>1. SUFFICES ASSUME FlagInv, NEW rD \in Dest, NEW rM \in Low,
                 \/ ands(rD, rM)   \/ bics(rD, rM)   \/ eors(rD, rM)   \/ orrs(rD, rM)
                 \/ mvns(rD, rM)   \/ tst(rD, rM)
                 \/ lsls_r(rD, rM) \/ lsrs_r(rD, rM) \/ asrs_r(rD, rM) \/ rors(rD, rM)
                 \/ \E imm \in Bit : \/ lsls_i(rD, rM, imm) \/ lsrs_i(rD, rM, imm)
                                     \/ asrs_i(rD, rM, imm)
               PROVE  FlagInv'
  BY DEF Logic
<1>2. gpr[rD] \in Word /\ gpr[rM] \in Word
  BY <1>1, Operands DEF FlagInv
<1>3. flags.C \in BOOLEAN
  BY <1>1 DEF FlagInv, TypeOK
<1>4. Amount(rM) \in Nat
  BY <1>2, Halves, AluAssumption DEF Amount, Word
<1>5. ASSUME NEW op, NEW d, NEW ones, LogicalOnes(op, d, gpr[rD], gpr[rM], ones)
      PROVE  FlagInv'
  BY <1>1, <1>2, <1>5, LogicalStep DEF LogicalOnes
<1>6. ASSUME NEW op, NEW d, NEW a \in Word, NEW b \in Nat, NEW ones,
             NEW amount \in Nat, NEW c \in BOOLEAN, amount = 0 => c = flags.C,
             ShiftOnes(op, d, a, b, ones, amount, c)
      PROVE  FlagInv'
  BY <1>1, <1>6, ShiftStep DEF ShiftOnes
<1>7. CASE ands(rD, rM) \/ bics(rD, rM) \/ eors(rD, rM)
  BY <1>5, <1>7 DEF ands, bics, eors
<1>8. CASE orrs(rD, rM) \/ mvns(rD, rM) \/ tst(rD, rM)
  BY <1>5, <1>8 DEF orrs, mvns, tst
<1>9. CASE lsls_r(rD, rM)
  BY <1>2, <1>3, <1>4, <1>6, <1>9 DEF lsls_r
<1>10. CASE lsrs_r(rD, rM)
  BY <1>2, <1>3, <1>4, <1>6, <1>10 DEF lsrs_r
<1>11. CASE asrs_r(rD, rM)
  <2> DEFINE m == IF Amount(rM) < WordBits THEN Amount(rM) ELSE WordBits
             ones == Right(gpr[rD], m) \cup SignFill(gpr[rD], m)
  <2>1. CASE Amount(rM) = 0
    <3>1. ShiftOnes("asrs_r", rD, gpr[rD], Amount(rM), ones, Amount(rM), flags.C)
      BY <1>11, <2>1 DEF asrs_r
    <3> HIDE DEF ones
    <3> QED BY <1>2, <1>3, <1>4, <1>6, <2>1, <3>1
  <2>2. CASE Amount(rM) # 0
    <3>1. ShiftOnes("asrs_r", rD, gpr[rD], Amount(rM), ones, Amount(rM),
                    m - 1 \in Ones[gpr[rD]])
      BY <1>11, <2>2 DEF asrs_r
    <3>2. (m - 1 \in Ones[gpr[rD]]) \in BOOLEAN
      OBVIOUS
    <3> HIDE DEF m, ones
    <3> QED BY <1>2, <1>4, <1>6, <2>2, <3>1, <3>2
  <2> QED BY <2>1, <2>2
<1>12. CASE rors(rD, rM)
  <2>1. CASE Amount(rM) = 0
    <3>1. ShiftOnes("rors", NoReg, gpr[rD], Amount(rM), {(k - Amount(rM)) % WordBits : k \in Ones[gpr[rD]]}, Amount(rM), flags.C)
      BY <1>12, <2>1 DEF rors
    <3> QED BY <1>2, <1>4, <1>6, <1>3, <2>1, <3>1
  <2>2. CASE Amount(rM) # 0
    <3>1. ShiftOnes("rors", rD, gpr[rD], Amount(rM), {(k - Amount(rM)) % WordBits : k \in Ones[gpr[rD]]}, Amount(rM), WordBits - 1 \in {(k - Amount(rM)) % WordBits : k \in Ones[gpr[rD]]})
      BY <1>12, <2>2 DEF rors
    <3>2. (WordBits - 1 \in {(k - Amount(rM)) % WordBits : k \in Ones[gpr[rD]]}) \in BOOLEAN
      OBVIOUS
    <3> QED BY <1>2, <1>4, <1>6, <2>2, <3>1, <3>2
  <2> QED BY <2>1, <2>2
<1>13. ASSUME NEW imm \in Bit,
              lsls_i(rD, rM, imm) \/ lsrs_i(rD, rM, imm) \/ asrs_i(rD, rM, imm)
       PROVE  FlagInv'
  <2>1. WordBits \in Nat \ {0} /\ imm \in Nat
    BY AluAssumption DEF Bit
  <2>2. CASE lsls_i(rD, rM, imm)
    <3>1. CASE imm = 0
      <4>1. ShiftOnes("lsls_i", rD, gpr[rM], imm, Left(gpr[rM], imm), imm, flags.C)
        BY <2>2, <3>1 DEF lsls_i
      <4> QED BY <1>2, <1>6, <2>1, <1>3, <3>1, <4>1
    <3>2. CASE imm # 0
      <4>1. ShiftOnes("lsls_i", rD, gpr[rM], imm, Left(gpr[rM], imm), imm, WordBits - imm \in Ones[gpr[rM]])
        BY <2>2, <3>2 DEF lsls_i
      <4>2. (WordBits - imm \in Ones[gpr[rM]]) \in BOOLEAN
        OBVIOUS
      <4> QED BY <1>2, <1>6, <2>1, <3>2, <4>1, <4>2
    <3> QED BY <3>1, <3>2
  <2>3. CASE lsrs_i(rD, rM, imm)
    BY <1>2, <1>3, <1>6, <2>1, <2>3 DEF lsrs_i
  <2>4. CASE asrs_i(rD, rM, imm)
    <3>1. CASE imm = 0
      <4>1. ShiftOnes("asrs_i", rD, gpr[rM], imm, Right(gpr[rM], WordBits) \cup SignFill(gpr[rM], WordBits), WordBits, flags.C)
        BY <2>4, <3>1 DEF asrs_i
      <4> QED BY <1>2, <1>6, <2>1, <1>3, <3>1, <4>1
    <3>2. CASE imm # 0
      <4>1. ShiftOnes("asrs_i", rD, gpr[rM], imm, Right(gpr[rM], imm) \cup SignFill(gpr[rM], imm), imm, imm - 1 \in Ones[gpr[rM]])
        BY <2>4, <3>2 DEF asrs_i
      <4>2. (imm - 1 \in Ones[gpr[rM]]) \in BOOLEAN
        OBVIOUS
      <4> QED BY <1>2, <1>6, <2>1, <3>2, <4>1, <4>2
    <3> QED BY <3>1, <3>2
  <2> QED BY <1>13, <2>2, <2>3, <2>4
<1> QED BY <1>1, <1>7, <1>8, <1>9, <1>10, <1>11, <1>12, <1>13

LEMMA MiscStep == FlagInv /\ Misc => FlagInv'
<1>1. SUFFICES ASSUME FlagInv, Misc PROVE FlagInv'
  OBVIOUS
<1>2. /\ \A r \in Low \cup Dest \cup {GPR_SP, GPR_PC} : gpr[r] \in Word
      /\ \A imm \in Imm : imm \in Word
  BY <1>1, Operands DEF FlagInv
<1>3. ASSUME NEW rD \in Dest, NEW rM \in Low,
             \/ uxtb(rD, rM) \/ uxth(rD, rM) \/ sxtb(rD, rM) \/ sxth(rD, rM)
             \/ rev(rD, rM)  \/ rev16(rD, rM)
      PROVE  FlagInv'
  <2>1. PICK op, ones : CopyOnes(op, rD, gpr[rM], ones)
    BY <1>3 DEF uxtb, uxth, sxtb, sxth, rev, rev16
  <2>2. gpr[rM] \in Word
    BY <1>2
  <2> QED BY <1>1, <2>1, <2>2, CopyStep DEF CopyOnes
<1>4. ASSUME NEW rD \in Dest, NEW imm \in Imm, movs_i(rD, imm)
      PROVE  FlagInv'
  BY <1>1, <1>2, <1>4, LogicalStep DEF movs_i
<1>5. ASSUME NEW rD, NEW rM \in Low \cup {GPR_SP, GPR_PC}, mov_r(rD, rM)
      PROVE  FlagInv'
  BY <1>1, <1>2, <1>5, CopyStep DEF mov_r
<1> QED BY <1>1, <1>3, <1>4, <1>5 DEF Misc

LEMMA FlagInvInit == Init => FlagInv
<1>1. SUFFICES ASSUME Init PROVE FlagInv
  OBVIOUS
<1>2. PICK low \in [Low -> Word] :
        gpr = [r \in Regs |-> CASE r = GPR_SP -> InitialSP
                                [] r = GPR_PC -> InitialPC
                                [] OTHER      -> low[r]]
  BY <1>1 DEF Init
<1>3. PICK c \in BOOLEAN :
        /\ flags = [N |-> FALSE, Z |-> FALSE, C |-> c, V |-> FALSE]
        /\ sum = [unsigned |-> WordMod * Val(c), signed |-> 0]
  BY <1>1 DEF Init
<1>4. /\ takenBranch = FALSE /\ exited = FALSE
      /\ compared = [valid |-> FALSE, a |-> 0, b |-> 0]
      /\ last = [op |-> "none", a |-> 0, b |-> 0, carry |-> FALSE, res |-> 0]
  BY <1>1 DEF Init
<1>5. WordMod * Val(c) \in 0 .. 2 * WordMod - 1 /\ (WordMod * Val(c) >= WordMod <=> c) /\ 0 \in Word
  BY Halves DEF Val, Word
<1>6. gpr \in [Regs -> Word]
  <2>1. ASSUME NEW r \in Regs, r # GPR_SP, r # GPR_PC PROVE low[r] \in Word
    BY <1>2, <2>1 DEF Regs
  <2>2. InitialSP \in Word /\ InitialPC \in Word
    BY AluAssumption
  <2> QED BY <1>2, <2>1, <2>2
<1>7. flags \in [N : BOOLEAN, Z : BOOLEAN, C : BOOLEAN, V : BOOLEAN]
  BY <1>3
<1>8. TypeOK /\ ComparisonStands
  BY <1>4, <1>5, <1>6, <1>7 DEF TypeOK, ComparisonStands
<1>9. HistoryType /\ CarryAndOverflowAreTrue
  BY <1>3, <1>5, Halves DEF HistoryType, CarryAndOverflowAreTrue
<1> QED BY <1>8, <1>9 DEF FlagInv

LEMMA FlagInvStep == FlagInv /\ [Next]_vars => FlagInv'
<1>1. SUFFICES ASSUME FlagInv, [Next]_vars PROVE FlagInv'
  OBVIOUS
<1>2. CASE Arithmetic
  BY <1>1, <1>2, ArithmeticStep
<1>3. CASE HighArithmetic
  BY <1>1, <1>3, HighStep
<1>4. CASE Logic
  BY <1>1, <1>4, LogicStep
<1>5. CASE Misc
  BY <1>1, <1>5, MiscStep
<1>6. CASE UNCHANGED vars
  BY <1>1, <1>6 DEF vars, FlagInv, TypeOK, HistoryType, CarryAndOverflowAreTrue,
                    ComparisonStands
<1> QED BY <1>1, <1>2, <1>3, <1>4, <1>5, <1>6 DEF Next

-----------------------------------------------------------------------------
(***************************************************************************)
(* The theorems about the flags.                                           *)
(***************************************************************************)

\* FlagInv holds in every reachable state.
THEOREM FlagInvariant == Spec => []FlagInv
BY FlagInvInit, FlagInvStep, PTL DEF Spec

\* Registers hold words, whatever was shifted, extended or summed into them.
THEOREM WordsStay == Spec => []TypeOK
<1>1. FlagInv => TypeOK
  BY DEF FlagInv
<1> QED BY <1>1, FlagInvariant, PTL

\* C and V tell the carry out of and the overflow of the last addition, however
\* many instructions that set neither ran since.
THEOREM FlagsOfTheSum == Spec => []CarryAndOverflowAreTrue
<1>1. FlagInv => CarryAndOverflowAreTrue
  BY DEF FlagInv
<1> QED BY <1>1, FlagInvariant, PTL

\* The flags of a subtraction decide all fourteen conditions of b_c as the
\* numbers compare.
LEMMA FlagsOrder == FlagInv => ConditionsOrder
<1>1. SUFFICES ASSUME FlagInv, compared.valid PROVE ConditionsOrder
  BY DEF ConditionsOrder
<1> DEFINE a == compared.a
           b == compared.b
           res == Wrap(a + Not(b) + 1)
<1>2. a \in Word /\ b \in Word
  BY <1>1 DEF FlagInv, TypeOK
<1>3. /\ sum.unsigned = a + Not(b) + 1
      /\ sum.signed = Signed(a) + Signed(Not(b)) + 1
      /\ flags.N <=> Neg(res)
      /\ flags.Z <=> res = 0
      /\ flags.C <=> sum.unsigned >= WordMod
      /\ flags.V <=> (sum.signed < -Half \/ sum.signed >= Half)
  BY <1>1 DEF FlagInv, ComparisonStands, CarryAndOverflowAreTrue
<1> HIDE DEF a, b
<1>4. res = IF a + Not(b) + 1 >= WordMod THEN a + Not(b) + 1 - WordMod ELSE a + Not(b) + 1
  BY <1>2, Complement, WrapSum
<1>5. Not(b) = WordMod - 1 - b
  BY DEF Not
<1>6. /\ a \in 0 .. 2 * Half - 1 /\ b \in 0 .. 2 * Half - 1 /\ WordMod = 2 * Half
      /\ Half \in Nat \ {0}
  BY <1>2, Halves DEF Word
<1> HIDE DEF res
<1>7. /\ flags.Z <=> a = b
      /\ flags.C <=> a >= b
      /\ (flags.N <=> flags.V) <=> Signed(a) >= Signed(b)
      /\ a = b <=> Signed(a) = Signed(b)
  <2>1. res = IF a >= b THEN a - b ELSE a - b + 2 * Half
    BY <1>4, <1>5, <1>6
  <2>2. flags.Z <=> a = b
    BY <1>3, <1>6, <2>1
  <2>3. flags.C <=> a >= b
    BY <1>3, <1>5, <1>6
  <2>4. flags.V <=> (Signed(a) - Signed(b) < -Half \/ Signed(a) - Signed(b) >= Half)
    <3>1. Signed(Not(b)) = -1 - Signed(b)
      BY <1>5, <1>6 DEF Signed, Neg
    <3>2. Signed(a) \in Int /\ Signed(b) \in Int
      BY <1>6 DEF Signed, Neg
    <3>3. sum.signed = Signed(a) - Signed(b)
      BY <1>3, <3>1, <3>2
    <3> QED BY <1>3, <3>3
  <2>5. (Neg(res) <=> (Signed(a) - Signed(b) < -Half \/ Signed(a) - Signed(b) >= Half))
          <=> Signed(a) >= Signed(b)
    BY <1>6, <2>1 DEF Signed, Neg
  <2>6. a = b <=> Signed(a) = Signed(b)
    BY <1>6 DEF Signed, Neg
  <2> QED BY <1>3, <2>2, <2>3, <2>4, <2>5, <2>6
<1>8. Signed(a) \in Int /\ Signed(b) \in Int
  BY <1>6 DEF Signed, Neg
<1>9. flags.N \in BOOLEAN /\ flags.V \in BOOLEAN
  BY <1>1 DEF FlagInv, TypeOK
<1>10. (flags.N = flags.V) <=> Signed(a) >= Signed(b)
  BY <1>7, <1>9, Zenon
<1>11. /\ (Taken(0) <=> a = b)     /\ (Taken(1) <=> a # b)
       /\ (Taken(2) <=> a >= b)    /\ (Taken(3) <=> a < b)
       /\ (Taken(8) <=> a > b)     /\ (Taken(9) <=> a <= b)
  BY <1>6, <1>7 DEF Taken, hi
<1>12. /\ (Taken(10) <=> Signed(a) >= Signed(b)) /\ (Taken(11) <=> Signed(a) < Signed(b))
       /\ (Taken(12) <=> Signed(a) > Signed(b))  /\ (Taken(13) <=> Signed(a) <= Signed(b))
  BY <1>7, <1>8, <1>10 DEF Taken, ge, gt
<1> QED BY <1>11, <1>12 DEF ConditionsOrder, a, b

\* After a comparison, every conditional branch goes where the numbers say.
THEOREM BranchesOrder == Spec => []ConditionsOrder
BY FlagsOrder, FlagInvariant, PTL

\* last names the handler that ran.
LEMMA Names ==
  /\ \A op, rD, a, b, c : Addition(op, rD, a, b, c) => last'.op = op
  /\ \A op, rD, a, b : Subtraction(op, rD, a, b) => last'.op = op
  /\ \A op, rD, a, b, res : Logical(op, rD, a, b, res) => last'.op = op
  /\ \A op, rD, a, b, res : Copy(op, rD, a, b, res) => last'.op = op
  /\ \A op, rD, a, b, ones : LogicalOnes(op, rD, a, b, ones) => last'.op = op
  /\ \A op, rD, a, b, ones, n, c : ShiftOnes(op, rD, a, b, ones, n, c) => last'.op = op
  /\ \A op, rD, a, ones : CopyOnes(op, rD, a, ones) => last'.op = op
<1>1. \A op, rD, a, b, c, cmp : Sum(op, rD, a, b, c, cmp) => last'.op = op
  BY DEF Sum, Record
<1>2. \A op, rD, a, b, res : Logical(op, rD, a, b, res) => last'.op = op
  BY DEF Logical, Record
<1>3. \A op, rD, a, b, res, n, c : Shift(op, rD, a, b, res, n, c) => last'.op = op
  BY DEF Shift, Record
<1>4. \A op, rD, a, b, res : Copy(op, rD, a, b, res) => last'.op = op
  BY DEF Copy, Record
<1>5. /\ \A op, rD, a, b, c : Addition(op, rD, a, b, c) => last'.op = op
      /\ \A op, rD, a, b : Subtraction(op, rD, a, b) => last'.op = op
  BY <1>1 DEF Addition, Subtraction
<1>6. \A op, rD, a, b, ones : LogicalOnes(op, rD, a, b, ones) => last'.op = op
  BY <1>2 DEF LogicalOnes
<1>7. \A op, rD, a, b, ones, n, c : ShiftOnes(op, rD, a, b, ones, n, c) => last'.op = op
  BY <1>3 DEF ShiftOnes
<1>8. \A op, rD, a, ones : CopyOnes(op, rD, a, ones) => last'.op = op
  BY <1>4 DEF CopyOnes
<1> QED BY <1>2, <1>4, <1>5, <1>6, <1>7, <1>8

\* A step after which last names adcs or sbcs is a step of that handler.
LEMMA NamedByCarry ==
  ASSUME Arithmetic \/ HighArithmetic \/ Logic \/ Misc,
         ~exited', last'.op \in {"adcs", "sbcs"}
  PROVE  \E rD \in Dest, rM \in Low : adcs(rD, rM) \/ sbcs(rD, rM)
<1>1. CASE Arithmetic
  <2>1. PICK rD \in Dest :
          \/ \E rM \in Low :
               \/ adcs(rD, rM) \/ sbcs(rD, rM) \/ rsbs(rD, rM) \/ cmp_r(rD, rM) \/ muls(rD, rM)
          \/ \E rN, rM \in Low : adds_r(rD, rN, rM) \/ subs(rD, rN, rM)
          \/ \E rN \in Low, imm \in Imm : adds_i3(rD, rN, imm) \/ subs_i3(rD, rN, imm)
          \/ \E imm \in Imm :
               \/ adds_i8(rD, imm) \/ subs_i8(rD, imm) \/ cmp_i(rD, imm)
               \/ add_sp(rD, imm)  \/ add_sp(GPR_SP, imm) \/ sub_sp(imm) \/ adr(rD, imm)
    BY <1>1 DEF Arithmetic
  <2>2. \A rM \in Low : ~rsbs(rD, rM) /\ ~cmp_r(rD, rM) /\ ~muls(rD, rM)
    BY Names DEF rsbs, cmp_r, muls
  <2>3. \A rN, rM \in Low : ~adds_r(rD, rN, rM) /\ ~subs(rD, rN, rM)
    BY Names DEF adds_r, subs
  <2>4. \A rN \in Low, imm \in Imm : ~adds_i3(rD, rN, imm) /\ ~subs_i3(rD, rN, imm)
    BY Names DEF adds_i3, subs_i3
  <2>5. \A imm \in Imm : ~adds_i8(rD, imm) /\ ~subs_i8(rD, imm) /\ ~cmp_i(rD, imm)
    BY Names DEF adds_i8, subs_i8, cmp_i
  <2>6. \A imm \in Imm : /\ ~add_sp(rD, imm) /\ ~add_sp(GPR_SP, imm)
                        /\ ~sub_sp(imm) /\ ~adr(rD, imm)
    BY Names DEF add_sp, sub_sp, adr
  <2> QED BY <2>1, <2>2, <2>3, <2>4, <2>5, <2>6
<1>2. ~HighArithmetic
  BY Names DEF HighArithmetic, add_r
<1>3. ~Logic
  <2>1. \A rD \in Dest, rM \in Low :
          /\ ~ands(rD, rM) /\ ~bics(rD, rM) /\ ~eors(rD, rM) /\ ~orrs(rD, rM)
          /\ ~mvns(rD, rM) /\ ~tst(rD, rM)
    BY Names DEF ands, bics, eors, orrs, mvns, tst
  <2>2. \A rD \in Dest, rM \in Low :
          /\ ~lsls_r(rD, rM) /\ ~lsrs_r(rD, rM) /\ ~asrs_r(rD, rM) /\ ~rors(rD, rM)
    BY Names DEF lsls_r, lsrs_r, asrs_r, rors
  <2>3. \A rD \in Dest, rM \in Low, imm \in Bit :
          /\ ~lsls_i(rD, rM, imm) /\ ~lsrs_i(rD, rM, imm) /\ ~asrs_i(rD, rM, imm)
    BY Names DEF lsls_i, lsrs_i, asrs_i
  <2> QED BY <2>1, <2>2, <2>3 DEF Logic
<1>4. ~Misc
  <2>1. \A rD, rM : /\ ~uxtb(rD, rM) /\ ~uxth(rD, rM) /\ ~sxtb(rD, rM) /\ ~sxth(rD, rM)
                   /\ ~rev(rD, rM)  /\ ~rev16(rD, rM)
    BY Names DEF uxtb, uxth, sxtb, sxth, rev, rev16
  <2>2. \A rD, x : ~movs_i(rD, x) /\ ~mov_r(rD, x)
    BY Names DEF movs_i, mov_r
  <2> QED BY <2>1, <2>2 DEF Misc
<1> QED BY <1>1, <1>2, <1>3, <1>4

\* The upper word of an addition with carry, and the lower one it goes on from.
LEMMA CarryGoesOn ==
  ASSUME FlagInv, NEW op, NEW rD, NEW a \in Word, NEW b \in Word,
         Addition(op, rD, a, b, Val(flags.C))
  PROVE  WordMod * WordMod * Val(flags'.C) + WordMod * last'.res + (sum.unsigned % WordMod)
           = WordMod * (last'.a + last'.b) + sum.unsigned
<1> DEFINE u == sum.unsigned
           c == Val(flags.C)
           res == Wrap(a + b + c)
<1>1. c \in {0, 1} /\ u \in 0 .. 2 * WordMod - 1
  BY CarryIn DEF FlagInv, HistoryType
<1>2. c = IF u >= WordMod THEN 1 ELSE 0
  BY DEF FlagInv, CarryAndOverflowAreTrue, Val
<1>3. /\ flags'.C = do_cflag(a, b, c)
      /\ last'.a = a /\ last'.b = b /\ last'.res = res
  BY DEF Addition, Sum, Record
<1>4. res = IF a + b + c >= WordMod THEN a + b + c - WordMod ELSE a + b + c
  BY <1>1, WrapSum
<1>5. Val(flags'.C) = IF a + b + c >= WordMod THEN 1 ELSE 0
  BY <1>1, <1>3, CarryOut DEF Val
<1>6. u % WordMod = IF u >= WordMod THEN u - WordMod ELSE u
  BY <1>1, WrapOnce DEF Wrap
<1> HIDE DEF u, c, res
<1>7. WordMod \in Nat /\ a \in Nat /\ b \in Nat
  BY Halves DEF Word
<1>8. WordMod * WordMod * Val(flags'.C) + WordMod * res + (u % WordMod)
        = WordMod * (a + b) + u
  <2>1. u % WordMod = u - WordMod * c
    BY <1>1, <1>2, <1>6, <1>7
  <2>2. WordMod * res = WordMod * (a + b) + WordMod * c - WordMod * WordMod * Val(flags'.C)
    <3>1. CASE a + b + c >= WordMod
      <4>1. res = (a + b) + c - WordMod /\ Val(flags'.C) = 1
        BY <1>4, <1>5, <3>1
      <4> QED BY <1>1, <1>7, <4>1
    <3>2. CASE ~(a + b + c >= WordMod)
      <4>1. res = (a + b) + c /\ Val(flags'.C) = 0
        BY <1>4, <1>5, <3>2
      <4> QED BY <1>1, <1>7, <4>1
    <3> QED BY <3>1, <3>2
  <2>3. Val(flags'.C) \in {0, 1} /\ u \in Int /\ c \in Int /\ res \in Int
    BY <1>1, <1>4, <1>5, <1>7
  <2>4. ASSUME NEW w2 \in Int, NEW wr \in Int, NEW wab \in Int, NEW wc \in Int,
               wr = wab + wc - w2
        PROVE  w2 + wr + (u - wc) = wab + u
    BY <2>3, <2>4
  <2> QED BY <1>1, <1>7, <2>1, <2>2, <2>3, <2>4
<1> QED BY <1>3, <1>8 DEF u

\* Additions and subtractions of two words are exact: adcs and sbcs go on from
\* the carry of the lower words, whatever ran in between.
THEOREM TwoWordsExact == Spec => DoubleWordExact
<1>1. ASSUME FlagInv, Next, ~exited', last'.op \in {"adcs", "sbcs"}
      PROVE  WordMod * WordMod * Val(flags'.C) + WordMod * last'.res + (sum.unsigned % WordMod)
               = WordMod * (last'.a + last'.b) + sum.unsigned
  <2>1. PICK rD \in Dest, rM \in Low : adcs(rD, rM) \/ sbcs(rD, rM)
    BY <1>1, NamedByCarry DEF Next
  <2>2. gpr[rD] \in Word /\ gpr[rM] \in Word
    BY <1>1, Operands DEF FlagInv
  <2>3. CASE adcs(rD, rM)
    BY <1>1, <2>2, <2>3, CarryGoesOn DEF adcs
  <2>4. CASE sbcs(rD, rM)
    BY <1>1, <2>2, <2>4, Complement, CarryGoesOn DEF sbcs
  <2> QED BY <2>1, <2>3, <2>4
<1>2. FlagInv /\ [Next]_vars =>
        [steps' # steps /\ ~exited' /\ last'.op \in {"adcs", "sbcs"} =>
           WordMod * WordMod * Val(flags'.C) + WordMod * last'.res + (sum.unsigned % WordMod)
             = WordMod * (last'.a + last'.b) + sum.unsigned]_vars
  BY <1>1
<1> QED BY <1>2, FlagInvariant, PTL DEF Spec, DoubleWordExact
-----------------------------------------------------------------------------
(***************************************************************************)
(* Induction, and the recursive functions of the model: a function that is *)
(* chosen for an equation obeys it once the equation is known to have a    *)
(* solution, which is built here point by point.                           *)
(***************************************************************************)

\* Induction, from the least number that would be left out.
LEMMA NatInduct ==
  ASSUME NEW T \in SUBSET Nat, 0 \in T, \A n \in T : n + 1 \in T
  PROVE  T = Nat
<1>1. SUFFICES ASSUME Nat \ T # {} PROVE FALSE
  OBVIOUS
<1>2. \E m \in Nat \ T : \A y \in Nat \ T : ~(y < m)
  <2>1. PICK m \in Nat \ T : \A y \in Nat \ T : ~(<<y, m>> \in OpToRel(<, Nat))
    BY <1>1, WFMin, NatLessThanWellFounded, Zenon
  <2>2. \A y \in Nat \ T : ~(y < m)
    BY <2>1, Zenon DEF OpToRel
  <2> QED BY <2>2
<1>3. PICK m \in Nat \ T : \A y \in Nat \ T : ~(y < m)
  BY <1>2
<1>4. m - 1 \in Nat /\ m - 1 \in T
  BY <1>3
<1> QED BY <1>3, <1>4

\* g holds the first n + 1 weights.
Weights(g, n) == g[0] = 1 /\ \A k \in 1 .. n : g[k] = 2 * g[k - 1]

\* The equation of Pow2 has a solution, so that Pow2 is one.
LEMMA WeightsExist == \E h : h = [k \in Nat |-> IF k = 0 THEN 1 ELSE 2 * h[k - 1]]
<1> DEFINE T == {n \in Nat : \E g : Weights(g, n)}
           U == {n \in Nat : \A g, h : Weights(g, n) /\ Weights(h, n) => g[n] = h[n]}
<1>1. \A g : \A n \in Nat : Weights(g, n + 1) => Weights(g, n) /\ g[n + 1] = 2 * g[n]
  <2>1. \A n \in Nat : (n + 1) - 1 = n /\ n + 1 \in 1 .. n + 1 /\ 1 .. n \subseteq 1 .. n + 1
    OBVIOUS
  <2> QED BY <2>1, Zenon DEF Weights
<1>2. T = Nat
  <2>1. 0 \in T
    <3>1. Weights([k \in {0} |-> 1], 0)
      BY DEF Weights
    <3> QED BY <3>1
  <2>2. ASSUME NEW n \in T PROVE n + 1 \in T
    <3>1. PICK g : Weights(g, n)
      OBVIOUS
    <3> DEFINE h == [k \in 0 .. n + 1 |-> IF k = n + 1 THEN 2 * g[n] ELSE g[k]]
    <3>2. n \in Nat /\ (n + 1) - 1 = n
      OBVIOUS
    <3>3. \A k \in 0 .. n : h[k] = g[k]
      BY <3>2
    <3>4. h[n + 1] = 2 * g[n]
      BY <3>2
    <3> HIDE DEF h
    <3>5. \A k \in 1 .. n : k - 1 \in 0 .. n /\ k \in 0 .. n
      BY <3>2
    <3>6. \A k \in 1 .. n + 1 : k = n + 1 \/ k \in 1 .. n
      BY <3>2
    <3>7. 0 \in 0 .. n /\ n \in 0 .. n
      BY <3>2
    <3>8. Weights(h, n + 1)
      BY <3>1, <3>2, <3>3, <3>4, <3>5, <3>6, <3>7, Zenon DEF Weights
    <3> QED BY <3>2, <3>8
  <2> HIDE DEF T
  <2> QED BY <2>1, <2>2, NatInduct DEF T
<1>3. U = Nat
  <2>1. 0 \in U
    BY DEF Weights
  <2>2. ASSUME NEW n \in U PROVE n + 1 \in U
    <3>1. SUFFICES ASSUME NEW g, NEW h, Weights(g, n + 1), Weights(h, n + 1)
                   PROVE  g[n + 1] = h[n + 1]
      OBVIOUS
    <3>2. n \in Nat
      OBVIOUS
    <3>3. /\ Weights(g, n) /\ g[n + 1] = 2 * g[n]
          /\ Weights(h, n) /\ h[n + 1] = 2 * h[n]
      BY <1>1, <3>1, <3>2
    <3>4. g[n] = h[n]
      BY <3>3
    <3> QED BY <3>3, <3>4
  <2> HIDE DEF U
  <2> QED BY <2>1, <2>2, NatInduct DEF U
<1> DEFINE at(n) == CHOOSE g : Weights(g, n)
           h == [n \in Nat |-> at(n)[n]]
<1>4. \A n \in Nat : Weights(at(n), n)
  BY <1>2, Zenon
<1>5. \A n \in Nat : \A g : Weights(g, n) => at(n)[n] = g[n]
  <2> HIDE DEF at
  <2> QED BY <1>3, <1>4
<1> HIDE DEF T, U, at
<1>6. h[0] = 1
  BY <1>4 DEF Weights
<1>7. ASSUME NEW k \in Nat, k # 0 PROVE h[k] = 2 * h[k - 1]
  <2>1. PICK n \in Nat : k = n + 1 /\ k - 1 = n
    BY <1>7
  <2>2. Weights(at(n + 1), n + 1) /\ n + 1 \in Nat
    BY <1>4, <2>1
  <2>3. Weights(at(n + 1), n) /\ at(n + 1)[n + 1] = 2 * at(n + 1)[n]
    BY <1>1, <2>2
  <2>4. at(n)[n] = at(n + 1)[n]
    BY <1>5, <2>3
  <2> QED BY <2>1, <2>2, <2>3, <2>4
<1>8. h = [k \in Nat |-> IF k = 0 THEN 1 ELSE 2 * h[k - 1]]
  BY <1>6, <1>7
<1> HIDE DEF h
<1> QED BY <1>8

\* The weights double.
LEMMA Pow2Step == Pow2[0] = 1 /\ \A k \in Nat : Pow2[k + 1] = 2 * Pow2[k]
<1>1. Pow2 = [k \in Nat |-> IF k = 0 THEN 1 ELSE 2 * Pow2[k - 1]]
  BY WeightsExist, Zenon DEF Pow2
<1> HIDE DEF Pow2
<1>2. \A k \in Nat : Pow2[k + 1] = IF k + 1 = 0 THEN 1 ELSE 2 * Pow2[(k + 1) - 1]
  BY <1>1
<1> QED BY <1>1, <1>2

\* The single shifts that ByMany counts, as a sequence of states.
LEMMA ByManyRuns ==
  ASSUME NEW op, NEW v, NEW c, NEW n \in Nat
  PROVE  \E f : /\ f[0] = [v |-> v, c |-> c]
                /\ \A k \in 1 .. n : f[k] = ByOne(op, f[k - 1])
                /\ ByMany(op, v, c, n) = f[n]
<1> DEFINE start == [v |-> v, c |-> c]
           f[k \in 0 .. n] == IF k = 0 THEN start ELSE ByOne(op, f[k - 1])
           T == {m \in Nat : \E g : g[0] = start /\ \A k \in 1 .. m : g[k] = ByOne(op, g[k - 1])}
<1>1. ByMany(op, v, c, n) = f[n]
  BY DEF ByMany
<1> HIDE DEF start
<1>2. 0 \in T
  <2>1. [k \in {0} |-> start][0] = start /\ 1 .. 0 = {}
    OBVIOUS
  <2> QED BY <2>1
<1>3. ASSUME NEW m \in T PROVE m + 1 \in T
  <2>1. PICK g : g[0] = start /\ \A k \in 1 .. m : g[k] = ByOne(op, g[k - 1])
    OBVIOUS
  <2> DEFINE h == [k \in 0 .. m + 1 |-> IF k = m + 1 THEN ByOne(op, g[m]) ELSE g[k]]
  <2>2. m \in Nat /\ (m + 1) - 1 = m
    OBVIOUS
  <2>3. \A k \in 0 .. m : h[k] = g[k]
    BY <2>2
  <2>4. h[m + 1] = ByOne(op, g[m])
    BY <2>2
  <2> HIDE DEF h
  <2>5. /\ \A k \in 1 .. m : k - 1 \in 0 .. m /\ k \in 0 .. m
        /\ \A k \in 1 .. m + 1 : k = m + 1 \/ k \in 1 .. m
        /\ 0 \in 0 .. m /\ m \in 0 .. m
    BY <2>2
  <2>6. h[0] = start /\ \A k \in 1 .. m + 1 : h[k] = ByOne(op, h[k - 1])
    BY <2>1, <2>2, <2>3, <2>4, <2>5, Zenon
  <2> QED BY <2>2, <2>6
<1>4. n \in T
  <2> HIDE DEF T
  <2> QED BY <1>2, <1>3, NatInduct DEF T
<1>5. \E g : g = [k \in 0 .. n |-> IF k = 0 THEN start ELSE ByOne(op, g[k - 1])]
  <2>1. PICK g : g[0] = start /\ \A k \in 1 .. n : g[k] = ByOne(op, g[k - 1])
    BY <1>4
  <2> DEFINE h == [k \in 0 .. n |-> g[k]]
  <2>2. \A k \in 0 .. n : h[k] = g[k]
    OBVIOUS
  <2>3. \A k \in 0 .. n : k # 0 => k - 1 \in 0 .. n /\ k \in 1 .. n
    OBVIOUS
  <2>4. \A k \in 0 .. n : h[k] = IF k = 0 THEN start ELSE ByOne(op, h[k - 1])
    <3> HIDE DEF h
    <3> QED BY <2>1, <2>2, <2>3, Zenon
  <2>5. h = [k \in 0 .. n |-> IF k = 0 THEN start ELSE ByOne(op, h[k - 1])]
    BY <2>4
  <2> HIDE DEF h
  <2> QED BY <2>5
<1> HIDE DEF T
<1>6. f = [k \in 0 .. n |-> IF k = 0 THEN start ELSE ByOne(op, f[k - 1])]
  BY <1>5, Zenon DEF f
<1> HIDE DEF f
<1>7. f[0] = start /\ \A k \in 1 .. n : f[k] = ByOne(op, f[k - 1])
  BY <1>6
<1> QED BY <1>1, <1>7 DEF start

-----------------------------------------------------------------------------
(***************************************************************************)
(* The weights of the bits.                                                *)
(***************************************************************************)

\* They are positive numbers,
LEMMA Pow2Type == \A k \in Nat : Pow2[k] \in Nat \ {0}
<1> DEFINE T == {k \in Nat : Pow2[k] \in Nat \ {0}}
<1>1. 0 \in T
  BY Pow2Step
<1>2. \A n \in T : n + 1 \in T
  BY Pow2Step
<1> HIDE DEF T
<1>3. T = Nat
  BY <1>1, <1>2, NatInduct DEF T
<1> QED BY <1>3 DEF T

\* and never get smaller.
LEMMA Pow2Grows == \A m \in Nat : \A n \in 0 .. m : Pow2[n] <= Pow2[m]
<1> DEFINE T == {m \in Nat : \A n \in 0 .. m : Pow2[n] <= Pow2[m]}
<1>1. 0 \in T
  BY Pow2Type
<1>2. ASSUME NEW m \in T PROVE m + 1 \in T
  <2>1. SUFFICES ASSUME NEW n \in 0 .. m + 1 PROVE Pow2[n] <= Pow2[m + 1]
    BY <1>2
  <2>2. m \in Nat /\ Pow2[m] \in Nat \ {0} /\ Pow2[m + 1] = 2 * Pow2[m]
    BY <1>2, Pow2Step, Pow2Type
  <2>3. CASE n = m + 1
    BY <2>2, <2>3
  <2>4. CASE n # m + 1
    <3>1. n \in 0 .. m /\ n \in Nat
      BY <2>2, <2>4
    <3>2. Pow2[n] <= Pow2[m] /\ Pow2[n] \in Nat
      BY <1>2, <3>1, Pow2Type
    <3> QED BY <2>2, <3>2
  <2> QED BY <2>3, <2>4
<1> HIDE DEF T
<1>3. T = Nat
  BY <1>1, <1>2, NatInduct DEF T
<1> QED BY <1>3 DEF T

-----------------------------------------------------------------------------
(***************************************************************************)
(* The bits of numbers.                                                    *)
(***************************************************************************)

\* Division, for the sums it is uniquely decided by.
LEMMA Divides ==
  \A b \in Nat \ {0} : \A q \in Int : \A r \in 0 .. b - 1 :
    (b * q + r) \div b = q /\ (b * q + r) % b = r
OBVIOUS

LEMMA DivMod ==
  \A p \in Nat \ {0} : \A x \in Nat :
    /\ x \div p \in Nat
    /\ x % p \in 0 .. p - 1
    /\ x = p * (x \div p) + (x % p)
OBVIOUS

\* Dividing by 2 first or last.
LEMMA DivTwice ==
  \A p \in Nat \ {0} : \A x \in Nat :
     /\ (x \div 2) \div p = x \div (2 * p)
     /\ (x \div p) \div 2 = x \div (2 * p)
OBVIOUS

\* Bit k of the number x.
BitAt(x, k) == (x \div Pow2[k]) % 2

LEMMA BitType == \A x \in Nat, k \in Nat : BitAt(x, k) \in {0, 1}
<1> SUFFICES ASSUME NEW x \in Nat, NEW k \in Nat PROVE (x \div Pow2[k]) % 2 \in {0, 1}
  BY DEF BitAt
<1>1. x \div Pow2[k] \in Nat
  BY Pow2Type, DivMod
<1> QED BY <1>1

LEMMA Halved == \A x \in Nat : x \div 2 \in Nat /\ x = 2 * (x \div 2) + (x % 2) /\ x % 2 \in {0, 1}
OBVIOUS

\* A number is its lowest bit and the bits of its half.
LEMMA Peel ==
  ASSUME NEW x \in Nat
  PROVE  BitAt(x, 0) = x % 2 /\ \A k \in Nat : BitAt(x, k + 1) = BitAt(x \div 2, k)
<1>1. BitAt(x, 0) = x % 2
  BY Pow2Step DEF BitAt
<1>2. ASSUME NEW k \in Nat PROVE BitAt(x, k + 1) = BitAt(x \div 2, k)
  BY Pow2Step, Pow2Type, DivTwice DEF BitAt
<1> QED BY <1>1, <1>2

\* One more bit of a number, from the top.
LEMMA Horner ==
  \A x \in Nat, k \in Nat : x \div Pow2[k] = 2 * (x \div Pow2[k + 1]) + BitAt(x, k)
<1> SUFFICES ASSUME NEW x \in Nat, NEW k \in Nat
             PROVE  x \div Pow2[k] = 2 * (x \div Pow2[k + 1]) + BitAt(x, k)
  OBVIOUS
<1>1. x \div Pow2[k] \in Nat /\ x \div Pow2[k + 1] = (x \div Pow2[k]) \div 2
  BY Pow2Step, Pow2Type, DivMod, DivTwice
<1> QED BY <1>1, Halved DEF BitAt

LEMMA TooSmall == \A p \in Nat \ {0} : \A x \in 0 .. p - 1 : x \div p = 0 /\ x % p = x
OBVIOUS

\* Numbers below 2^n whose bits add up, without a carry anywhere, add up.
LEMMA Sums ==
  ASSUME NEW n \in Nat, NEW r \in 0 .. Pow2[n] - 1,
         NEW a \in 0 .. Pow2[n] - 1, NEW b \in 0 .. Pow2[n] - 1,
         NEW c \in 0 .. Pow2[n] - 1, NEW d \in 0 .. Pow2[n] - 1,
         \A k \in 0 .. n - 1 : BitAt(r, k) + BitAt(c, k) + BitAt(d, k) = BitAt(a, k) + BitAt(b, k)
  PROVE  r + c + d = a + b
<1> DEFINE top(x, k) == x \div Pow2[n - k]
           T == {k \in Nat : k <= n => top(r, k) + top(c, k) + top(d, k) = top(a, k) + top(b, k)}
<1>1. r \in Nat /\ a \in Nat /\ b \in Nat /\ c \in Nat /\ d \in Nat
  BY Pow2Type
<1>2. 0 \in T
  BY Pow2Type, TooSmall
<1>3. ASSUME NEW k \in T PROVE k + 1 \in T
  <2> HIDE DEF top
  <2>1. SUFFICES ASSUME k + 1 <= n
                 PROVE  top(r, k + 1) + top(c, k + 1) + top(d, k + 1) = top(a, k + 1) + top(b, k + 1)
    BY <1>3
  <2> USE DEF top
  <2>2. top(r, k) + top(c, k) + top(d, k) = top(a, k) + top(b, k)
    BY <1>3, <2>1
  <2>3. n - (k + 1) \in 0 .. n - 1 /\ (n - (k + 1)) + 1 = n - k /\ k \in Nat
    BY <1>3, <2>1
  <2>4. \A x \in Nat : top(x, k + 1) = 2 * top(x, k) + BitAt(x, n - (k + 1))
    BY <2>3, Horner
  <2>5. \A x \in Nat : top(x, k) \in Nat /\ BitAt(x, n - (k + 1)) \in {0, 1}
    <3>1. n - k \in Nat
      BY <2>1, <2>3
    <3>2. \A x \in Nat : x \div Pow2[n - k] \in Nat
      BY <3>1, Pow2Type, DivMod
    <3> QED BY <2>3, <3>2, BitType
  <2> HIDE DEF top
  <2> QED BY <1>1, <2>2, <2>3, <2>4, <2>5
<1> HIDE DEF T
<1>4. n \in T
  BY <1>2, <1>3, NatInduct DEF T
<1>5. \A x \in Nat : top(x, n) = x
  BY Pow2Step
<1> HIDE DEF top
<1> QED BY <1>1, <1>4, <1>5 DEF T

\* Numbers below 2^n with the same bits are the same.
LEMMA Same ==
  ASSUME NEW n \in Nat, NEW x \in 0 .. Pow2[n] - 1, NEW y \in 0 .. Pow2[n] - 1,
         \A k \in 0 .. n - 1 : BitAt(x, k) = BitAt(y, k)
  PROVE  x = y
<1>1. 0 \in 0 .. Pow2[n] - 1
  BY Pow2Type
<1>2. \A k \in 0 .. n - 1 : /\ BitAt(x, k) + BitAt(0, k) + BitAt(0, k) = BitAt(y, k) + BitAt(0, k)
  <2>1. ASSUME NEW k \in 0 .. n - 1 PROVE BitAt(0, k) = 0 /\ BitAt(y, k) \in Int
    BY Pow2Type, TooSmall, BitType DEF BitAt
  <2> QED BY <2>1
<1>3. x + 0 + 0 = y + 0
  BY <1>1, <1>2, Sums, SMTT(60)
<1> QED BY <1>3, Pow2Type

\* Adding 2^n to a number below it sets bit n and changes no lower one.
LEMMA AddTop ==
  ASSUME NEW n \in Nat, NEW x \in 0 .. Pow2[n] - 1
  PROVE  /\ \A k \in 0 .. n - 1 : BitAt(x + Pow2[n], k) = BitAt(x, k)
         /\ BitAt(x + Pow2[n], n) = 1
         /\ BitAt(x, n) = 0
<1> DEFINE T == {m \in Nat : \A y \in 0 .. Pow2[m] - 1 : \A k \in 0 .. m - 1 :
                               BitAt(y + Pow2[m], k) = BitAt(y, k)}
<1>1. 0 \in T
  OBVIOUS
<1>2. ASSUME NEW m \in T PROVE m + 1 \in T
  <2>1. SUFFICES ASSUME NEW y \in 0 .. Pow2[m + 1] - 1, NEW k \in 0 .. m
                 PROVE  BitAt(y + Pow2[m + 1], k) = BitAt(y, k)
    BY <1>2
  <2>2. m \in Nat /\ Pow2[m] \in Nat \ {0} /\ Pow2[m + 1] = 2 * Pow2[m]
    BY <1>2, Pow2Step, Pow2Type
  <2>3. y \in Nat /\ y + Pow2[m + 1] \in Nat
    BY <2>2
  <2>4. (y + Pow2[m + 1]) % 2 = y % 2
    BY <2>2
  <2>5. (y + Pow2[m + 1]) \div 2 = y \div 2 + Pow2[m]
    BY <2>2
  <2>6. y \div 2 \in 0 .. Pow2[m] - 1
    BY <2>2
  <2>7. CASE k = 0
    BY <2>3, <2>4, <2>7, Peel
  <2>8. CASE k # 0
    <3>1. k - 1 \in 0 .. m - 1 /\ k - 1 \in Nat /\ k = (k - 1) + 1
      BY <2>2, <2>8
    <3>2. BitAt(y \div 2 + Pow2[m], k - 1) = BitAt(y \div 2, k - 1)
      BY <1>2, <2>6, <3>1
    <3>3. /\ BitAt(y, (k - 1) + 1) = BitAt(y \div 2, k - 1)
          /\ BitAt(y + Pow2[m + 1], (k - 1) + 1) = BitAt((y + Pow2[m + 1]) \div 2, k - 1)
      BY <2>3, <3>1, Peel
    <3> QED BY <2>5, <3>1, <3>2, <3>3
  <2> QED BY <2>7, <2>8
<1> HIDE DEF T
<1>3. n \in T
  BY <1>1, <1>2, NatInduct DEF T
<1>4. x \div Pow2[n] = 0 /\ (x + Pow2[n]) \div Pow2[n] = 1
  <2>1. \A p \in Nat \ {0} : \A y \in 0 .. p - 1 : (y + p) \div p = 1
    OBVIOUS
  <2> QED BY <2>1, Pow2Type, TooSmall
<1> QED BY <1>3, <1>4 DEF T, BitAt

\* The remainder by 2^n has the bits below n.
LEMMA ModBits ==
  ASSUME NEW n \in Nat, NEW x \in Nat, NEW k \in Nat
  PROVE  BitAt(x % Pow2[n], k) = IF k < n THEN BitAt(x, k) ELSE 0
<1> DEFINE T == {m \in Nat : \A y, j \in Nat :
                               BitAt(y % Pow2[m], j) = IF j < m THEN BitAt(y, j) ELSE 0}
<1>1. 0 \in T
  <2>1. \A y \in Nat : y % 1 = 0
    OBVIOUS
  <2>2. \A j \in Nat : BitAt(0, j) = 0
    BY Pow2Type, TooSmall DEF BitAt
  <2> QED BY <2>1, <2>2, Pow2Step
<1>2. ASSUME NEW m \in T PROVE m + 1 \in T
  <2>1. SUFFICES ASSUME NEW y \in Nat, NEW j \in Nat
                 PROVE  BitAt(y % Pow2[m + 1], j) = IF j < m + 1 THEN BitAt(y, j) ELSE 0
    BY <1>2
  <2>2. m \in Nat /\ Pow2[m] \in Nat \ {0} /\ Pow2[m + 1] = 2 * Pow2[m]
    BY <1>2, Pow2Step, Pow2Type
  <2> DEFINE z == y % Pow2[m + 1]
             w == (y \div 2) % Pow2[m]
  <2>3. z = 2 * w + (y % 2)
    <3>1. \A p \in Nat \ {0} : \A x1 \in Nat : x1 % (2 * p) = 2 * ((x1 \div 2) % p) + (x1 % 2)
      <4>1. SUFFICES ASSUME NEW p \in Nat \ {0}, NEW u \in Nat
                     PROVE  u % (2 * p) = 2 * ((u \div 2) % p) + (u % 2)
        OBVIOUS
      <4> DEFINE q == (u \div 2) \div p
                 t == (u \div 2) % p
      <4>2. u \div 2 \in Nat /\ u = 2 * (u \div 2) + (u % 2) /\ u % 2 \in {0, 1}
        BY Halved
      <4>3. q \in Nat /\ t \in 0 .. p - 1 /\ u \div 2 = p * q + t
        BY <4>2, DivMod
      <4> HIDE DEF q, t
      <4>4. (2 * p) * q = 2 * (p * q) /\ p * q \in Int
        BY <4>3
      <4>5. u = (2 * p) * q + (2 * t + (u % 2))
        BY <4>2, <4>3, <4>4
      <4>6. 2 * p \in Nat \ {0} /\ 2 * t + (u % 2) \in 0 .. 2 * p - 1
        BY <4>2, <4>3
      <4>7. PICK v \in 0 .. 2 * p - 1 : v = 2 * t + (u % 2)
        BY <4>6
      <4>8. u = (2 * p) * q + v
        BY <4>5, <4>7
      <4>9. ((2 * p) * q + v) % (2 * p) = v
        <5>1. q \in Int
          BY <4>3
        <5>2. 2 * p \in Nat \ {0}
          OBVIOUS
        <5> QED BY <4>7, <5>1, <5>2, Divides
      <4> QED BY <4>7, <4>8, <4>9 DEF t
    <3> QED BY <2>2, <3>1
  <2>4. w \in Nat /\ y % 2 \in {0, 1} /\ y \div 2 \in Nat
    <3>1. y \div 2 \in Nat /\ y % 2 \in {0, 1}
      BY Halved
    <3>2. w \in 0 .. Pow2[m] - 1
      BY <2>2, <3>1, DivMod
    <3> QED BY <2>2, <3>1, <3>2
  <2> HIDE DEF w, z
  <2>5. z \in Nat /\ z % 2 = y % 2 /\ z \div 2 = w
    BY <2>3, <2>4
  <2>6. CASE j = 0
    <3>1. BitAt(z, 0) = z % 2 /\ BitAt(y, 0) = y % 2
      BY <2>5, Peel
    <3> QED BY <2>2, <2>5, <2>6, <3>1 DEF z
  <2>7. CASE j # 0
    <3>1. j - 1 \in Nat /\ j = (j - 1) + 1
      BY <2>7
    <3>2. BitAt(w, j - 1) = IF j - 1 < m THEN BitAt(y \div 2, j - 1) ELSE 0
      BY <1>2, <2>4, <3>1 DEF w
    <3>3. BitAt(z, (j - 1) + 1) = BitAt(w, j - 1) /\ BitAt(y, (j - 1) + 1) = BitAt(y \div 2, j - 1)
      BY <2>5, <3>1, Peel
    <3> QED BY <2>2, <3>1, <3>2, <3>3 DEF z
  <2> QED BY <2>6, <2>7
<1> HIDE DEF T
<1>3. n \in T
  BY <1>1, <1>2, NatInduct DEF T
<1> QED BY <1>3 DEF T

\* The quotient by 2^m has the bits from m on.
LEMMA DivBits ==
  ASSUME NEW m \in Nat, NEW x \in Nat, NEW k \in Nat
  PROVE  BitAt(x \div Pow2[m], k) = BitAt(x, m + k)
<1> DEFINE T == {n \in Nat : \A y, j \in Nat : BitAt(y \div Pow2[n], j) = BitAt(y, n + j)}
<1>1. 0 \in T
  BY Pow2Step
<1>2. ASSUME NEW n \in T PROVE n + 1 \in T
  <2>1. SUFFICES ASSUME NEW y \in Nat, NEW j \in Nat
                 PROVE  BitAt(y \div Pow2[n + 1], j) = BitAt(y, (n + 1) + j)
    BY <1>2
  <2>2. n \in Nat /\ y \div Pow2[n + 1] = (y \div 2) \div Pow2[n] /\ y \div 2 \in Nat
    BY <1>2, Pow2Step, Pow2Type, DivTwice, Halved
  <2>3. BitAt((y \div 2) \div Pow2[n], j) = BitAt(y \div 2, n + j)
    BY <1>2, <2>2
  <2>4. BitAt(y, (n + j) + 1) = BitAt(y \div 2, n + j)
    <3>1. n + j \in Nat
      BY <2>2
    <3> QED BY <3>1, Peel
  <2>5. (n + j) + 1 = (n + 1) + j
    BY <2>2
  <2> QED BY <2>2, <2>3, <2>4, <2>5
<1> HIDE DEF T
<1>3. m \in T
  BY <1>1, <1>2, NatInduct DEF T
<1> QED BY <1>3 DEF T

\* 2^n - 1 has exactly the n lowest bits.
LEMMA OnesBits ==
  ASSUME NEW n \in Nat, NEW k \in Nat
  PROVE  BitAt(Pow2[n] - 1, k) = IF k < n THEN 1 ELSE 0
<1> DEFINE T == {m \in Nat : \A j \in Nat : BitAt(Pow2[m] - 1, j) = IF j < m THEN 1 ELSE 0}
<1>1. 0 \in T
  <2>1. \A j \in Nat : BitAt(0, j) = 0
    BY Pow2Type, TooSmall DEF BitAt
  <2>2. Pow2[0] - 1 = 0
    BY Pow2Step
  <2> QED BY <2>1, <2>2
<1>2. ASSUME NEW m \in T PROVE m + 1 \in T
  <2>1. SUFFICES ASSUME NEW j \in Nat
                 PROVE  BitAt(Pow2[m + 1] - 1, j) = IF j < m + 1 THEN 1 ELSE 0
    BY <1>2
  <2>2. m \in Nat /\ Pow2[m] \in Nat \ {0} /\ Pow2[m + 1] = 2 * Pow2[m]
    BY <1>2, Pow2Step, Pow2Type
  <2>3. /\ Pow2[m + 1] - 1 \in Nat
        /\ (Pow2[m + 1] - 1) % 2 = 1
        /\ (Pow2[m + 1] - 1) \div 2 = Pow2[m] - 1
    BY <2>2
  <2>4. CASE j = 0
    BY <2>2, <2>3, <2>4, Peel
  <2>5. CASE j # 0
    <3>1. j - 1 \in Nat /\ j = (j - 1) + 1
      BY <2>5
    <3>2. BitAt(Pow2[m + 1] - 1, (j - 1) + 1) = BitAt(Pow2[m] - 1, j - 1)
      BY <2>3, <3>1, Peel
    <3>3. BitAt(Pow2[m] - 1, j - 1) = IF j - 1 < m THEN 1 ELSE 0
      BY <1>2, <3>1
    <3> QED BY <2>2, <3>1, <3>2, <3>3
  <2> QED BY <2>4, <2>5
<1> HIDE DEF T
<1>3. n \in T
  BY <1>1, <1>2, NatInduct DEF T
<1> QED BY <1>3 DEF T

-----------------------------------------------------------------------------
(***************************************************************************)
(* Words and their ones.                                                   *)
(***************************************************************************)

\* The word has a bit; the upper half of the words have the highest one.
LEMMA Width ==
  /\ WordBits \in Nat \ {0} /\ WordMod = Pow2[WordBits] /\ Half = Pow2[WordBits - 1]
  /\ Half \in Nat \ {0} /\ WordMod = 2 * Half
<1>1. WordBits \in Nat /\ WordMod = Pow2[WordBits] /\ WordMod >= 2 /\ WordMod \in Nat
  BY AluAssumption
<1>2. WordBits # 0
  BY <1>1, Pow2Step
<1>3. WordBits - 1 \in Nat /\ WordBits = (WordBits - 1) + 1
  BY <1>1, <1>2
<1>4. WordMod = 2 * Pow2[WordBits - 1] /\ Pow2[WordBits - 1] \in Nat \ {0}
  BY <1>1, <1>3, Pow2Step, Pow2Type
<1> QED BY <1>1, <1>2, <1>4 DEF Half

\* Bit positions stay, words are numbers below 2^WordBits.
LEMMA OnesAre ==
  ASSUME NEW x \in Word
  PROVE  /\ \A k : k \in Ones[x] <=> k \in Bit /\ BitAt(x, k) = 1
         /\ x \in Nat /\ x \in 0 .. Pow2[WordBits] - 1
<1>1. Ones[x] = {k \in Bit : (x \div Pow2[k]) % 2 = 1}
  BY DEF Ones
<1> QED BY <1>1, Width, Pow2Type DEF BitAt, Word

\* A word is decided by its ones.
LEMMA SameOnes ==
  ASSUME NEW x \in Word, NEW y \in Word, Ones[x] = Ones[y]
  PROVE  x = y
<1>1. \A k \in 0 .. WordBits - 1 : BitAt(x, k) = BitAt(y, k)
  <2>1. SUFFICES ASSUME NEW k \in 0 .. WordBits - 1 PROVE BitAt(x, k) = BitAt(y, k)
    OBVIOUS
  <2>2. BitAt(x, k) \in {0, 1} /\ BitAt(y, k) \in {0, 1}
    BY Width, OnesAre, BitType
  <2>3. BitAt(x, k) = 1 <=> BitAt(y, k) = 1
    BY OnesAre DEF Bit
  <2> QED BY <2>2, <2>3
<1> QED BY <1>1, Width, OnesAre, Same, ZenonT(60)

\* The sign is the highest bit, oddness the lowest.
LEMMA EndBits ==
  ASSUME NEW v \in Word
  PROVE  /\ Neg(v) <=> WordBits - 1 \in Ones[v]
         /\ v % 2 = 1 <=> 0 \in Ones[v]
<1>1. v \in Nat /\ 0 \in Bit /\ WordBits - 1 \in Bit /\ WordBits - 1 \in Nat
  BY OnesAre, Width DEF Bit
<1>2. v % 2 = 1 <=> 0 \in Ones[v]
  BY <1>1, OnesAre, Peel
<1>3. CASE Neg(v)
  <2>1. v - Half \in 0 .. Pow2[WordBits - 1] - 1 /\ (v - Half) + Pow2[WordBits - 1] = v
    BY <1>1, <1>3, Width DEF Neg, Word
  <2>2. BitAt(v, WordBits - 1) = 1
    BY <1>1, <2>1, AddTop
  <2> QED BY <1>1, <1>2, <1>3, <2>2, OnesAre
<1>4. CASE ~Neg(v)
  <2>1. v \in 0 .. Pow2[WordBits - 1] - 1
    BY <1>1, <1>4, Width DEF Neg, Word
  <2>2. BitAt(v, WordBits - 1) = 0
    BY <1>1, <2>1, AddTop
  <2> QED BY <1>1, <1>2, <1>4, <2>2, OnesAre
<1> QED BY <1>3, <1>4

\* Doubling moves the ones up and drops the highest.
LEMMA DoubledOnes ==
  ASSUME NEW v \in Word
  PROVE  /\ (2 * v) % WordMod \in Word
         /\ \A k \in Bit : k \in Ones[(2 * v) % WordMod] <=> k - 1 \in Ones[v]
<1> DEFINE low == IF Neg(v) THEN v - Half ELSE v
<1>1. v \in Nat /\ WordBits - 1 \in Nat
  BY OnesAre, Width
<1>2. low \in 0 .. Pow2[WordBits - 1] - 1 /\ low \in Nat
  BY <1>1, Width DEF Neg, Word
<1>3. (2 * v) % WordMod = 2 * low
  <2>1. 2 * low \in 0 .. WordMod - 1
    BY <1>1, <1>2, Width
  <2>2. PICK q \in Int : q = IF Neg(v) THEN 1 ELSE 0
    OBVIOUS
  <2>3. (WordMod * q + 2 * low) % WordMod = 2 * low
    <3>1. WordMod \in Nat \ {0}
      BY Width
    <3> HIDE DEF low
    <3> QED BY <2>1, <3>1, Divides
  <2>4. 2 * v = WordMod * q + 2 * low
    BY <1>1, <2>2, Width
  <2> QED BY <2>3, <2>4
<1>4. \A k \in 0 .. WordBits - 2 : BitAt(low, k) = BitAt(v, k)
  <2>1. CASE Neg(v)
    BY <1>1, <1>2, <2>1, Width, AddTop
  <2>2. CASE ~Neg(v)
    BY <2>2
  <2> QED BY <2>1, <2>2
<1> HIDE DEF low
<1>5. 2 * low \in Word
  BY <1>2, Width DEF Word
<1>6. ASSUME NEW k \in Bit PROVE k \in Ones[2 * low] <=> k - 1 \in Ones[v]
  <2>1. 2 * low \in Nat /\ (2 * low) % 2 = 0 /\ (2 * low) \div 2 = low
    BY <1>2
  <2>2. k \in Ones[2 * low] <=> BitAt(2 * low, k) = 1
    BY <1>5, OnesAre
  <2>3. CASE k = 0
    BY <2>1, <2>2, <2>3, Peel, OnesAre DEF Bit
  <2>4. CASE k # 0
    <3>1. k - 1 \in Nat /\ k = (k - 1) + 1 /\ k - 1 \in 0 .. WordBits - 2 /\ k - 1 \in Bit
      BY <2>4, Width DEF Bit
    <3>2. BitAt(2 * low, (k - 1) + 1) = BitAt(low, k - 1)
      BY <2>1, <3>1, Peel
    <3> QED BY <1>4, <2>2, <3>1, <3>2, OnesAre
  <2> QED BY <2>3, <2>4
<1> QED BY <1>3, <1>5, <1>6

\* Halving moves the ones down and drops the lowest; the sign bit can be put back.
LEMMA HalvedOnes ==
  ASSUME NEW v \in Word
  PROVE  /\ v \div 2 \in Word /\ v \div 2 + Half \in Word
         /\ \A k \in Bit : k \in Ones[v \div 2] <=> k + 1 \in Ones[v]
         /\ \A k \in Bit : k \in Ones[v \div 2 + Half] <=> k = WordBits - 1 \/ k + 1 \in Ones[v]
<1> DEFINE h == v \div 2
<1>1. v \in Nat /\ WordBits - 1 \in Nat
  BY OnesAre, Width
<1>2. h \in 0 .. Pow2[WordBits - 1] - 1 /\ h \in Nat
  BY <1>1, Width DEF Word
<1>3. \A k \in Nat : BitAt(h, k) = BitAt(v, k + 1)
  BY <1>1, Peel
<1> HIDE DEF h
<1>4. h \in Word /\ h + Half \in Word
  BY <1>2, Width DEF Word
<1>5. /\ \A k \in 0 .. WordBits - 2 : BitAt(h + Half, k) = BitAt(h, k)
      /\ BitAt(h + Half, WordBits - 1) = 1 /\ BitAt(h, WordBits - 1) = 0
  BY <1>1, <1>2, Width, AddTop
<1>6. ASSUME NEW k \in Bit
      PROVE  /\ k \in Ones[h] <=> k + 1 \in Ones[v]
             /\ k \in Ones[h + Half] <=> k = WordBits - 1 \/ k + 1 \in Ones[v]
  <2>1. k \in Nat /\ (k = WordBits - 1 \/ k \in 0 .. WordBits - 2)
    BY Width DEF Bit
  <2>2. k + 1 \in Bit <=> k # WordBits - 1
    BY Width DEF Bit
  <2> QED BY <1>3, <1>4, <1>5, <2>1, <2>2, OnesAre
<1> QED BY <1>4, <1>6 DEF h

-----------------------------------------------------------------------------
(***************************************************************************)
(* Shifts: n single shifts leave the ones R[n] and the carry C[n].         *)
(***************************************************************************)

\* A single shift takes the ones R[k] to R[k + 1] and drops C[k + 1], for the first n.
Follows(op, n, R, C) ==
  \A k \in 0 .. n - 1 : \A s : s.v \in Word /\ Ones[s.v] = R[k] =>
    /\ ByOne(op, s).v \in Word
    /\ Ones[ByOne(op, s).v] = R[k + 1]
    /\ ByOne(op, s).c = C[k + 1]
Leaves(s, ones, c) == s.v \in Word /\ Ones[s.v] = ones /\ s.c = c

\* n of them leave the ones R[n] and the carry C[n].
LEMMA Runs ==
  ASSUME NEW op, NEW a \in Word, NEW n \in Nat, NEW R, NEW C,
         R[0] = Ones[a], Follows(op, n, R, C)
  PROVE  Leaves(ByMany(op, a, C[0], n), R[n], C[n])
<1>1. PICK f : /\ f[0] = [v |-> a, c |-> C[0]]
               /\ \A k \in 1 .. n : f[k] = ByOne(op, f[k - 1])
               /\ ByMany(op, a, C[0], n) = f[n]
  BY ByManyRuns
<1> DEFINE T == {k \in Nat : k <= n => f[k].v \in Word /\ Ones[f[k].v] = R[k] /\ f[k].c = C[k]}
<1>2. f[0] = [v |-> a, c |-> C[0]]
  BY <1>1
<1>3. 0 \in T
  BY <1>2
<1>4. ASSUME NEW k \in T PROVE k + 1 \in T
  <2>1. SUFFICES ASSUME k + 1 <= n
                 PROVE  f[k + 1].v \in Word /\ Ones[f[k + 1].v] = R[k + 1] /\ f[k + 1].c = C[k + 1]
    BY <1>4
  <2>2. k \in 0 .. n - 1 /\ k + 1 \in 1 .. n /\ (k + 1) - 1 = k
    BY <1>4, <2>1
  <2>3. f[k + 1] = ByOne(op, f[k])
    BY <1>1, <2>2
  <2>4. f[k].v \in Word /\ Ones[f[k].v] = R[k]
    BY <1>4, <2>1, <2>2
  <2> QED BY <2>2, <2>3, <2>4 DEF Follows
<1> HIDE DEF T
<1>5. n \in T
  BY <1>3, <1>4, NatInduct DEF T
<1> QED BY <1>1, <1>5 DEF T, Leaves

LEMMA OnesInBit == \A x \in Word : Ones[x] \subseteq Bit
BY DEF Ones

\* One shift to the left.
LEMMA OneLsl ==
  ASSUME NEW s, s.v \in Word
  PROVE  /\ ByOne("lsl", s).v \in Word
         /\ \A j \in Bit : j \in Ones[ByOne("lsl", s).v] <=> j - 1 \in Ones[s.v]
         /\ ByOne("lsl", s).c = (WordBits - 1 \in Ones[s.v])
<1>1. ByOne("lsl", s) = [v |-> (2 * s.v) % WordMod, c |-> Neg(s.v)]
  BY DEF ByOne
<1>2. Neg(s.v) \in BOOLEAN /\ Neg(s.v) = (WordBits - 1 \in Ones[s.v])
  BY EndBits DEF Neg
<1> QED BY <1>1, <1>2, DoubledOnes

\* One shift to the right, of each kind.
LEMMA OneRight ==
  ASSUME NEW s, s.v \in Word
  PROVE  /\ ByOne("lsr", s).v \in Word
         /\ \A j \in Bit : j \in Ones[ByOne("lsr", s).v] <=> j + 1 \in Ones[s.v]
         /\ ByOne("lsr", s).c = (0 \in Ones[s.v])
         /\ ByOne("asr", s).v \in Word
         /\ \A j \in Bit : j \in Ones[ByOne("asr", s).v] <=>
              j + 1 \in Ones[s.v] \/ (j = WordBits - 1 /\ WordBits - 1 \in Ones[s.v])
         /\ ByOne("asr", s).c = (0 \in Ones[s.v])
         /\ ByOne("ror", s).v \in Word
         /\ \A j \in Bit : j \in Ones[ByOne("ror", s).v] <=>
              j + 1 \in Ones[s.v] \/ (j = WordBits - 1 /\ 0 \in Ones[s.v])
         /\ ByOne("ror", s).c = (0 \in Ones[s.v])
<1>1. /\ ByOne("lsr", s) = [v |-> s.v \div 2, c |-> s.v % 2 = 1]
      /\ ByOne("asr", s) = [v |-> (s.v \div 2) + (IF Neg(s.v) THEN Half ELSE 0), c |-> s.v % 2 = 1]
      /\ ByOne("ror", s) = [v |-> (s.v \div 2) + (IF s.v % 2 = 1 THEN Half ELSE 0), c |-> s.v % 2 = 1]
  BY DEF ByOne
<1>2. /\ s.v % 2 = 1 <=> 0 \in Ones[s.v]
      /\ Neg(s.v) <=> WordBits - 1 \in Ones[s.v]
      /\ Half \in Nat /\ s.v \div 2 \in Nat /\ Ones[s.v] \subseteq Bit
  BY EndBits, OnesAre, OnesInBit, Width
<1>3. ASSUME NEW j \in Bit PROVE j + 1 \in Ones[s.v] => j # WordBits - 1
  BY <1>2, Width DEF Bit
<1>4. (s.v \div 2) + 0 = s.v \div 2
  BY <1>2
<1> QED BY <1>1, <1>2, <1>3, <1>4, HalvedOnes

\* The ones that a shift by n leaves are those n places off that the word has.
LEMMA Moves ==
  ASSUME NEW a \in Word, NEW n \in Nat
  PROVE  /\ \A j : j \in Left(a, n) <=> j \in Bit /\ j - n \in Ones[a]
         /\ \A j : j \in Right(a, n) <=> j \in Bit /\ j + n \in Ones[a]
         /\ Left(a, n) \subseteq Bit /\ Right(a, n) \subseteq Bit
<1>1. \A k \in Ones[a] : k \in Int
  BY OnesInBit DEF Bit
<1>2. \A j \in Bit : j \in Int
  BY DEF Bit
<1> QED BY <1>1, <1>2 DEF Left, Right

\* n shifts to the left.
LEMMA ManyLsl ==
  ASSUME NEW a \in Word, NEW c \in BOOLEAN, NEW n \in Nat, NEW s, s = ByMany("lsl", a, c, n)
  PROVE  /\ s.v \in Word /\ Ones[s.v] = Left(a, n)
         /\ s.c = IF n = 0 THEN c ELSE WordBits - n \in Ones[a]
<1> DEFINE R == [k \in Nat |-> Left(a, k)]
           C == [k \in Nat |-> IF k = 0 THEN c ELSE WordBits - k \in Ones[a]]
<1>1. R[0] = Ones[a]
  <2>1. \A j \in Bit : j - 0 = j
    BY DEF Bit
  <2>2. \A j \in Bit : j \in Left(a, 0) <=> j - 0 \in Ones[a]
    BY Moves
  <2>3. Left(a, 0) \subseteq Bit /\ R[0] = Left(a, 0)
    BY Moves
  <2> HIDE DEF R
  <2> QED BY <2>1, <2>2, <2>3, OnesInBit, SMTT(60)
<1>2. ASSUME NEW k \in 0 .. n - 1, NEW t, t.v \in Word, Ones[t.v] = R[k]
      PROVE  /\ ByOne("lsl", t).v \in Word
             /\ Ones[ByOne("lsl", t).v] = R[k + 1]
             /\ ByOne("lsl", t).c = C[k + 1]
  <2> DEFINE u == ByOne("lsl", t)
  <2>1. /\ u.v \in Word
        /\ \A j \in Bit : j \in Ones[u.v] <=> j - 1 \in Left(a, k)
        /\ u.c = (WordBits - 1 \in Left(a, k))
    BY <1>2, OneLsl
  <2> HIDE DEF u
  <2>2. k \in Nat /\ k + 1 \in Nat /\ k + 1 # 0
    OBVIOUS
  <2>3. ASSUME NEW j \in Bit PROVE j \in Ones[u.v] <=> j \in Left(a, k + 1)
    <3>1. (j - 1) - k = j - (k + 1) /\ (j - (k + 1) \in Bit => j - 1 \in Bit)
      BY Width DEF Bit
    <3> QED BY <2>1, <2>2, <3>1, Moves, OnesInBit
  <2>4. Ones[u.v] = Left(a, k + 1)
    BY <2>1, <2>2, <2>3, Moves, OnesInBit
  <2>5. (WordBits - 1) - k = WordBits - (k + 1) /\ WordBits - 1 \in Bit
    BY Width DEF Bit
  <2>6. (WordBits - 1 \in Left(a, k)) = (WordBits - (k + 1) \in Ones[a])
    BY <2>2, <2>5, Moves
  <2> QED BY <2>1, <2>2, <2>4, <2>6 DEF u
<1>3. C[0] = c
  OBVIOUS
<1> HIDE DEF R, C
<1>4. Follows("lsl", n, R, C)
  BY <1>2 DEF Follows
<1>5. Leaves(ByMany("lsl", a, C[0], n), R[n], C[n])
  BY <1>1, <1>4, Runs
<1> QED BY <1>3, <1>5 DEF R, C, Leaves

\* n shifts to the right that bring in zeros.
LEMMA ManyLsr ==
  ASSUME NEW a \in Word, NEW c \in BOOLEAN, NEW n \in Nat, NEW s, s = ByMany("lsr", a, c, n)
  PROVE  /\ s.v \in Word /\ Ones[s.v] = Right(a, n)
         /\ s.c = IF n = 0 THEN c ELSE n - 1 \in Ones[a]
<1> DEFINE R == [k \in Nat |-> Right(a, k)]
           C == [k \in Nat |-> IF k = 0 THEN c ELSE k - 1 \in Ones[a]]
<1>1. R[0] = Ones[a]
  <2>1. \A j \in Bit : j + 0 = j
    BY DEF Bit
  <2>2. \A j \in Bit : j \in Right(a, 0) <=> j + 0 \in Ones[a]
    BY Moves
  <2>3. Right(a, 0) \subseteq Bit /\ R[0] = Right(a, 0)
    BY Moves
  <2> HIDE DEF R
  <2> QED BY <2>1, <2>2, <2>3, OnesInBit
<1>2. ASSUME NEW k \in 0 .. n - 1, NEW t, t.v \in Word, Ones[t.v] = R[k]
      PROVE  /\ ByOne("lsr", t).v \in Word
             /\ Ones[ByOne("lsr", t).v] = R[k + 1]
             /\ ByOne("lsr", t).c = C[k + 1]
  <2> DEFINE u == ByOne("lsr", t)
  <2>1. /\ u.v \in Word
        /\ \A j \in Bit : j \in Ones[u.v] <=> j + 1 \in Right(a, k)
        /\ u.c = (0 \in Right(a, k))
    BY <1>2, OneRight
  <2> HIDE DEF u
  <2>2. k \in Nat /\ k + 1 \in Nat /\ k + 1 # 0 /\ (k + 1) - 1 = k /\ 0 + k = k /\ 0 \in Bit
    BY Width DEF Bit
  <2>3. ASSUME NEW j \in Bit PROVE j \in Ones[u.v] <=> j \in Right(a, k + 1)
    <3>1. (j + 1) + k = j + (k + 1) /\ (j + (k + 1) \in Bit => j + 1 \in Bit)
      BY Width DEF Bit
    <3> QED BY <2>1, <2>2, <3>1, Moves, OnesInBit
  <2>4. Ones[u.v] = Right(a, k + 1)
    BY <2>1, <2>2, <2>3, Moves, OnesInBit
  <2>6. (0 \in Right(a, k)) = (k \in Ones[a])
    BY <2>2, Moves
  <2> QED BY <2>1, <2>2, <2>4, <2>6 DEF u
<1>3. C[0] = c
  OBVIOUS
<1> HIDE DEF R, C
<1>4. Follows("lsr", n, R, C)
  BY <1>2 DEF Follows
<1>5. Leaves(ByMany("lsr", a, C[0], n), R[n], C[n])
  BY <1>1, <1>4, Runs
<1> QED BY <1>3, <1>5 DEF R, C, Leaves

\* The amount after which nothing more changes.
Within(n) == IF n < WordBits THEN n ELSE WordBits

\* n shifts to the right that copy the sign.
LEMMA ManyAsr ==
  ASSUME NEW a \in Word, NEW c \in BOOLEAN, NEW n \in Nat, NEW s, s = ByMany("asr", a, c, n),
         NEW m, m = Within(n)
  PROVE  /\ s.v \in Word /\ Ones[s.v] = Right(a, m) \cup SignFill(a, m)
         /\ s.c = IF n = 0 THEN c ELSE m - 1 \in Ones[a]
<1> USE DEF Within
<1> DEFINE top == WordBits - 1 \in Ones[a]
           R == [k \in Nat |-> {j \in Bit : j + k \in Ones[a] \/ (j + k >= WordBits /\ top)}]
           C == [k \in Nat |-> IF k = 0 THEN c
                               ELSE k - 1 \in Ones[a] \/ (k - 1 >= WordBits /\ top)]
<1>1. R[0] = Ones[a]
  <2>1. \A j \in Bit : j + 0 = j /\ ~(j >= WordBits)
    BY Width DEF Bit
  <2> QED BY <2>1, OnesInBit
<1>2. ASSUME NEW k \in 0 .. n - 1, NEW t, t.v \in Word, Ones[t.v] = R[k]
      PROVE  /\ ByOne("asr", t).v \in Word
             /\ Ones[ByOne("asr", t).v] = R[k + 1]
             /\ ByOne("asr", t).c = C[k + 1]
  <2> DEFINE u == ByOne("asr", t)
  <2>1. /\ u.v \in Word
        /\ \A j \in Bit : j \in Ones[u.v] <=>
             j + 1 \in R[k] \/ (j = WordBits - 1 /\ WordBits - 1 \in R[k])
        /\ u.c = (0 \in R[k])
    BY <1>2, OneRight
  <2> HIDE DEF u
  <2>2. k \in Nat /\ k + 1 \in Nat /\ k + 1 # 0 /\ (k + 1) - 1 = k /\ 0 + k = k /\ 0 \in Bit
    BY Width DEF Bit
  <2>3. ASSUME NEW j \in Bit PROVE j \in Ones[u.v] <=> j \in R[k + 1]
    <3>1. (j + 1) + k = j + (k + 1) /\ (j + 1 \in Bit <=> j # WordBits - 1)
      BY Width DEF Bit
    <3>2. CASE j # WordBits - 1
      BY <2>1, <2>2, <3>1, <3>2
    <3>3. CASE j = WordBits - 1
      <4>1. /\ j + 1 \notin R[k]
            /\ j + (k + 1) >= WordBits /\ j + (k + 1) \notin Ones[a]
            /\ WordBits - 1 \in Bit
        BY <3>1, <3>3, Width, OnesInBit DEF Bit
      <4>2. WordBits - 1 \in R[k] <=> top
        <5>1. CASE k = 0
          <6>1. (WordBits - 1) + 0 = WordBits - 1 /\ ~((WordBits - 1) + 0 >= WordBits)
            BY Width
          <6> QED BY <4>1, <5>1, <6>1
        <5>2. CASE k # 0
          <6>1. (WordBits - 1) + k >= WordBits /\ (WordBits - 1) + k \notin Ones[a]
            BY <5>2, Width, OnesInBit DEF Bit
          <6> QED BY <2>2, <4>1, <6>1
        <5> QED BY <5>1, <5>2
      <4>3. WordBits - 1 \in R[k + 1] <=> top
        BY <2>2, <3>3, <4>1
      <4> QED BY <2>1, <3>3, <4>1, <4>2, <4>3
    <3> QED BY <3>2, <3>3
  <2>4. Ones[u.v] = R[k + 1]
    BY <2>1, <2>2, <2>3, OnesInBit
  <2>6. (0 \in R[k]) = (k \in Ones[a] \/ (k >= WordBits /\ top))
    BY <2>2
  <2> QED BY <2>1, <2>2, <2>4, <2>6 DEF u
<1>3. C[0] = c
  OBVIOUS
<1> HIDE DEF R, C
<1>4. Follows("asr", n, R, C)
  BY <1>2 DEF Follows
<1>5. Leaves(ByMany("asr", a, C[0], n), R[n], C[n])
  BY <1>1, <1>4, Runs
<1>6. R[n] = Right(a, m) \cup SignFill(a, m)
  <2>1. /\ m \in Nat
        /\ Neg(a) <=> top
    BY EndBits, Width
  <2>2. ASSUME NEW j \in Bit
        PROVE  j \in R[n] <=> j \in Right(a, m) \/ j \in SignFill(a, m)
    <3>1. j \in SignFill(a, m) <=> top /\ j + m >= WordBits
      BY <2>1, Width DEF SignFill, Bit
    <3>2. j \in Right(a, m) <=> j + m \in Ones[a]
      BY <2>1, Moves
    <3>3. j \in R[n] <=> j + n \in Ones[a] \/ (j + n >= WordBits /\ top)
      BY DEF R
    <3>4. CASE n < WordBits
      BY <3>1, <3>2, <3>3, <3>4
    <3>5. CASE ~(n < WordBits)
      <4>1. j + n >= WordBits /\ j + n \notin Ones[a] /\ j + m >= WordBits /\ j + m \notin Ones[a]
        BY <3>5, Width, OnesInBit DEF Bit
      <4> QED BY <3>1, <3>2, <3>3, <4>1
    <3> QED BY <3>4, <3>5
  <2>3. R[n] \subseteq Bit /\ Right(a, m) \subseteq Bit /\ SignFill(a, m) \subseteq Bit
    BY <2>1, Moves DEF R, SignFill
  <2> QED BY <2>2, <2>3
<1>7. C[n] = IF n = 0 THEN c ELSE m - 1 \in Ones[a]
  <2>1. CASE n <= WordBits
    BY <2>1, Width DEF C
  <2>2. CASE ~(n <= WordBits)
    <3>1. n # 0 /\ n - 1 >= WordBits /\ n - 1 \notin Ones[a] /\ m - 1 = WordBits - 1
      BY <2>2, Width, OnesInBit DEF Bit
    <3>2. C[n] = top
      BY <3>1 DEF C
    <3> QED BY <3>1, <3>2
  <2> QED BY <2>1, <2>2
<1> QED BY <1>3, <1>5, <1>6, <1>7 DEF Leaves

\* Remainders of integers.
LEMMA Remainders ==
  \A w \in Nat \ {0} : \A x \in Int :
    x \div w \in Int /\ x % w \in 0 .. w - 1 /\ x = w * (x \div w) + (x % w)
OBVIOUS

LEMMA RemainderIs ==
  ASSUME NEW w \in Nat \ {0}, NEW q \in Int, NEW r \in 0 .. w - 1, NEW x, x = w * q + r
  PROVE  x % w = r
BY Divides

LEMMA AddedWidth ==
  ASSUME NEW w \in Nat \ {0}, NEW x \in Int
  PROVE  (x + w) % w = x % w
<1> DEFINE q == x \div w
           r == x % w
<1>1. q \in Int /\ r \in 0 .. w - 1 /\ x = w * q + r
  BY Remainders
<1> HIDE DEF q, r
<1>2. w * (q + 1) = w * q + w /\ w * q \in Int
  BY <1>1
<1>3. x + w = w * (q + 1) + r /\ q + 1 \in Int
  BY <1>1, <1>2
<1>4. (x + w) % w = r
  BY <1>1, <1>3, RemainderIs
<1> QED BY <1>4 DEF r

\* Rotating by n and back.
LEMMA Rotated ==
  ASSUME NEW n \in Nat, NEW j \in Bit, NEW k \in Bit
  PROVE  (j = (k - n) % WordBits) <=> ((j + n) % WordBits = k)
<1> DEFINE w == WordBits
<1> w \in Nat \ {0} /\ j \in 0 .. w - 1 /\ k \in 0 .. w - 1
  BY Width DEF Bit
<1> HIDE DEF w
<1>1. ASSUME j = (k - n) % w PROVE (j + n) % w = k
  <2> DEFINE q == (k - n) \div w
  <2>1. q \in Int /\ k - n = w * q + j
    BY <1>1, Remainders
  <2> HIDE DEF q
  <2>2. w * (-q) = -(w * q) /\ w * q \in Int
    BY <2>1
  <2>3. j + n = w * (-q) + k /\ -q \in Int
    BY <2>1, <2>2
  <2> QED BY <2>3, RemainderIs, ZenonT(60)
<1>2. ASSUME (j + n) % w = k PROVE j = (k - n) % w
  <2> DEFINE q == (j + n) \div w
  <2>1. q \in Int /\ j + n = w * q + k
    <3>1. j + n = w * ((j + n) \div w) + ((j + n) % w) /\ (j + n) \div w \in Int
      <4>1. j + n \in Int
        OBVIOUS
      <4> QED BY <4>1, Remainders
    <3> QED BY <1>2, <3>1
  <2> HIDE DEF q
  <2>2. w * (-q) = -(w * q) /\ w * q \in Int
    BY <2>1
  <2>3. k - n = w * (-q) + j /\ -q \in Int
    BY <2>1, <2>2
  <2> QED BY <2>3, RemainderIs
<1> QED BY <1>1, <1>2 DEF w

\* The ones of a, n places down and around.
Turned(a, n) == {(k - n) % WordBits : k \in Ones[a]}

\* n rotations.
LEMMA ManyRor ==
  ASSUME NEW a \in Word, NEW c \in BOOLEAN, NEW n \in Nat, NEW s, s = ByMany("ror", a, c, n),
         NEW ones, ones = Turned(a, n)
  PROVE  /\ s.v \in Word /\ Ones[s.v] = ones
         /\ s.c = IF n = 0 THEN c ELSE WordBits - 1 \in ones
<1> DEFINE R == [k \in Nat |-> {j \in Bit : (j + k) % WordBits \in Ones[a]}]
           C == [k \in Nat |-> IF k = 0 THEN c ELSE (k - 1) % WordBits \in Ones[a]]
<1>1. R[0] = Ones[a]
  <2>1. \A j \in Bit : (j + 0) % WordBits = j
    BY Width DEF Bit
  <2>2. R[0] = {j \in Bit : (j + 0) % WordBits \in Ones[a]}
    OBVIOUS
  <2> HIDE DEF R
  <2> QED BY <2>1, <2>2, OnesInBit
<1>2. ASSUME NEW k \in 0 .. n - 1, NEW t, t.v \in Word, Ones[t.v] = R[k]
      PROVE  /\ ByOne("ror", t).v \in Word
             /\ Ones[ByOne("ror", t).v] = R[k + 1]
             /\ ByOne("ror", t).c = C[k + 1]
  <2> DEFINE u == ByOne("ror", t)
  <2>1. /\ u.v \in Word
        /\ \A j \in Bit : j \in Ones[u.v] <=>
             j + 1 \in R[k] \/ (j = WordBits - 1 /\ 0 \in R[k])
        /\ u.c = (0 \in R[k])
    BY <1>2, OneRight
  <2> HIDE DEF u
  <2>2. k \in Nat /\ k + 1 \in Nat /\ k + 1 # 0 /\ (k + 1) - 1 = k /\ 0 + k = k /\ 0 \in Bit
    BY Width DEF Bit
  <2>3. ASSUME NEW j \in Bit PROVE j \in Ones[u.v] <=> j \in R[k + 1]
    <3>1. (j + 1) + k = j + (k + 1) /\ (j + 1 \in Bit <=> j # WordBits - 1)
      BY Width DEF Bit
    <3>2. CASE j # WordBits - 1
      BY <2>1, <2>2, <3>1, <3>2
    <3>3. CASE j = WordBits - 1
      <4>1. j + (k + 1) = k + WordBits
        BY <3>3, Width
      <4>2. (j + (k + 1)) % WordBits = k % WordBits
        <5>1. (k + WordBits) % WordBits = k % WordBits
          <6>1. k \in Int /\ WordBits \in Nat \ {0}
            BY Width
          <6> QED BY <6>1, AddedWidth
        <5> QED BY <4>1, <5>1
      <4>3. j + 1 \notin R[k]
        BY <2>2, <3>1, <3>3
      <4>4. 0 \in R[k] <=> k % WordBits \in Ones[a]
        BY <2>2
      <4>5. j \in R[k + 1] <=> k % WordBits \in Ones[a]
        BY <2>2, <4>2
      <4> QED BY <2>1, <3>3, <4>3, <4>4, <4>5
    <3> QED BY <3>2, <3>3
  <2>4. Ones[u.v] = R[k + 1]
    BY <2>1, <2>2, <2>3, OnesInBit
  <2>6. (0 \in R[k]) = (k % WordBits \in Ones[a])
    BY <2>2
  <2> QED BY <2>1, <2>2, <2>4, <2>6 DEF u
<1>3. C[0] = c
  OBVIOUS
<1> HIDE DEF R, C
<1>4. Follows("ror", n, R, C)
  BY <1>2 DEF Follows
<1>5. Leaves(ByMany("ror", a, C[0], n), R[n], C[n])
  BY <1>1, <1>4, Runs
<1>6. ASSUME NEW j \in Bit PROVE j \in ones <=> (j + n) % WordBits \in Ones[a]
  <2>1. ASSUME NEW k \in Ones[a] PROVE (j = (k - n) % WordBits) <=> ((j + n) % WordBits = k)
    BY OnesInBit, Rotated
  <2> QED BY <2>1 DEF Turned
<1>7. ones \subseteq Bit
  <2>1. ASSUME NEW k \in Ones[a] PROVE (k - n) % WordBits \in Bit
    <3>1. k - n \in Int /\ WordBits \in Nat \ {0}
      BY Width, OnesInBit DEF Bit
    <3>2. PICK x \in Int : x = k - n
      BY <3>1
    <3>3. x % WordBits \in Bit
      BY <3>1, Remainders DEF Bit
    <3> QED BY <3>2, <3>3
  <2> QED BY <2>1 DEF Turned
<1>8. R[n] = ones
  <2>1. R[n] = {j \in Bit : (j + n) % WordBits \in Ones[a]}
    BY DEF R
  <2> QED BY <1>6, <1>7, <2>1
<1>9. C[n] = IF n = 0 THEN c ELSE WordBits - 1 \in ones
  <2>1. (WordBits - 1) + n = (n - 1) + WordBits /\ WordBits - 1 \in Bit
    BY Width DEF Bit
  <2>2. ((WordBits - 1) + n) % WordBits = (n - 1) % WordBits
    <3>1. ((n - 1) + WordBits) % WordBits = (n - 1) % WordBits
      <4>1. WordBits \in Nat \ {0} /\ n - 1 \in Int
        BY Width
      <4> QED BY <4>1, AddedWidth
    <3> QED BY <2>1, <3>1
  <2>3. (WordBits - 1 \in ones) = ((n - 1) % WordBits \in Ones[a])
    BY <1>6, <2>1, <2>2
  <2> QED BY <2>3 DEF C
<1> QED BY <1>3, <1>5, <1>8, <1>9 DEF Leaves

Shifts == {"lsls_r", "lsrs_r", "asrs_r", "rors", "lsls_i", "lsrs_i", "asrs_i"}

-----------------------------------------------------------------------------
(***************************************************************************)
(* Every instruction keeps ShiftsAreRepeated.                              *)
(***************************************************************************)

\* What ShiftsAreRepeated says of an instruction that shifts n times.
Repeated(kind, n) ==
  /\ last.res = ByMany(kind, last.a, last.carry, n).v
  /\ flags.C = ByMany(kind, last.a, last.carry, n).c
RepeatedWord(kind, n) == last.res = ByMany(kind, last.a, last.carry, n).v

\* ShiftsAreRepeated, one instruction at a time.
ShiftLaws ==
  /\ last.op = "lsls_r" => Repeated("lsl", last.b)
  /\ last.op = "lsrs_r" => Repeated("lsr", last.b)
  /\ last.op = "asrs_r" => Repeated("asr", last.b)
  /\ last.op = "rors"   => Repeated("ror", last.b)
  /\ last.op = "lsls_i" => Repeated("lsl", last.b)
  /\ last.op = "lsrs_i" /\ last.b # 0 => Repeated("lsr", last.b)
  /\ last.op = "lsrs_i" /\ last.b = 0 => RepeatedWord("lsr", WordBits)
  /\ last.op = "asrs_i" /\ last.b # 0 => Repeated("asr", last.b)
  /\ last.op = "asrs_i" /\ last.b = 0 => RepeatedWord("asr", WordBits)

\* They say no less than the property does.
LEMMA Restated == ShiftLaws => ShiftsAreRepeated
<1> SUFFICES ASSUME ShiftLaws PROVE ShiftsAreRepeated
  OBVIOUS
<1> DEFINE reg == [lsls_r |-> "lsl", lsrs_r |-> "lsr", asrs_r |-> "asr", rors |-> "ror"]
           imm == [lsls_i |-> "lsl", lsrs_i |-> "lsr", asrs_i |-> "asr"]
           whole == last.op \in {"lsrs_i", "asrs_i"} /\ last.b = 0
           n     == IF whole THEN WordBits ELSE last.b
           kind  == IF last.op \in DOMAIN reg THEN reg[last.op] ELSE imm[last.op]
           s == ByMany(kind, last.a, last.carry, n)
<1>1. ShiftsAreRepeated <=>
        (last.op \in DOMAIN reg \cup DOMAIN imm => last.res = s.v /\ (flags.C = s.c \/ whole))
  BY DEF ShiftsAreRepeated
<1>2. /\ DOMAIN reg = {"lsls_r", "lsrs_r", "asrs_r", "rors"}
      /\ DOMAIN imm = {"lsls_i", "lsrs_i", "asrs_i"}
      /\ reg["lsls_r"] = "lsl" /\ reg["lsrs_r"] = "lsr" /\ reg["asrs_r"] = "asr"
      /\ reg["rors"] = "ror"
      /\ imm["lsls_i"] = "lsl" /\ imm["lsrs_i"] = "lsr" /\ imm["asrs_i"] = "asr"
  OBVIOUS
<1> HIDE DEF reg, imm
<1>3. last.op \in DOMAIN reg \cup DOMAIN imm <=> last.op \in Shifts
  BY <1>2 DEF Shifts
<1>4. CASE last.op \notin Shifts
  BY <1>1, <1>3, <1>4 DEF Shifts
<1>5. CASE last.op \in Shifts
  <2>1. ShiftsAreRepeated <=> last.res = s.v /\ (flags.C = s.c \/ whole)
    BY <1>1, <1>3, <1>5
  <2>2. CASE last.op \in {"lsls_r", "lsrs_r", "asrs_r", "rors"}
    <3>1. ~whole /\ s = ByMany(reg[last.op], last.a, last.carry, last.b)
      BY <1>2, <2>2
    <3> HIDE DEF s, whole
    <3> QED BY <1>2, <2>1, <2>2, <3>1 DEF ShiftLaws, Repeated
  <2>3. CASE last.op = "lsls_i"
    <3>1. ~whole /\ s = ByMany("lsl", last.a, last.carry, last.b)
      BY <1>2, <2>3
    <3> HIDE DEF s, whole
    <3> QED BY <2>1, <2>3, <3>1 DEF ShiftLaws, Repeated
  <2>4. CASE last.op = "lsrs_i" /\ last.b # 0
    <3>1. ~whole /\ s = ByMany("lsr", last.a, last.carry, last.b)
      BY <1>2, <2>4
    <3> HIDE DEF s, whole
    <3> QED BY <2>1, <2>4, <3>1 DEF ShiftLaws, Repeated
  <2>5. CASE last.op = "asrs_i" /\ last.b # 0
    <3>1. ~whole /\ s = ByMany("asr", last.a, last.carry, last.b)
      BY <1>2, <2>5
    <3> HIDE DEF s, whole
    <3> QED BY <2>1, <2>5, <3>1 DEF ShiftLaws, Repeated
  <2>6. CASE last.op = "lsrs_i" /\ last.b = 0
    <3>1. whole /\ s = ByMany("lsr", last.a, last.carry, WordBits)
      BY <1>2, <2>6
    <3> HIDE DEF s, whole
    <3> QED BY <2>1, <2>6, <3>1 DEF ShiftLaws, RepeatedWord
  <2>7. CASE last.op = "asrs_i" /\ last.b = 0
    <3>1. whole /\ s = ByMany("asr", last.a, last.carry, WordBits)
      BY <1>2, <2>7
    <3> HIDE DEF s, whole
    <3> QED BY <2>1, <2>7, <3>1 DEF ShiftLaws, RepeatedWord
  <2> QED BY <1>5, <2>2, <2>3, <2>4, <2>5, <2>6, <2>7 DEF Shifts
<1> QED BY <1>4, <1>5

\* A shift whose ones and carry are those of n single shifts.
LEMMA Shifted ==
  ASSUME FlagInv, NEW op, NEW rD, NEW a, NEW b, NEW ones, NEW amount, NEW c \in BOOLEAN,
         ShiftOnes(op, rD, a, b, ones, amount, c),
         NEW kind, NEW n,
         ByMany(kind, a, flags.C, n).v \in Word,
         Ones[ByMany(kind, a, flags.C, n).v] = ones
  PROVE  /\ last'.op = op /\ last'.a = a /\ last'.b = b /\ last'.carry = flags.C
         /\ last'.res = ByMany(kind, a, flags.C, n).v
         /\ flags'.C = c
<1>1. PICK res \in Word : Ones[res] = ones /\ Shift(op, rD, a, b, res, amount, c)
  BY DEF ShiftOnes
<1>2. last' = [op |-> op, a |-> a, b |-> b, carry |-> flags.C, res |-> res]
  BY <1>1 DEF Shift, Record
<1>3. flags' = [flags EXCEPT !.N = do_nflag(res), !.Z = do_zflag(res), !.C = c]
  BY <1>1 DEF Shift
<1>4. flags'.C = c
  BY <1>3 DEF FlagInv, TypeOK
<1>5. res = ByMany(kind, a, flags.C, n).v
  BY <1>1, SameOnes
<1> QED BY <1>2, <1>4, <1>5

\* An amount is a number of bits, which no width bounds.
LEMMA ShiftOperands ==
  ASSUME FlagInv, NEW rD \in Dest, NEW rM \in Low
  PROVE  /\ gpr[rD] \in Word /\ gpr[rM] \in Word /\ Amount(rM) \in Nat
         /\ flags.C \in BOOLEAN /\ WordBits \in Nat \ {0}
<1>1. gpr[rD] \in Word /\ gpr[rM] \in Word
  BY Operands DEF FlagInv
<1>2. Amount(rM) \in Nat
  <2>1. AmountMod \in Nat \ {0} /\ gpr[rM] \in Nat
    BY <1>1, AluAssumption, OnesAre
  <2> QED BY <2>1, DivMod DEF Amount
<1> QED BY <1>1, <1>2, Width DEF FlagInv, TypeOK

\* lsls_r leaves nothing from the width of a word on, and then no carry.
LEMMA LslsRegister ==
  ASSUME FlagInv, NEW rD \in Dest, NEW rM \in Low, lsls_r(rD, rM)
  PROVE  ShiftLaws'
<1> DEFINE a == gpr[rD]
           n == Amount(rM)
           ones == IF n >= WordBits THEN {} ELSE Left(a, n)
           c == IF n = 0 THEN flags.C ELSE n <= WordBits /\ WordBits - n \in Ones[a]
           s == ByMany("lsl", a, flags.C, n)
<1>1. a \in Word /\ n \in Nat /\ flags.C \in BOOLEAN /\ WordBits \in Nat \ {0}
  BY ShiftOperands
<1>2. ShiftOnes("lsls_r", rD, a, n, ones, n, c)
  BY DEF lsls_r
<1> HIDE DEF a, n
<1>3. s.v \in Word /\ Ones[s.v] = Left(a, n) /\ s.c = IF n = 0 THEN flags.C ELSE WordBits - n \in Ones[a]
  BY <1>1, ManyLsl
<1>4. ones = Left(a, n)
  <2>1. CASE n >= WordBits
    <3>1. \A j \in Bit : j - n \notin Ones[a]
      BY <1>1, <2>1, OnesInBit DEF Bit
    <3> QED BY <1>1, <2>1, <3>1, Moves
  <2> QED BY <2>1
<1>5. c = s.c
  <2>1. CASE n > WordBits
    <3>1. WordBits - n \notin Ones[a]
      BY <1>1, <2>1, OnesInBit DEF Bit
    <3> QED BY <1>1, <1>3, <2>1, <3>1
  <2>2. CASE ~(n > WordBits)
    BY <1>1, <1>3, <2>2
  <2> QED BY <2>1, <2>2
<1>6. c \in BOOLEAN
  BY <1>1
<1> HIDE DEF ones, c, s
<1>7. /\ last'.op = "lsls_r" /\ last'.a = a /\ last'.b = n /\ last'.carry = flags.C
      /\ last'.res = s.v /\ flags'.C = c
  BY <1>1, <1>2, <1>3, <1>4, <1>6, Shifted DEF s
<1> QED BY <1>5, <1>7 DEF ShiftLaws, Repeated, s

\* lsrs_r, likewise.
LEMMA LsrsRegister ==
  ASSUME FlagInv, NEW rD \in Dest, NEW rM \in Low, lsrs_r(rD, rM)
  PROVE  ShiftLaws'
<1> DEFINE a == gpr[rD]
           n == Amount(rM)
           ones == IF n >= WordBits THEN {} ELSE Right(a, n)
           c == IF n = 0 THEN flags.C ELSE n <= WordBits /\ n - 1 \in Ones[a]
           s == ByMany("lsr", a, flags.C, n)
<1>1. a \in Word /\ n \in Nat /\ flags.C \in BOOLEAN /\ WordBits \in Nat \ {0}
  BY ShiftOperands
<1>2. ShiftOnes("lsrs_r", rD, a, n, ones, n, c)
  BY DEF lsrs_r
<1> HIDE DEF a, n
<1>3. s.v \in Word /\ Ones[s.v] = Right(a, n) /\ s.c = IF n = 0 THEN flags.C ELSE n - 1 \in Ones[a]
  BY <1>1, ManyLsr
<1>4. ones = Right(a, n)
  <2>1. CASE n >= WordBits
    <3>1. \A j \in Bit : j + n \notin Ones[a]
      BY <1>1, <2>1, OnesInBit DEF Bit
    <3> QED BY <1>1, <2>1, <3>1, Moves
  <2> QED BY <2>1
<1>5. c = s.c
  <2>1. CASE n > WordBits
    <3>1. n - 1 \notin Ones[a]
      BY <1>1, <2>1, OnesInBit DEF Bit
    <3> QED BY <1>1, <1>3, <2>1, <3>1
  <2>2. CASE ~(n > WordBits)
    BY <1>1, <1>3, <2>2
  <2> QED BY <2>1, <2>2
<1>6. c \in BOOLEAN
  BY <1>1
<1> HIDE DEF ones, c, s
<1>7. /\ last'.op = "lsrs_r" /\ last'.a = a /\ last'.b = n /\ last'.carry = flags.C
      /\ last'.res = s.v /\ flags'.C = c
  BY <1>1, <1>2, <1>3, <1>4, <1>6, Shifted DEF s
<1> QED BY <1>5, <1>7 DEF ShiftLaws, Repeated, s

\* asrs_r shifts by no more than the width, past which nothing changes.
LEMMA AsrsRegister ==
  ASSUME FlagInv, NEW rD \in Dest, NEW rM \in Low, asrs_r(rD, rM)
  PROVE  ShiftLaws'
<1> DEFINE a == gpr[rD]
           n == Amount(rM)
           m == Within(n)
           ones == Right(a, m) \cup SignFill(a, m)
           c == IF n = 0 THEN flags.C ELSE m - 1 \in Ones[a]
           s == ByMany("asr", a, flags.C, n)
<1>1. a \in Word /\ n \in Nat /\ flags.C \in BOOLEAN /\ WordBits \in Nat \ {0}
  BY ShiftOperands
<1>2. ShiftOnes("asrs_r", rD, a, n, ones, n, c)
  BY DEF asrs_r, Within
<1> HIDE DEF a, n
<1>3. s.v \in Word /\ Ones[s.v] = ones /\ s.c = c
  BY <1>1, ManyAsr
<1>5. c = s.c
  BY <1>3
<1>6. c \in BOOLEAN
  <2>1. (m - 1 \in Ones[a]) \in BOOLEAN
    OBVIOUS
  <2> QED BY <1>1, <2>1
<1> HIDE DEF ones, c, s
<1>7. /\ last'.op = "asrs_r" /\ last'.a = a /\ last'.b = n /\ last'.carry = flags.C
      /\ last'.res = s.v /\ flags'.C = c
  BY <1>1, <1>2, <1>3, <1>6, Shifted DEF s
<1> QED BY <1>5, <1>7 DEF ShiftLaws, Repeated, s

\* rors turns by any amount, and writes no register for an amount of 0.
LEMMA RotateRegister ==
  ASSUME FlagInv, NEW rD \in Dest, NEW rM \in Low, rors(rD, rM)
  PROVE  ShiftLaws'
<1> DEFINE a == gpr[rD]
           n == Amount(rM)
           ones == Turned(a, n)
           c == IF n = 0 THEN flags.C ELSE WordBits - 1 \in ones
           s == ByMany("ror", a, flags.C, n)
<1>1. a \in Word /\ n \in Nat /\ flags.C \in BOOLEAN /\ WordBits \in Nat \ {0}
  BY ShiftOperands
<1>2. ShiftOnes("rors", IF n = 0 THEN NoReg ELSE rD, a, n, ones, n, c)
  BY DEF rors, Turned
<1> HIDE DEF a, n
<1>3. s.v \in Word /\ Ones[s.v] = ones /\ s.c = c
  BY <1>1, ManyRor
<1>5. c = s.c
  BY <1>3
<1>6. c \in BOOLEAN
  <2>1. (WordBits - 1 \in ones) \in BOOLEAN
    OBVIOUS
  <2> QED BY <1>1, <2>1
<1> HIDE DEF ones, c, s
<1>7. /\ last'.op = "rors" /\ last'.a = a /\ last'.b = n /\ last'.carry = flags.C
      /\ last'.res = s.v /\ flags'.C = c
  BY <1>1, <1>2, <1>3, <1>6, Shifted DEF s
<1> QED BY <1>5, <1>7 DEF ShiftLaws, Repeated, s

\* The three shifts by an immediate, of which 0 means the width to the right.
LEMMA ShiftImmediates ==
  ASSUME FlagInv, NEW rD \in Dest, NEW rM \in Low, NEW imm \in Bit,
         lsls_i(rD, rM, imm) \/ lsrs_i(rD, rM, imm) \/ asrs_i(rD, rM, imm)
  PROVE  ShiftLaws'
<1> DEFINE a == gpr[rM]
           s(kind, n) == ByMany(kind, a, flags.C, n)
<1>1. a \in Word /\ imm \in Nat /\ imm < WordBits /\ flags.C \in BOOLEAN /\ WordBits \in Nat \ {0}
  BY ShiftOperands, Operands, Width DEF Bit, FlagInv
<1>2. CASE lsls_i(rD, rM, imm)
  <2> DEFINE c == IF imm = 0 THEN flags.C ELSE WordBits - imm \in Ones[a]
  <2>1. ShiftOnes("lsls_i", rD, a, imm, Left(a, imm), imm, c)
    BY <1>2 DEF lsls_i
  <2> HIDE DEF a
  <2>2. /\ s("lsl", imm).v \in Word /\ Ones[s("lsl", imm).v] = Left(a, imm)
        /\ s("lsl", imm).c = c
    BY <1>1, ManyLsl
  <2>4. c \in BOOLEAN
    <3>1. (WordBits - imm \in Ones[a]) \in BOOLEAN
      OBVIOUS
    <3> QED BY <1>1, <3>1
  <2> HIDE DEF c
  <2>3. /\ last'.op = "lsls_i" /\ last'.a = a /\ last'.b = imm /\ last'.carry = flags.C
        /\ last'.res = s("lsl", imm).v /\ flags'.C = c
    BY <1>1, <2>1, <2>2, <2>4, Shifted
  <2> QED BY <2>2, <2>3 DEF ShiftLaws, Repeated
<1>3. CASE lsrs_i(rD, rM, imm)
  <2> DEFINE ones == IF imm = 0 THEN {} ELSE Right(a, imm)
             n == IF imm = 0 THEN WordBits ELSE imm
             c == imm # 0 /\ imm - 1 \in Ones[a]
  <2>1. ShiftOnes("lsrs_i", rD, a, imm, ones, n, c)
    BY <1>3 DEF lsrs_i
  <2> HIDE DEF a
  <2>2. /\ s("lsr", n).v \in Word /\ Ones[s("lsr", n).v] = Right(a, n)
        /\ s("lsr", n).c = (n - 1 \in Ones[a])
        /\ n \in Nat
    BY <1>1, ManyLsr
  <2>3. Right(a, n) = ones
    <3>1. CASE imm = 0
      <4>1. \A j \in Bit : j + WordBits \notin Ones[a]
        BY <1>1, OnesInBit DEF Bit
      <4> QED BY <1>1, <3>1, <4>1, Moves
    <3> QED BY <3>1
  <2>4. c \in BOOLEAN /\ (imm # 0 => n = imm /\ c = (n - 1 \in Ones[a])) /\ (imm = 0 => n = WordBits)
    BY <1>1
  <2> HIDE DEF ones, n, c
  <2>5. /\ last'.op = "lsrs_i" /\ last'.a = a /\ last'.b = imm /\ last'.carry = flags.C
        /\ last'.res = s("lsr", n).v /\ flags'.C = c
    BY <1>1, <2>1, <2>2, <2>3, <2>4, Shifted
  <2> QED BY <2>2, <2>4, <2>5 DEF ShiftLaws, Repeated, RepeatedWord
<1>4. CASE asrs_i(rD, rM, imm)
  <2> DEFINE n == IF imm = 0 THEN WordBits ELSE imm
             ones == Right(a, n) \cup SignFill(a, n)
             c == IF imm = 0 THEN flags.C ELSE imm - 1 \in Ones[a]
  <2>1. ShiftOnes("asrs_i", rD, a, imm, ones, n, c)
    BY <1>4 DEF asrs_i
  <2> HIDE DEF a
  <2>2. n \in Nat /\ n # 0 /\ n = Within(n)
    BY <1>1 DEF Within
  <2>3. /\ s("asr", n).v \in Word /\ Ones[s("asr", n).v] = ones
        /\ s("asr", n).c = (n - 1 \in Ones[a])
    <3> HIDE DEF n
    <3>1. /\ s("asr", n).v \in Word /\ Ones[s("asr", n).v] = ones
          /\ s("asr", n).c = IF n = 0 THEN flags.C ELSE n - 1 \in Ones[a]
      BY <1>1, <2>2, ManyAsr
    <3> QED BY <2>2, <3>1
  <2>4. c \in BOOLEAN /\ (imm # 0 => n = imm /\ c = (n - 1 \in Ones[a])) /\ (imm = 0 => n = WordBits)
    <3>1. (imm - 1 \in Ones[a]) \in BOOLEAN
      OBVIOUS
    <3> QED BY <1>1, <3>1
  <2> HIDE DEF ones, n, c
  <2>5. /\ last'.op = "asrs_i" /\ last'.a = a /\ last'.b = imm /\ last'.carry = flags.C
        /\ last'.res = s("asr", n).v /\ flags'.C = c
    BY <1>1, <2>1, <2>2, <2>3, <2>4, Shifted
  <2> QED BY <2>3, <2>4, <2>5 DEF ShiftLaws, Repeated, RepeatedWord
<1> QED BY <1>2, <1>3, <1>4

\* The instructions that are not shifts.
LEMMA OtherInstructions ==
  /\ Arithmetic \/ Misc => last'.op \notin Shifts
  /\ HighArithmetic => last'.op \notin Shifts \/ UNCHANGED <<last, flags>>
<1>1. ASSUME Arithmetic PROVE last'.op \notin Shifts
  <2>1. PICK rD \in Dest :
          \/ \E rM \in Low :
               \/ adcs(rD, rM) \/ sbcs(rD, rM) \/ rsbs(rD, rM) \/ cmp_r(rD, rM) \/ muls(rD, rM)
          \/ \E rN, rM \in Low : adds_r(rD, rN, rM) \/ subs(rD, rN, rM)
          \/ \E rN \in Low, imm \in Imm : adds_i3(rD, rN, imm) \/ subs_i3(rD, rN, imm)
          \/ \E imm \in Imm :
               \/ adds_i8(rD, imm) \/ subs_i8(rD, imm) \/ cmp_i(rD, imm)
               \/ add_sp(rD, imm)  \/ add_sp(GPR_SP, imm) \/ sub_sp(imm) \/ adr(rD, imm)
    BY <1>1 DEF Arithmetic
  <2>2. ASSUME NEW rM \in Low,
               adcs(rD, rM) \/ sbcs(rD, rM) \/ rsbs(rD, rM) \/ cmp_r(rD, rM) \/ muls(rD, rM)
        PROVE  last'.op \in {"adcs", "sbcs", "rsbs", "cmp_r", "muls"}
    BY <2>2, Names DEF adcs, sbcs, rsbs, cmp_r, muls
  <2>3. ASSUME NEW rN \in Low, NEW rM \in Low, adds_r(rD, rN, rM) \/ subs(rD, rN, rM)
        PROVE  last'.op \in {"adds_r", "subs"}
    BY <2>3, Names DEF adds_r, subs
  <2>4. ASSUME NEW rN \in Low, NEW imm \in Imm, adds_i3(rD, rN, imm) \/ subs_i3(rD, rN, imm)
        PROVE  last'.op \in {"adds_i3", "subs_i3"}
    BY <2>4, Names DEF adds_i3, subs_i3
  <2>5. ASSUME NEW imm \in Imm, adds_i8(rD, imm) \/ subs_i8(rD, imm) \/ cmp_i(rD, imm)
        PROVE  last'.op \in {"adds_i8", "subs_i8", "cmp_i"}
    BY <2>5, Names DEF adds_i8, subs_i8, cmp_i
  <2>6. ASSUME NEW imm \in Imm,
               add_sp(rD, imm) \/ add_sp(GPR_SP, imm) \/ sub_sp(imm) \/ adr(rD, imm)
        PROVE  last'.op \in {"add_sp", "sub_sp", "adr"}
    BY <2>6, Names DEF add_sp, sub_sp, adr
  <2> QED BY <2>1, <2>2, <2>3, <2>4, <2>5, <2>6 DEF Shifts
<1>2. ASSUME Misc PROVE last'.op \notin Shifts
  <2>1. ASSUME NEW rD, NEW rM, uxtb(rD, rM) \/ uxth(rD, rM) \/ sxtb(rD, rM) \/ sxth(rD, rM)
        PROVE  last'.op \in {"uxtb", "uxth", "sxtb", "sxth"}
    BY <2>1, Names DEF uxtb, uxth, sxtb, sxth
  <2>2. ASSUME NEW rD, NEW rM, rev(rD, rM) \/ rev16(rD, rM)
        PROVE  last'.op \in {"rev", "rev16"}
    BY <2>2, Names DEF rev, rev16
  <2>3. ASSUME NEW rD, NEW x, movs_i(rD, x) \/ mov_r(rD, x)
        PROVE  last'.op \in {"movs_i", "mov_r"}
    BY <2>3, Names DEF movs_i, mov_r
  <2> QED BY <1>2, <2>1, <2>2, <2>3 DEF Misc, Shifts
<1>3. ASSUME HighArithmetic PROVE last'.op \notin Shifts \/ UNCHANGED <<last, flags>>
  <2>1. PICK rD, rM : add_r(rD, rM)
    BY <1>3 DEF HighArithmetic
  <2>2. CASE rD = GPR_PC /\ rM = GPR_PC
    BY <2>1, <2>2 DEF add_r
  <2>3. CASE ~(rD = GPR_PC /\ rM = GPR_PC)
    <3>1. last'.op = "add_r"
      BY <2>1, <2>3, Names DEF add_r
    <3> QED BY <3>1 DEF Shifts
  <2> QED BY <2>2, <2>3
<1> QED BY <1>1, <1>2, <1>3

\* After any other instruction there is nothing to show.
LEMMA NoShift ==
  ASSUME last'.op \notin Shifts \/ (ShiftLaws /\ UNCHANGED <<last, flags>>)
  PROVE  ShiftLaws'
BY DEF Shifts, ShiftLaws, Repeated, RepeatedWord

\* Every instruction keeps the laws of the shifts.
LEMMA ShiftLawsStep == FlagInv /\ ShiftLaws /\ [Next]_vars => ShiftLaws'
<1> SUFFICES ASSUME FlagInv, ShiftLaws, [Next]_vars PROVE ShiftLaws'
  OBVIOUS
<1>1. CASE Arithmetic \/ Misc \/ HighArithmetic
  BY <1>1, OtherInstructions, NoShift
<1>2. CASE Logic
  <2>1. PICK rD \in Dest, rM \in Low :
          \/ ands(rD, rM)   \/ bics(rD, rM)   \/ eors(rD, rM)   \/ orrs(rD, rM)
          \/ mvns(rD, rM)   \/ tst(rD, rM)
          \/ lsls_r(rD, rM) \/ lsrs_r(rD, rM) \/ asrs_r(rD, rM) \/ rors(rD, rM)
          \/ \E imm \in Bit : lsls_i(rD, rM, imm) \/ lsrs_i(rD, rM, imm) \/ asrs_i(rD, rM, imm)
    BY <1>2 DEF Logic
  <2>2. ASSUME \/ ands(rD, rM) \/ bics(rD, rM) \/ eors(rD, rM)
               \/ orrs(rD, rM) \/ mvns(rD, rM) \/ tst(rD, rM)
        PROVE  ShiftLaws'
    <3>1. last'.op \in {"ands", "bics", "eors", "orrs", "mvns", "tst"}
      BY <2>2, Names DEF ands, bics, eors, orrs, mvns, tst
    <3>2. last'.op \notin Shifts
      BY <3>1 DEF Shifts
    <3> QED BY <3>2, NoShift
  <2> QED BY <2>1, <2>2, LslsRegister, LsrsRegister, AsrsRegister, RotateRegister, ShiftImmediates
<1>3. CASE UNCHANGED vars
  BY <1>3, NoShift DEF vars
<1> QED BY <1>1, <1>2, <1>3 DEF Next

\* A shift or rotation by any amount a register can hold leaves what as many
\* single shifts leave, in the register and in the carry.
THEOREM ShiftsRepeat == Spec => []ShiftsAreRepeated
<1>1. Init => ShiftLaws
  BY DEF Init, ShiftLaws
<1>2. Spec => []ShiftLaws
  BY <1>1, ShiftLawsStep, FlagInvariant, PTL DEF Spec
<1> QED BY <1>2, Restated, PTL

-----------------------------------------------------------------------------
(***************************************************************************)
(* Logic, extensions and reversals: the word that has the given ones.      *)
(***************************************************************************)

\* Every set of bits is the ones of a word, so that no logical handler is stuck.
LEMMA WordOf == \A S \in SUBSET Bit : \E x \in Word : Ones[x] = S
<1> DEFINE Made(S, n, x) == \A k \in 0 .. n - 1 : BitAt(x, k) = IF k \in S THEN 1 ELSE 0
           T == {n \in Nat : \A S \in SUBSET Bit : \E x \in 0 .. Pow2[n] - 1 : Made(S, n, x)}
<1>1. 0 \in T
  <2>1. \A S \in SUBSET Bit : 0 \in 0 .. Pow2[0] - 1 /\ Made(S, 0, 0)
    BY Pow2Step
  <2> QED BY <2>1
<1>2. ASSUME NEW n \in T PROVE n + 1 \in T
  <2>1. SUFFICES ASSUME NEW S \in SUBSET Bit
                 PROVE  \E x \in 0 .. Pow2[n + 1] - 1 : Made(S, n + 1, x)
    BY <1>2
  <2>2. n \in Nat /\ Pow2[n] \in Nat \ {0} /\ Pow2[n + 1] = 2 * Pow2[n]
    BY <1>2, Pow2Step, Pow2Type
  <2>3. PICK x \in 0 .. Pow2[n] - 1 : Made(S, n, x)
    BY <1>2
  <2>4. /\ \A k \in 0 .. n - 1 : BitAt(x + Pow2[n], k) = BitAt(x, k)
        /\ BitAt(x + Pow2[n], n) = 1 /\ BitAt(x, n) = 0
    BY <2>2, AddTop
  <2>5. \A k \in 0 .. (n + 1) - 1 : k = n \/ k \in 0 .. n - 1
    BY <2>2
  <2>6. CASE n \in S
    <3>1. Made(S, n + 1, x + Pow2[n])
      BY <2>2, <2>3, <2>4, <2>5, <2>6
    <3>2. x + Pow2[n] \in 0 .. Pow2[n + 1] - 1
      BY <2>2
    <3> HIDE DEF Made
    <3> QED BY <3>1, <3>2
  <2>7. CASE n \notin S
    <3>1. Made(S, n + 1, x)
      BY <2>2, <2>3, <2>4, <2>5, <2>7
    <3>2. x \in 0 .. Pow2[n + 1] - 1
      BY <2>2
    <3> HIDE DEF Made
    <3> QED BY <3>1, <3>2
  <2> QED BY <2>6, <2>7
<1> HIDE DEF T
<1>3. WordBits \in T
  <2>1. T \in SUBSET Nat
    BY DEF T
  <2>2. T = Nat
    BY <1>1, <1>2, <2>1, NatInduct
  <2> QED BY <2>2, Width
<1>4. ASSUME NEW S \in SUBSET Bit PROVE \E x \in Word : Ones[x] = S
  <2>1. PICK x \in 0 .. Pow2[WordBits] - 1 : Made(S, WordBits, x)
    BY <1>3 DEF T
  <2>2. x \in Word
    BY Width DEF Word
  <2>3. \A k \in Bit : k \in Ones[x] <=> k \in S
    BY <2>1, <2>2, OnesAre DEF Bit
  <2>4. Ones[x] = S
    BY <2>2, <2>3, OnesInBit
  <2> QED BY <2>2, <2>4
<1> QED BY <1>4

\* A bit of a word is 1 where the word has a one.
LEMMA BitIs ==
  ASSUME NEW x \in Word, NEW k \in Bit
  PROVE  BitAt(x, k) = IF k \in Ones[x] THEN 1 ELSE 0
<1>1. x \in Nat /\ k \in Nat
  BY OnesAre, Width DEF Bit
<1> QED BY <1>1, OnesAre, BitType

\* Words whose bits add up add up.
LEMMA WordSums ==
  ASSUME NEW r \in Word, NEW a \in Word, NEW b \in Word, NEW c \in Word, NEW d \in Word,
         \A k \in Bit : BitAt(r, k) + BitAt(c, k) + BitAt(d, k) = BitAt(a, k) + BitAt(b, k)
  PROVE  r + c + d = a + b
<1>1. WordBits \in Nat
  BY Width
<1>2. /\ r \in 0 .. Pow2[WordBits] - 1 /\ a \in 0 .. Pow2[WordBits] - 1
      /\ b \in 0 .. Pow2[WordBits] - 1 /\ c \in 0 .. Pow2[WordBits] - 1
      /\ d \in 0 .. Pow2[WordBits] - 1
  BY OnesAre
<1>3. \A k \in 0 .. WordBits - 1 :
        BitAt(r, k) + BitAt(c, k) + BitAt(d, k) = BitAt(a, k) + BitAt(b, k)
  BY DEF Bit
<1> QED BY <1>1, <1>2, <1>3, Sums

\* The word without ones.
LEMMA Zero == 0 \in Word /\ Ones[0] = {} /\ \A k \in Bit : BitAt(0, k) = 0
<1>1. 0 \in Word
  BY Width DEF Word
<1>2. \A k \in Bit : BitAt(0, k) = 0
  <2>1. \A k \in Bit : k \in Nat
    BY Width DEF Bit
  <2> QED BY <2>1, Pow2Type, TooSmall DEF BitAt
<1> QED BY <1>1, <1>2, OnesAre, OnesInBit

\* Conjunction is the word of the ones that both words have.
LEMMA ConjunctionIs ==
  ASSUME NEW x \in Word, NEW y \in Word, NEW r \in Word, Ones[r] = Ones[x] \cap Ones[y]
  PROVE  Conjunction(x, y) = r
<1> DEFINE bit(z, k) == (z \div Pow2[k]) % 2
           next(v, k) == 2 * v + bit(x, WordBits - k) * bit(y, WordBits - k)
           f[k \in 0 .. WordBits] == IF k = 0 THEN 0 ELSE next(f[k - 1], k)
           T == {k \in Nat : k <= WordBits => f[k] = r \div Pow2[WordBits - k]}
           U == {n \in Nat : \E g : g[0] = 0 /\ \A k \in 1 .. n : g[k] = next(g[k - 1], k)}
<1>1. Conjunction(x, y) = f[WordBits]
  BY DEF Conjunction
<1> HIDE DEF next
<1>2. 0 \in U
  <2>1. [k \in {0} |-> 0][0] = 0 /\ 1 .. 0 = {}
    OBVIOUS
  <2> QED BY <2>1
<1>3. ASSUME NEW n \in U PROVE n + 1 \in U
  <2>1. PICK g : g[0] = 0 /\ \A k \in 1 .. n : g[k] = next(g[k - 1], k)
    OBVIOUS
  <2> DEFINE h == [k \in 0 .. n + 1 |-> IF k = n + 1 THEN next(g[n], n + 1) ELSE g[k]]
  <2>2. n \in Nat
    OBVIOUS
  <2>3. h[0] = 0 /\ \A k \in 1 .. n + 1 : h[k] = next(h[k - 1], k)
    <3>1. h[0] = 0 /\ h[n + 1] = next(h[n], n + 1)
      BY <2>1, <2>2
    <3>2. ASSUME NEW k \in 1 .. n PROVE h[k] = next(h[k - 1], k)
      <4>1. k \in 0 .. n + 1 /\ k - 1 \in 0 .. n + 1 /\ k # n + 1 /\ k - 1 # n + 1
        BY <2>2
      <4>2. h[k] = g[k] /\ h[k - 1] = g[k - 1]
        BY <4>1
      <4> HIDE DEF h
      <4> QED BY <2>1, <4>2
    <3>3. \A k \in 1 .. n + 1 : k = n + 1 \/ k \in 1 .. n
      BY <2>2
    <3>4. (n + 1) - 1 = n
      BY <2>2
    <3> HIDE DEF h
    <3> QED BY <3>1, <3>2, <3>3, <3>4
  <2> HIDE DEF h
  <2> QED BY <2>2, <2>3
<1>4. WordBits \in U
  <2> HIDE DEF U
  <2> QED BY <1>2, <1>3, Width, NatInduct DEF U
<1>5. \E g : g = [k \in 0 .. WordBits |-> IF k = 0 THEN 0 ELSE next(g[k - 1], k)]
  <2>1. PICK g : g[0] = 0 /\ \A k \in 1 .. WordBits : g[k] = next(g[k - 1], k)
    BY <1>4
  <2> DEFINE h == [k \in 0 .. WordBits |-> g[k]]
  <2>2. \A k \in 0 .. WordBits : h[k] = IF k = 0 THEN 0 ELSE next(h[k - 1], k)
    <3>1. SUFFICES ASSUME NEW k \in 0 .. WordBits, k # 0 PROVE h[k] = next(h[k - 1], k)
      BY <2>1
    <3>2. k - 1 \in 0 .. WordBits /\ k \in 1 .. WordBits
      BY <3>1, Width
    <3>3. h[k] = g[k] /\ h[k - 1] = g[k - 1]
      BY <3>2
    <3> HIDE DEF h
    <3> QED BY <2>1, <3>2, <3>3
  <2>3. h = [k \in 0 .. WordBits |-> IF k = 0 THEN 0 ELSE next(h[k - 1], k)]
    BY <2>2
  <2> HIDE DEF h
  <2> QED BY <2>3
<1> HIDE DEF U
<1>6. f = [k \in 0 .. WordBits |-> IF k = 0 THEN 0 ELSE next(f[k - 1], k)]
  BY <1>5, Zenon DEF f
<1> HIDE DEF f
<1>7. f[0] = 0 /\ \A k \in 1 .. WordBits :
        f[k] = 2 * f[k - 1] + BitAt(x, WordBits - k) * BitAt(y, WordBits - k)
  BY <1>6, Width DEF BitAt, next
<1>8. 0 \in T
  <2>1. f[0] = 0 /\ WordBits - 0 = WordBits
    BY <1>7, Width
  <2>2. r \div Pow2[WordBits] = 0
    BY Width, Pow2Type, OnesAre, TooSmall
  <2> QED BY <2>1, <2>2
<1>9. ASSUME NEW k \in T PROVE k + 1 \in T
  <2>1. SUFFICES ASSUME k + 1 <= WordBits PROVE f[k + 1] = r \div Pow2[WordBits - (k + 1)]
    BY <1>9
  <2> DEFINE m == WordBits - (k + 1)
  <2>2. /\ k \in Nat /\ k + 1 \in 1 .. WordBits /\ (k + 1) - 1 = k
        /\ m \in Bit /\ m \in Nat /\ m + 1 = WordBits - k
    BY <1>9, <2>1, Width DEF Bit
  <2> HIDE DEF m
  <2>3. f[k] = r \div Pow2[m + 1]
    <3>1. f[k] = r \div Pow2[WordBits - k]
      BY <1>9, <2>1, <2>2, Width
    <3> QED BY <2>2, <3>1
  <2>4. f[k + 1] = 2 * f[k] + BitAt(x, m) * BitAt(y, m)
    BY <1>7, <2>2 DEF m
  <2>5. BitAt(x, m) * BitAt(y, m) = BitAt(r, m)
    BY <2>2, BitIs
  <2>6. r \div Pow2[m] = 2 * (r \div Pow2[m + 1]) + BitAt(r, m)
    BY <2>2, Horner, OnesAre
  <2> QED BY <2>3, <2>4, <2>5, <2>6 DEF m
<1> HIDE DEF T
<1>10. WordBits \in T
  BY <1>8, <1>9, Width, NatInduct DEF T
<1>11. r \div Pow2[WordBits - WordBits] = r
  BY Width, Pow2Step, OnesAre
<1> QED BY <1>1, <1>10, <1>11, Width DEF T

\* The word of all ones.
LEMMA AllOnes ==
  WordMod - 1 \in Word /\ \A k \in Bit : BitAt(WordMod - 1, k) = 1
<1>1. WordMod - 1 \in Word
  BY Width DEF Word
<1>2. \A k \in Bit : k \in Nat /\ k < WordBits
  BY Width DEF Bit
<1> QED BY <1>1, <1>2, Width, OnesBits

\* What the ones of the logical instructions make, as numbers.
LEMMA LogicIs ==
  ASSUME NEW a \in Word, NEW b \in Word, NEW r \in Word
  PROVE  /\ Ones[r] = Ones[a] \cap Ones[b] => r = Conjunction(a, b)
         /\ Ones[r] = Ones[a] \cup Ones[b] => r = a + b - Conjunction(a, b)
         /\ Ones[r] = (Ones[a] \cup Ones[b]) \ (Ones[a] \cap Ones[b])
              => r = a + b - 2 * Conjunction(a, b)
         /\ Ones[r] = Ones[a] \ Ones[b] => r = a - Conjunction(a, b)
         /\ Ones[r] = Bit \ Ones[b] => r = Not(b)
<1>1. PICK c \in Word : Ones[c] = Ones[a] \cap Ones[b]
  BY OnesInBit, WordOf
<1>2. Conjunction(a, b) = c
  BY <1>1, ConjunctionIs
<1>3. /\ a \in Int /\ b \in Int /\ c \in Int /\ r \in Int /\ WordMod \in Int
  BY OnesAre, Width
<1>4. \A k \in Bit : /\ BitAt(a, k) = (IF k \in Ones[a] THEN 1 ELSE 0)
                     /\ BitAt(b, k) = (IF k \in Ones[b] THEN 1 ELSE 0)
                     /\ BitAt(c, k) = (IF k \in Ones[c] THEN 1 ELSE 0)
                     /\ BitAt(r, k) = (IF k \in Ones[r] THEN 1 ELSE 0)
  BY BitIs
<1>5. Ones[r] = Ones[a] \cap Ones[b] => r = c
  BY <1>1, SameOnes
<1>6. ASSUME Ones[r] = Ones[a] \cup Ones[b] PROVE r = a + b - c
  <2>1. \A k \in Bit : BitAt(r, k) + BitAt(c, k) + BitAt(0, k) = BitAt(a, k) + BitAt(b, k)
    BY <1>1, <1>4, <1>6, Zero
  <2>2. r + c + 0 = a + b
    BY <2>1, Zero, WordSums
  <2> QED BY <1>3, <2>2
<1>7. ASSUME Ones[r] = (Ones[a] \cup Ones[b]) \ (Ones[a] \cap Ones[b])
      PROVE  r = a + b - 2 * c
  <2>1. \A k \in Bit : BitAt(r, k) + BitAt(c, k) + BitAt(c, k) = BitAt(a, k) + BitAt(b, k)
    BY <1>1, <1>4, <1>7
  <2>2. r + c + c = a + b
    BY <2>1, WordSums
  <2> QED BY <1>3, <2>2
<1>8. ASSUME Ones[r] = Ones[a] \ Ones[b] PROVE r = a - c
  <2>1. \A k \in Bit : BitAt(r, k) + BitAt(c, k) + BitAt(0, k) = BitAt(a, k) + BitAt(0, k)
    BY <1>1, <1>4, <1>8, Zero
  <2>2. r + c + 0 = a + 0
    BY <2>1, Zero, WordSums
  <2> QED BY <1>3, <2>2
<1>9. ASSUME Ones[r] = Bit \ Ones[b] PROVE r = Not(b)
  <2>1. \A k \in Bit : BitAt(r, k) + BitAt(b, k) + BitAt(0, k) = BitAt(WordMod - 1, k) + BitAt(0, k)
    BY <1>4, <1>9, Zero, AllOnes
  <2>2. r + b + 0 = (WordMod - 1) + 0
    BY <2>1, Zero, AllOnes, WordSums
  <2> QED BY <1>3, <2>2 DEF Not
<1> QED BY <1>2, <1>5, <1>6, <1>7, <1>8, <1>9

\* Four bytes make a word.
LEMMA Bytes ==
  /\ ByteBits \in Nat \ {0} /\ WordBits = 4 * ByteBits
  /\ 2 * ByteBits \in Nat \ {0} /\ 2 * ByteBits < WordBits
<1>1. WordBits \in Nat \ {0} /\ WordBits % 4 = 0
  BY Width, AluAssumption
<1>2. ByteBits = WordBits \div 4
  BY DEF ByteBits
<1>3. \A w \in Nat \ {0} : w % 4 = 0 => w \div 4 \in Nat \ {0} /\ w = 4 * (w \div 4)
  OBVIOUS
<1>4. ByteBits \in Nat \ {0} /\ WordBits = 4 * ByteBits
  BY <1>1, <1>2, <1>3
<1> QED BY <1>4

\* The ones below n are what the division by 2^n leaves.
LEMMA ZeroedIs ==
  ASSUME NEW a \in Word, NEW n \in Nat, n <= WordBits, NEW r \in Word, Ones[r] = Zeroed(a, n)
  PROVE  r = a % Pow2[n]
<1> DEFINE low == a % Pow2[n]
<1>1. a \in Nat /\ Pow2[n] \in Nat \ {0} /\ Pow2[n] <= WordMod
  <2>1. n \in 0 .. WordBits /\ WordBits \in Nat
    BY Width
  <2> QED BY <2>1, OnesAre, Pow2Type, Pow2Grows, Width
<1>2. low \in Word
  <2>1. a % Pow2[n] \in 0 .. Pow2[n] - 1
    BY <1>1, DivMod
  <2> QED BY <1>1, <2>1, Width DEF Word
<1>3. \A k \in Bit : k \in Ones[low] <=> k \in Ones[r]
  <2>1. SUFFICES ASSUME NEW k \in Bit PROVE k \in Ones[low] <=> k \in Ones[r]
    OBVIOUS
  <2>2. k \in Nat /\ BitAt(low, k) = IF k < n THEN BitAt(a, k) ELSE 0
    BY <1>1, Width, ModBits DEF Bit
  <2>3. k \in Ones[r] <=> k \in Ones[a] /\ k < n
    BY DEF Zeroed
  <2> QED BY <1>2, <2>2, <2>3, OnesAre
<1> HIDE DEF low
<1>4. Ones[low] = Ones[r]
  <2>1. Ones[low] \subseteq Bit /\ Ones[r] \subseteq Bit
    BY <1>2, OnesInBit
  <2> QED BY <1>3, <2>1
<1>5. low = r
  BY <1>2, <1>4, SameOnes
<1> QED BY <1>5 DEF low

\* A negative number comes back once around.
LEMMA Wraps == \A x \in -WordMod .. -1 : Wrap(x) = x + WordMod
<1>1. WordMod \in Nat \ {0}
  BY Width
<1>2. SUFFICES ASSUME NEW x \in -WordMod .. -1 PROVE x % WordMod = x + WordMod
  BY DEF Wrap
<1>3. (WordMod * (-1) + (x + WordMod)) % WordMod = x + WordMod
  <2>1. x + WordMod \in 0 .. WordMod - 1 /\ -1 \in Int
    BY <1>1, <1>2
  <2> QED BY <1>1, <2>1, Divides
<1> QED BY <1>1, <1>3

\* Filling up with the highest one below n makes the word of the same signed number.
LEMMA ExtendedIs ==
  ASSUME NEW a \in Word, NEW n \in Nat \ {0}, n <= WordBits, NEW r \in Word,
         Ones[r] = Extended(a, n)
  PROVE  r = Wide(a, n)
<1> DEFINE low == a % Pow2[n]
           m == n - 1
<1>1. a \in Nat /\ Pow2[n] \in Nat \ {0} /\ Pow2[n] <= WordMod /\ WordMod \in Nat \ {0}
  <2>1. n \in 0 .. WordBits /\ WordBits \in Nat
    BY Width
  <2> QED BY <2>1, OnesAre, Pow2Type, Pow2Grows, Width
<1>2. m \in Nat /\ m \in Bit /\ m + 1 = n /\ Pow2[m] \in Nat \ {0} /\ Pow2[n] = 2 * Pow2[m]
  <2>1. m \in Nat /\ m \in Bit /\ m + 1 = n
    BY Width DEF Bit
  <2> QED BY <2>1, Pow2Step, Pow2Type
<1>3. low \in 0 .. Pow2[n] - 1 /\ low \in Word
  <2>1. a % Pow2[n] \in 0 .. Pow2[n] - 1
    BY <1>1, DivMod
  <2> QED BY <1>1, <2>1, Width DEF Word
<1>4. \A k \in Bit : BitAt(low, k) = IF k < n THEN BitAt(a, k) ELSE 0
  BY <1>1, Width, ModBits DEF Bit
<1>5. m \in Ones[a] <=> low >= Pow2[m]
  <2>1. BitAt(low, m) = BitAt(a, m)
    BY <1>2, <1>4
  <2> HIDE DEF low, m
  <2>2. CASE low >= Pow2[m]
    <3>1. low - Pow2[m] \in 0 .. Pow2[m] - 1 /\ (low - Pow2[m]) + Pow2[m] = low
      BY <1>2, <1>3, <2>2
    <3>2. BitAt(low, m) = 1
      BY <1>2, <3>1, AddTop
    <3> QED BY <1>2, <2>1, <2>2, <3>2, OnesAre
  <2>3. CASE ~(low >= Pow2[m])
    <3>1. low \in 0 .. Pow2[m] - 1
      BY <1>2, <1>3, <2>3
    <3>2. BitAt(low, m) = 0
      BY <1>2, <3>1, AddTop
    <3>3. BitAt(a, m) # 1
      BY <2>1, <3>2
    <3>4. m \notin Ones[a]
      BY <3>3, OnesAre, Zenon
    <3> QED BY <2>3, <3>4
  <2> QED BY <2>2, <2>3
<1>6. \A k \in Bit : k \in Ones[r] <=> \/ k < n /\ BitAt(a, k) = 1
                                       \/ k >= n /\ m \in Ones[a]
  BY OnesAre DEF Extended, Zeroed
<1>7. \A k \in Bit : BitAt(r, k) = IF k \in Ones[r] THEN 1 ELSE 0
  BY BitIs
<1>8. \A k \in Bit : k \in Nat /\ BitAt(a, k) \in {0, 1}
  BY <1>1, Width, BitType DEF Bit
<1>9. Wide(a, n) = Wrap(IF low >= Pow2[m] THEN low - Pow2[n] ELSE low)
  BY DEF Wide
<1>10. r \in Int
  BY OnesAre
<1> HIDE DEF low, m
<1>11. CASE m \in Ones[a]
  <2>1. Pow2[n] - 1 \in Word
    BY <1>1, Width DEF Word
  <2>2. \A k \in Bit : BitAt(Pow2[n] - 1, k) = IF k < n THEN 1 ELSE 0
    BY <1>8, OnesBits
  <2>3. ASSUME NEW k \in Bit
        PROVE BitAt(r, k) + BitAt(Pow2[n] - 1, k) + BitAt(0, k) = BitAt(low, k) + BitAt(WordMod - 1, k)
    BY <1>4, <1>6, <1>7, <1>8, <1>11, <2>2, Zero, AllOnes
  <2>4. r + (Pow2[n] - 1) + 0 = low + (WordMod - 1)
    BY <1>3, <2>1, <2>3, Zero, AllOnes, WordSums
  <2>5. low \in Int /\ r = (low - Pow2[n]) + WordMod /\ low - Pow2[n] \in -WordMod .. -1
    BY <1>1, <1>3, <1>10, <2>4
  <2> QED BY <1>5, <1>9, <1>11, <2>5, Wraps
<1>12. CASE m \notin Ones[a]
  <2>1. \A k \in Bit : k \in Ones[low] <=> k \in Ones[r]
    BY <1>3, <1>4, <1>6, <1>8, <1>12, OnesAre
  <2>2. Ones[low] = Ones[r]
    <3>1. Ones[low] \subseteq Bit /\ Ones[r] \subseteq Bit
      BY <1>3, OnesInBit
    <3> QED BY <2>1, <3>1
  <2>3. r = low
    BY <1>3, <2>2, SameOnes
  <2>4. Wrap(low) = low
    BY <1>1, <1>3, TooSmall, Width DEF Wrap, Word
  <2> QED BY <1>5, <1>9, <1>12, <2>3, <2>4
<1> QED BY <1>11, <1>12

\* Bit j of byte k.
Place(k, j) == k * ByteBits + j

\* Each bit of a word is at one place in one byte.
LEMMA Places ==
  /\ \A k \in 0 .. 3, j \in 0 .. ByteBits - 1 :
       /\ Place(k, j) \in Bit
       /\ Place(k, j) \div ByteBits = k
       /\ Place(k, j) % ByteBits = j
       /\ Place(k, j) = ByteBits * k + j
  /\ \A p \in Bit : /\ p \div ByteBits \in 0 .. 3
                    /\ p % ByteBits \in 0 .. ByteBits - 1
                    /\ p = Place(p \div ByteBits, p % ByteBits)
<1> DEFINE B == ByteBits
<1>1. B \in Nat \ {0} /\ WordBits = 4 * B
  BY Bytes
<1> HIDE DEF B
<1>2. ASSUME NEW k \in 0 .. 3, NEW j \in 0 .. B - 1
      PROVE  /\ k * B + j \in 0 .. 4 * B - 1
             /\ (k * B + j) \div B = k
             /\ (k * B + j) % B = j
             /\ k * B + j = B * k + j
  <2>1. k * B = B * k /\ k \in Int /\ j \in Int
    BY <1>1
  <2>2. (B * k + j) \div B = k /\ (B * k + j) % B = j
    BY <1>1, <2>1, Divides
  <2>3. k * B \in 0 .. 3 * B
    <3>1. k = 0 \/ k = 1 \/ k = 2 \/ k = 3
      OBVIOUS
    <3> QED BY <1>1, <3>1
  <2> QED BY <1>1, <2>1, <2>2, <2>3
<1>3. ASSUME NEW p \in 0 .. 4 * B - 1
      PROVE  /\ p \div B \in 0 .. 3 /\ p % B \in 0 .. B - 1
             /\ p = (p \div B) * B + (p % B)
  <2>1. p \in Nat
    BY <1>1
  <2>2. p \div B \in Nat /\ p % B \in 0 .. B - 1 /\ p = B * (p \div B) + (p % B)
    BY <1>1, <2>1, DivMod
  <2> DEFINE q == p \div B
             t == p % B
  <2> HIDE DEF q, t
  <2>3. q \in Nat /\ t \in 0 .. B - 1 /\ p = B * q + t
    BY <2>2 DEF q, t
  <2>4. q <= 3
    <3>1. SUFFICES ASSUME q >= 4 PROVE FALSE
      BY <2>3
    <3>2. PICK d \in Nat : q = 4 + d
      <4>1. q - 4 \in Nat /\ q = 4 + (q - 4)
        BY <2>3, <3>1
      <4> QED BY <4>1
    <3>3. B * q = 4 * B + B * d /\ B * d \in Nat
      BY <1>1, <3>2
    <3> QED BY <1>1, <2>3, <3>3
  <2>5. q * B = B * q
    BY <1>1, <2>3
  <2> QED BY <2>3, <2>4, <2>5 DEF q, t
<1> QED BY <1>1, <1>2, <1>3 DEF B, Place, Bit

\* A bit of a byte is the bit of the word at its place.
LEMMA ByteIs ==
  ASSUME NEW x \in Word, NEW k \in 0 .. 3
  PROVE  /\ ByteOf(x, k) \in 0 .. Pow2[ByteBits] - 1
         /\ \A j \in 0 .. ByteBits - 1 : BitAt(ByteOf(x, k), j) = BitAt(x, Place(k, j))
<1> DEFINE m == ByteBits * k
           y == x \div Pow2[m]
<1>1. ByteBits \in Nat \ {0} /\ m \in Nat /\ x \in Nat /\ Pow2[ByteBits] \in Nat \ {0}
  <2>1. k = 0 \/ k = 1 \/ k = 2 \/ k = 3
    OBVIOUS
  <2> QED BY <2>1, Bytes, OnesAre, Pow2Type
<1>2. ByteOf(x, k) = y % Pow2[ByteBits]
  BY DEF ByteOf
<1>3. \A j \in 0 .. ByteBits - 1 : Place(k, j) = m + j /\ j \in Nat /\ j < ByteBits
  <2>1. \A j \in 0 .. ByteBits - 1 : Place(k, j) = m + j
    BY Places, Zenon
  <2>2. \A j \in 0 .. ByteBits - 1 : j \in Nat /\ j < ByteBits
    BY <1>1
  <2> QED BY <2>1, <2>2
<1> HIDE DEF m
<1>4. y \in Nat /\ \A j \in Nat : BitAt(y, j) = BitAt(x, m + j)
  <2>1. Pow2[m] \in Nat \ {0}
    BY <1>1, Pow2Type
  <2>2. x \div Pow2[m] \in Nat
    BY <1>1, <2>1, DivMod
  <2>3. \A j \in Nat : BitAt(x \div Pow2[m], j) = BitAt(x, m + j)
    BY <1>1, DivBits
  <2> QED BY <2>2, <2>3
<1> HIDE DEF y
<1>5. \A j \in 0 .. ByteBits - 1 : BitAt(y % Pow2[ByteBits], j) = BitAt(y, j)
  BY <1>1, <1>3, <1>4, ModBits
<1>6. y % Pow2[ByteBits] \in 0 .. Pow2[ByteBits] - 1
  BY <1>1, <1>4, DivMod
<1> QED BY <1>2, <1>3, <1>4, <1>5, <1>6

\* Moving bytes to lanes that move them back.
LEMMA MovedIs ==
  ASSUME NEW lane \in [0 .. 3 -> 0 .. 3], \A k \in 0 .. 3 : lane[lane[k]] = k,
         NEW a \in Word, NEW r \in Word, Ones[r] = Moved(a, lane)
  PROVE  \A k \in 0 .. 3 : ByteOf(r, k) = ByteOf(a, lane[k])
<1> SUFFICES ASSUME NEW k \in 0 .. 3 PROVE ByteOf(r, k) = ByteOf(a, lane[k])
  OBVIOUS
<1>1. lane[k] \in 0 .. 3
  OBVIOUS
<1>2. Ones[r] = {Place(lane[p \div ByteBits], p % ByteBits) : p \in Ones[a]}
  BY DEF Moved, Place
<1>3. ASSUME NEW j \in 0 .. ByteBits - 1
      PROVE  Place(k, j) \in Ones[r] <=> Place(lane[k], j) \in Ones[a]
  <2>1. ASSUME NEW p \in Ones[a], Place(k, j) = Place(lane[p \div ByteBits], p % ByteBits)
        PROVE  p = Place(lane[k], j)
    <3> DEFINE q == p \div ByteBits
               t == p % ByteBits
    <3>1. p \in Bit
      BY OnesInBit
    <3>2. q \in 0 .. 3 /\ t \in 0 .. ByteBits - 1 /\ p = Place(q, t)
      BY <3>1, Places
    <3>3. Place(k, j) = Place(lane[q], t)
      BY <2>1
    <3> HIDE DEF q, t
    <3>4. lane[q] \in 0 .. 3
      BY <3>2
    <3>5. lane[q] = k /\ t = j
      BY <3>2, <3>3, <3>4, Places
    <3>6. lane[k] = q
      BY <3>2, <3>5
    <3> QED BY <3>2, <3>5, <3>6
  <2>2. /\ Place(lane[k], j) \div ByteBits = lane[k]
        /\ Place(lane[k], j) % ByteBits = j
    BY <1>1, Places
  <2>3. lane[lane[k]] = k
    OBVIOUS
  <2> QED BY <1>2, <2>1, <2>2, <2>3
<1>4. ASSUME NEW j \in 0 .. ByteBits - 1
      PROVE  BitAt(ByteOf(r, k), j) = BitAt(ByteOf(a, lane[k]), j)
  <2>1. Place(k, j) \in Bit /\ Place(lane[k], j) \in Bit
    BY <1>1, Places
  <2>2. BitAt(r, Place(k, j)) = BitAt(a, Place(lane[k], j))
    BY <1>3, <2>1, BitIs
  <2> QED BY <1>1, <2>2, ByteIs
<1>5. /\ ByteOf(r, k) \in 0 .. Pow2[ByteBits] - 1
      /\ ByteOf(a, lane[k]) \in 0 .. Pow2[ByteBits] - 1
      /\ ByteBits \in Nat
  BY <1>1, ByteIs, Bytes
<1> QED BY <1>4, <1>5, Same

\* rev and rev16 move bytes to where they move back from.
LEMMA Lanes ==
  /\ [k \in 0 .. 3 |-> 3 - k] \in [0 .. 3 -> 0 .. 3]
  /\ \A k \in 0 .. 3 : 3 - (3 - k) = k
  /\ [k \in 0 .. 3 |-> k + 1 - 2 * (k % 2)] \in [0 .. 3 -> 0 .. 3]
  /\ \A k \in 0 .. 3 : (k = 0 \/ k = 1 \/ k = 2 \/ k = 3)
  /\ 0 % 2 = 0 /\ 1 % 2 = 1 /\ 2 % 2 = 0 /\ 3 % 2 = 1
OBVIOUS

\* rev turns the four bytes around, rev16 the two of each half.
LEMMA ReversedIs ==
  ASSUME NEW a \in Word, NEW r \in Word
  PROVE  /\ Ones[r] = Moved(a, [k \in 0 .. 3 |-> 3 - k])
              => \A k \in 0 .. 3 : ByteOf(r, k) = ByteOf(a, 3 - k)
         /\ Ones[r] = Moved(a, [k \in 0 .. 3 |-> k + 1 - 2 * (k % 2)])
              => \A k \in {0, 2} : /\ ByteOf(r, k) = ByteOf(a, k + 1)
                                   /\ ByteOf(r, k + 1) = ByteOf(a, k)
<1> DEFINE back == [k \in 0 .. 3 |-> 3 - k]
           swap == [k \in 0 .. 3 |-> k + 1 - 2 * (k % 2)]
<1>1. back \in [0 .. 3 -> 0 .. 3] /\ \A k \in 0 .. 3 : back[k] = 3 - k
  BY Lanes
<1>2. /\ swap \in [0 .. 3 -> 0 .. 3]
      /\ swap[0] = 1 /\ swap[1] = 0 /\ swap[2] = 3 /\ swap[3] = 2
  BY Lanes
<1> HIDE DEF back, swap
<1>3. ASSUME Ones[r] = Moved(a, back) PROVE \A k \in 0 .. 3 : ByteOf(r, k) = ByteOf(a, 3 - k)
  <2>1. \A k \in 0 .. 3 : back[back[k]] = k
    BY <1>1
  <2>2. \A k \in 0 .. 3 : ByteOf(r, k) = ByteOf(a, back[k])
    BY <1>1, <1>3, <2>1, MovedIs
  <2> QED BY <1>1, <2>2
<1>4. ASSUME Ones[r] = Moved(a, swap)
      PROVE  \A k \in {0, 2} : ByteOf(r, k) = ByteOf(a, k + 1) /\ ByteOf(r, k + 1) = ByteOf(a, k)
  <2>1. \A k \in 0 .. 3 : swap[swap[k]] = k
    BY <1>2, Lanes
  <2>2. \A k \in 0 .. 3 : ByteOf(r, k) = ByteOf(a, swap[k])
    BY <1>2, <1>4, <2>1, MovedIs
  <2> QED BY <1>2, <2>2
<1> QED BY <1>3, <1>4 DEF back, swap

-----------------------------------------------------------------------------
(***************************************************************************)
(* Every instruction keeps ResultsAreExact.                                *)
(***************************************************************************)

\* The instructions of whose result it speaks, and those of whose flags.
Ruled    == {"ands", "tst", "orrs", "eors", "bics", "mvns",
             "uxtb", "uxth", "sxtb", "sxth", "rev", "rev16"}
Flagging == {"ands", "tst", "orrs", "eors", "bics", "mvns", "rors", "muls", "adcs"}

\* What ResultsAreExact says of the result of each instruction.
Agrees(op, a, b, res) ==
  /\ op = "ands" => res = Conjunction(a, b)
  /\ op = "tst"  => res = Conjunction(a, b)
  /\ op = "orrs" => res = a + b - Conjunction(a, b)
  /\ op = "eors" => res = a + b - 2 * Conjunction(a, b)
  /\ op = "bics" => res = a - Conjunction(a, b)
  /\ op = "mvns" => res = Not(b)
  /\ op = "uxtb" => res = a % Pow2[ByteBits]
  /\ op = "uxth" => res = a % Pow2[2 * ByteBits]
  /\ op = "sxtb" => res = Wide(a, ByteBits)
  /\ op = "sxth" => res = Wide(a, 2 * ByteBits)
  /\ op = "rev"  => \A k \in 0 .. 3 : ByteOf(res, k) = ByteOf(a, 3 - k)
  /\ op = "rev16" => \A k \in {0, 2} : /\ ByteOf(res, k) = ByteOf(a, k + 1)
                                       /\ ByteOf(res, k + 1) = ByteOf(a, k)
\* What it says of the flags.
Shown(N, Z, res) == (N <=> Neg(res)) /\ (Z <=> res = 0)

ResultLaws ==
  /\ Agrees(last.op, last.a, last.b, last.res)
  /\ last.op \in Flagging => Shown(flags.N, flags.Z, last.res)

\* They say no less than the property does.
LEMMA ResultsRestated == ResultLaws => ResultsAreExact
<1> SUFFICES ASSUME ResultLaws PROVE ResultsAreExact
  OBVIOUS
<1> DEFINE a == last.a
           b == last.b
           res == last.res
           result ==
             CASE last.op \in {"ands", "tst"} -> res = Conjunction(a, b)
               [] last.op = "orrs" -> res = a + b - Conjunction(a, b)
               [] last.op = "eors" -> res = a + b - 2 * Conjunction(a, b)
               [] last.op = "bics" -> res = a - Conjunction(a, b)
               [] last.op = "mvns" -> res = Not(b)
               [] last.op = "uxtb" -> res = a % Pow2[ByteBits]
               [] last.op = "uxth" -> res = a % Pow2[2 * ByteBits]
               [] last.op = "sxtb" -> res = Wide(a, ByteBits)
               [] last.op = "sxth" -> res = Wide(a, 2 * ByteBits)
               [] last.op = "rev"  -> \A k \in 0 .. 3 : ByteOf(res, k) = ByteOf(a, 3 - k)
               [] last.op = "rev16" ->
                    \A k \in {0, 2} : /\ ByteOf(res, k) = ByteOf(a, k + 1)
                                      /\ ByteOf(res, k + 1) = ByteOf(a, k)
               [] OTHER -> TRUE
<1>1. ResultsAreExact <=>
        /\ result
        /\ last.op \in {"ands", "tst", "orrs", "eors", "bics", "mvns", "rors", "muls", "adcs"} =>
             (flags.N <=> Neg(res)) /\ (flags.Z <=> res = 0)
  BY DEF ResultsAreExact
<1>2. Agrees(last.op, a, b, res) /\ (last.op \in Flagging => Shown(flags.N, flags.Z, res))
  BY DEF ResultLaws
<1> HIDE DEF a, b, res
<1>3. result
  BY <1>2 DEF Agrees
<1> HIDE DEF result
<1> QED BY <1>1, <1>2, <1>3 DEF Flagging, Shown, res

\* A logical instruction leaves the word of its ones, and the flags of it.
LEMMA LogicLeaves ==
  ASSUME FlagInv, NEW op, NEW rD, NEW a, NEW b, NEW ones, LogicalOnes(op, rD, a, b, ones)
  PROVE  /\ last'.op = op /\ last'.a = a /\ last'.b = b
         /\ last'.res \in Word /\ Ones[last'.res] = ones
         /\ Shown(flags'.N, flags'.Z, last'.res)
<1>1. PICK res \in Word : Ones[res] = ones /\ Logical(op, rD, a, b, res)
  BY DEF LogicalOnes
<1>2. last' = [op |-> op, a |-> a, b |-> b, carry |-> flags.C, res |-> res]
  BY <1>1 DEF Logical, Record
<1>3. flags' = [flags EXCEPT !.N = do_nflag(res), !.Z = do_zflag(res)]
  BY <1>1 DEF Logical
<1>4. flags'.N = do_nflag(res) /\ flags'.Z = do_zflag(res)
  BY <1>3 DEF FlagInv, TypeOK
<1> QED BY <1>1, <1>2, <1>4 DEF Shown, do_nflag, do_zflag

\* An extension or a reversal leaves the word of its ones.
LEMMA CopyLeaves ==
  ASSUME NEW op, NEW rD, NEW a, NEW ones, CopyOnes(op, rD, a, ones)
  PROVE  /\ last'.op = op /\ last'.a = a /\ last'.b = 0
         /\ last'.res \in Word /\ Ones[last'.res] = ones
<1>1. PICK res \in Word : Ones[res] = ones /\ Copy(op, rD, a, 0, res)
  BY DEF CopyOnes
<1>2. last' = [op |-> op, a |-> a, b |-> 0, carry |-> flags.C, res |-> res]
  BY <1>1 DEF Copy, Record
<1> QED BY <1>1, <1>2

\* rors, muls and adcs leave the flags of what they leave.
LEMMA FlagsLeft ==
  ASSUME FlagInv, NEW rD, NEW rM, rors(rD, rM) \/ muls(rD, rM) \/ adcs(rD, rM)
  PROVE  /\ last'.op \in {"rors", "muls", "adcs"}
         /\ Shown(flags'.N, flags'.Z, last'.res)
<1>1. CASE rors(rD, rM)
  <2> DEFINE a == gpr[rD]
             n == Amount(rM)
             ones == {(k - n) % WordBits : k \in Ones[a]}
             c == IF n = 0 THEN flags.C ELSE WordBits - 1 \in ones
             r == IF n = 0 THEN NoReg ELSE rD
  <2>1. ShiftOnes("rors", r, a, n, ones, n, c)
    BY <1>1 DEF rors
  <2> HIDE DEF a, n, ones, c, r
  <2>2. PICK res \in Word : Shift("rors", r, a, n, res, n, c)
    BY <2>1 DEF ShiftOnes
  <2>3. last' = [op |-> "rors", a |-> a, b |-> n, carry |-> flags.C, res |-> res]
    BY <2>2 DEF Shift, Record
  <2>4. flags' = [flags EXCEPT !.N = do_nflag(res), !.Z = do_zflag(res), !.C = c]
    BY <2>2 DEF Shift
  <2>5. flags'.N = do_nflag(res) /\ flags'.Z = do_zflag(res)
    BY <2>4 DEF FlagInv, TypeOK
  <2> QED BY <2>3, <2>5 DEF Shown, do_nflag, do_zflag
<1>2. CASE muls(rD, rM)
  <2> DEFINE res == Wrap(gpr[rD] * gpr[rM])
  <2>1. Logical("muls", rD, gpr[rD], gpr[rM], res)
    BY <1>2 DEF muls
  <2> HIDE DEF res
  <2>2. last' = [op |-> "muls", a |-> gpr[rD], b |-> gpr[rM], carry |-> flags.C, res |-> res]
    BY <2>1 DEF Logical, Record
  <2>3. flags' = [flags EXCEPT !.N = do_nflag(res), !.Z = do_zflag(res)]
    BY <2>1 DEF Logical
  <2>4. flags'.N = do_nflag(res) /\ flags'.Z = do_zflag(res)
    BY <2>3 DEF FlagInv, TypeOK
  <2> QED BY <2>2, <2>4 DEF Shown, do_nflag, do_zflag
<1>3. CASE adcs(rD, rM)
  <2> DEFINE a == gpr[rD]
             b == gpr[rM]
             carry == Val(flags.C)
             res == Wrap(a + b + carry)
             comparison == [valid |-> FALSE, a |-> a, b |-> b]
  <2>1. Sum("adcs", rD, a, b, carry, comparison)
    BY <1>3 DEF adcs, Addition
  <2> HIDE DEF a, b, carry, comparison
  <2>2. last' = [op |-> "adcs", a |-> a, b |-> b, carry |-> flags.C, res |-> res]
    BY <2>1 DEF Sum, Record
  <2>3. flags' = [N |-> do_nflag(res), Z |-> do_zflag(res),
                  C |-> do_cflag(a, b, carry), V |-> do_vflag(a, b, res)]
    BY <2>1 DEF Sum
  <2> HIDE DEF res
  <2>4. flags'.N = do_nflag(res) /\ flags'.Z = do_zflag(res)
    BY <2>3
  <2> QED BY <2>2, <2>4 DEF Shown, do_nflag, do_zflag
<1> QED BY <1>1, <1>2, <1>3

\* The six logical instructions.
LEMMA LogicLaws ==
  ASSUME FlagInv, NEW rD \in Dest, NEW rM \in Low,
         \/ ands(rD, rM) \/ bics(rD, rM) \/ eors(rD, rM)
         \/ orrs(rD, rM) \/ mvns(rD, rM) \/ tst(rD, rM)
  PROVE  ResultLaws'
<1> DEFINE a == gpr[rD]
           b == gpr[rM]
           c == Conjunction(a, b)
           r == last'.res
<1>1. a \in Word /\ b \in Word
  BY Operands DEF FlagInv
<1>2. PICK op, to, ones :
        /\ op \in {"ands", "bics", "eors", "orrs", "mvns", "tst"}
        /\ LogicalOnes(op, to, a, b, ones)
        /\ op \in {"ands", "tst"} => ones = Ones[a] \cap Ones[b]
        /\ op = "orrs" => ones = Ones[a] \cup Ones[b]
        /\ op = "eors" => ones = (Ones[a] \cup Ones[b]) \ (Ones[a] \cap Ones[b])
        /\ op = "bics" => ones = Ones[a] \ Ones[b]
        /\ op = "mvns" => ones = Bit \ Ones[b]
  <2>1. CASE ands(rD, rM)
    BY <2>1 DEF ands
  <2>2. CASE bics(rD, rM)
    BY <2>2 DEF bics
  <2>3. CASE eors(rD, rM)
    BY <2>3 DEF eors
  <2>4. CASE orrs(rD, rM)
    BY <2>4 DEF orrs
  <2>5. CASE mvns(rD, rM)
    BY <2>5 DEF mvns
  <2>6. CASE tst(rD, rM)
    BY <2>6 DEF tst
  <2> QED BY <2>1, <2>2, <2>3, <2>4, <2>5, <2>6
<1> HIDE DEF a, b
<1>3. /\ last'.op = op /\ last'.a = a /\ last'.b = b
      /\ r \in Word /\ Ones[r] = ones
      /\ Shown(flags'.N, flags'.Z, last'.res)
  BY <1>2, LogicLeaves
<1>4. Agrees(op, a, b, r)
  <2> HIDE DEF r
  <2>1. /\ Ones[r] = Ones[a] \cap Ones[b] => r = c
        /\ Ones[r] = Ones[a] \cup Ones[b] => r = a + b - c
        /\ Ones[r] = (Ones[a] \cup Ones[b]) \ (Ones[a] \cap Ones[b]) => r = a + b - 2 * c
        /\ Ones[r] = Ones[a] \ Ones[b] => r = a - c
        /\ Ones[r] = Bit \ Ones[b] => r = Not(b)
    BY <1>1, <1>3, LogicIs
  <2> QED BY <1>2, <1>3, <2>1 DEF Agrees
<1> QED BY <1>3, <1>4 DEF ResultLaws

\* The extensions and the reversals.
LEMMA CopyLaws ==
  ASSUME FlagInv, NEW rD \in Dest, NEW rM \in Low,
         \/ uxtb(rD, rM) \/ uxth(rD, rM) \/ sxtb(rD, rM) \/ sxth(rD, rM)
         \/ rev(rD, rM)  \/ rev16(rD, rM)
  PROVE  ResultLaws'
<1> DEFINE a == gpr[rM]
           r == last'.res
           back == [k \in 0 .. 3 |-> 3 - k]
           swap == [k \in 0 .. 3 |-> k + 1 - 2 * (k % 2)]
<1>1. a \in Word
  BY Operands DEF FlagInv
<1>2. PICK op, ones :
        /\ op \in {"uxtb", "uxth", "sxtb", "sxth", "rev", "rev16"}
        /\ CopyOnes(op, rD, a, ones)
        /\ op = "uxtb"  => ones = Zeroed(a, ByteBits)
        /\ op = "uxth"  => ones = Zeroed(a, 2 * ByteBits)
        /\ op = "sxtb"  => ones = Extended(a, ByteBits)
        /\ op = "sxth"  => ones = Extended(a, 2 * ByteBits)
        /\ op = "rev"   => ones = Moved(a, back)
        /\ op = "rev16" => ones = Moved(a, swap)
  <2>1. CASE uxtb(rD, rM)
    BY <2>1 DEF uxtb
  <2>2. CASE uxth(rD, rM)
    BY <2>2 DEF uxth
  <2>3. CASE sxtb(rD, rM)
    BY <2>3 DEF sxtb
  <2>4. CASE sxth(rD, rM)
    BY <2>4 DEF sxth
  <2>5. CASE rev(rD, rM)
    BY <2>5 DEF rev
  <2>6. CASE rev16(rD, rM)
    BY <2>6 DEF rev16
  <2> QED BY <2>1, <2>2, <2>3, <2>4, <2>5, <2>6
<1> HIDE DEF a
<1>3. last'.op = op /\ last'.a = a /\ last'.b = 0 /\ r \in Word /\ Ones[r] = ones
  BY <1>2, CopyLeaves
<1>4. Agrees(op, a, 0, r)
  <2> HIDE DEF r
  <2>1. /\ ByteBits \in Nat \ {0} /\ 2 * ByteBits \in Nat \ {0}
        /\ ByteBits <= WordBits /\ 2 * ByteBits <= WordBits
    BY Bytes, Width
  <2>2. /\ Ones[r] = Zeroed(a, ByteBits) => r = a % Pow2[ByteBits]
        /\ Ones[r] = Zeroed(a, 2 * ByteBits) => r = a % Pow2[2 * ByteBits]
    BY <1>1, <1>3, <2>1, ZeroedIs
  <2>3. /\ Ones[r] = Extended(a, ByteBits) => r = Wide(a, ByteBits)
        /\ Ones[r] = Extended(a, 2 * ByteBits) => r = Wide(a, 2 * ByteBits)
    BY <1>1, <1>3, <2>1, ExtendedIs
  <2>4. /\ Ones[r] = Moved(a, back) => \A k \in 0 .. 3 : ByteOf(r, k) = ByteOf(a, 3 - k)
        /\ Ones[r] = Moved(a, swap)
              => \A k \in {0, 2} : ByteOf(r, k) = ByteOf(a, k + 1) /\ ByteOf(r, k + 1) = ByteOf(a, k)
    BY <1>1, <1>3, ReversedIs
  <2> HIDE DEF back, swap
  <2> QED BY <1>2, <1>3, <2>2, <2>3, <2>4 DEF Agrees
<1> QED BY <1>2, <1>3, <1>4 DEF ResultLaws, Flagging

\* What neither the results nor the flags are claimed of.
LEMMA NoClaim ==
  ASSUME \/ last'.op \notin Ruled \cup Flagging
         \/ last'.op \in {"rors", "muls", "adcs"} /\ Shown(flags'.N, flags'.Z, last'.res)
         \/ ResultLaws /\ UNCHANGED <<last, flags>>
  PROVE  ResultLaws'
<1>1. CASE last'.op \notin Ruled \cup Flagging
  BY <1>1 DEF Ruled, Flagging, ResultLaws, Agrees
<1>2. CASE last'.op \in {"rors", "muls", "adcs"} /\ Shown(flags'.N, flags'.Z, last'.res)
  BY <1>2 DEF ResultLaws, Agrees
<1>3. CASE ResultLaws /\ UNCHANGED <<last, flags>>
  BY <1>3 DEF ResultLaws
<1> QED BY <1>1, <1>2, <1>3

\* Arithmetic instructions, of which muls and adcs claim their flags.
LEMMA ArithmeticClaims == FlagInv /\ ResultLaws /\ (Arithmetic \/ HighArithmetic) => ResultLaws'
<1> SUFFICES ASSUME FlagInv, ResultLaws, Arithmetic \/ HighArithmetic PROVE ResultLaws'
  OBVIOUS
<1>1. CASE Arithmetic
  <2>1. PICK rD \in Dest :
          \/ \E rM \in Low :
               \/ adcs(rD, rM) \/ sbcs(rD, rM) \/ rsbs(rD, rM) \/ cmp_r(rD, rM) \/ muls(rD, rM)
          \/ \E rN, rM \in Low : adds_r(rD, rN, rM) \/ subs(rD, rN, rM)
          \/ \E rN \in Low, imm \in Imm : adds_i3(rD, rN, imm) \/ subs_i3(rD, rN, imm)
          \/ \E imm \in Imm :
               \/ adds_i8(rD, imm) \/ subs_i8(rD, imm) \/ cmp_i(rD, imm)
               \/ add_sp(rD, imm)  \/ add_sp(GPR_SP, imm) \/ sub_sp(imm) \/ adr(rD, imm)
    BY <1>1 DEF Arithmetic
  <2>2. ASSUME NEW rM \in Low, adcs(rD, rM) \/ muls(rD, rM)
        PROVE  ResultLaws'
    BY <2>2, FlagsLeft, NoClaim
  <2>3. ASSUME NEW rM \in Low, sbcs(rD, rM) \/ rsbs(rD, rM) \/ cmp_r(rD, rM)
        PROVE  last'.op \in {"sbcs", "rsbs", "cmp_r"}
    BY <2>3, Names DEF sbcs, rsbs, cmp_r
  <2>4. ASSUME NEW rN \in Low, NEW rM \in Low, adds_r(rD, rN, rM) \/ subs(rD, rN, rM)
        PROVE  last'.op \in {"adds_r", "subs"}
    BY <2>4, Names DEF adds_r, subs
  <2>5. ASSUME NEW rN \in Low, NEW imm \in Imm, adds_i3(rD, rN, imm) \/ subs_i3(rD, rN, imm)
        PROVE  last'.op \in {"adds_i3", "subs_i3"}
    BY <2>5, Names DEF adds_i3, subs_i3
  <2>6. ASSUME NEW imm \in Imm, adds_i8(rD, imm) \/ subs_i8(rD, imm) \/ cmp_i(rD, imm)
        PROVE  last'.op \in {"adds_i8", "subs_i8", "cmp_i"}
    BY <2>6, Names DEF adds_i8, subs_i8, cmp_i
  <2>7. ASSUME NEW imm \in Imm,
               add_sp(rD, imm) \/ add_sp(GPR_SP, imm) \/ sub_sp(imm) \/ adr(rD, imm)
        PROVE  last'.op \in {"add_sp", "sub_sp", "adr"}
    BY <2>7, Names DEF add_sp, sub_sp, adr
  <2>8. ResultLaws' \/ last'.op \in {"sbcs", "rsbs", "cmp_r", "adds_r", "subs", "adds_i3", "subs_i3",
                                     "adds_i8", "subs_i8", "cmp_i", "add_sp", "sub_sp", "adr"}
    BY <2>1, <2>2, <2>3, <2>4, <2>5, <2>6, <2>7
  <2> QED BY <2>8, NoClaim DEF Ruled, Flagging
<1>2. CASE HighArithmetic
  <2>1. PICK rD, rM : add_r(rD, rM)
    BY <1>2 DEF HighArithmetic
  <2>2. CASE rD = GPR_PC /\ rM = GPR_PC
    BY <2>1, <2>2, NoClaim DEF add_r
  <2>3. CASE ~(rD = GPR_PC /\ rM = GPR_PC)
    <3>1. last'.op = "add_r"
      BY <2>1, <2>3, Names DEF add_r
    <3> QED BY <3>1, NoClaim DEF Ruled, Flagging
  <2> QED BY <2>2, <2>3
<1> QED BY <1>1, <1>2

\* Every instruction keeps the laws of the results.
LEMMA ResultLawsStep == FlagInv /\ ResultLaws /\ [Next]_vars => ResultLaws'
<1> SUFFICES ASSUME FlagInv, ResultLaws, [Next]_vars PROVE ResultLaws'
  OBVIOUS
<1>1. CASE Arithmetic \/ HighArithmetic
  BY <1>1, ArithmeticClaims
<1>2. CASE Logic
  <2>1. PICK rD \in Dest, rM \in Low :
          \/ ands(rD, rM)   \/ bics(rD, rM)   \/ eors(rD, rM)   \/ orrs(rD, rM)
          \/ mvns(rD, rM)   \/ tst(rD, rM)
          \/ lsls_r(rD, rM) \/ lsrs_r(rD, rM) \/ asrs_r(rD, rM) \/ rors(rD, rM)
          \/ \E imm \in Bit : lsls_i(rD, rM, imm) \/ lsrs_i(rD, rM, imm) \/ asrs_i(rD, rM, imm)
    BY <1>2 DEF Logic
  <2>2. ASSUME rors(rD, rM) PROVE ResultLaws'
    BY <2>2, FlagsLeft, NoClaim
  <2>3. ASSUME lsls_r(rD, rM) \/ lsrs_r(rD, rM) \/ asrs_r(rD, rM) PROVE ResultLaws'
    <3>1. last'.op \in {"lsls_r", "lsrs_r", "asrs_r"}
      BY <2>3, Names DEF lsls_r, lsrs_r, asrs_r
    <3> QED BY <3>1, NoClaim DEF Ruled, Flagging
  <2>4. ASSUME NEW imm \in Bit, lsls_i(rD, rM, imm) \/ lsrs_i(rD, rM, imm) \/ asrs_i(rD, rM, imm)
        PROVE  ResultLaws'
    <3>1. last'.op \in {"lsls_i", "lsrs_i", "asrs_i"}
      BY <2>4, Names DEF lsls_i, lsrs_i, asrs_i
    <3> QED BY <3>1, NoClaim DEF Ruled, Flagging
  <2> QED BY <2>1, <2>2, <2>3, <2>4, LogicLaws
<1>3. CASE Misc
  <2>1. ASSUME NEW rD, NEW x, movs_i(rD, x) \/ mov_r(rD, x) PROVE ResultLaws'
    <3>1. last'.op \in {"movs_i", "mov_r"}
      BY <2>1, Names DEF movs_i, mov_r
    <3> QED BY <3>1, NoClaim DEF Ruled, Flagging
  <2> QED BY <1>3, <2>1, CopyLaws DEF Misc
<1>4. CASE UNCHANGED vars
  BY <1>4, NoClaim DEF vars
<1> QED BY <1>1, <1>2, <1>3, <1>4 DEF Next

\* The logical instructions, extensions and byte reversals, which the handlers
\* compute bit by bit, leave the words arithmetic says, and N and Z describe them.
THEOREM ResultsExact == Spec => []ResultsAreExact
<1>1. Init => ResultLaws
  BY DEF Init, ResultLaws, Agrees, Flagging
<1>2. Spec => []ResultLaws
  BY <1>1, ResultLawsStep, FlagInvariant, PTL DEF Spec
<1> QED BY <1>2, ResultsRestated, PTL
=============================================================================
