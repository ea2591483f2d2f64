--------------------------------- MODULE Alu ---------------------------------
(***************************************************************************)
(* Data processing: the handlers of exmemwb_arith.c, exmemwb_logic.c and   *)
(* exmemwb_misc.c and the comparisons of exmemwb_branch.c, with the flag   *)
(* macros of exmemwb.h, and the conditions of b_c, which read the flags.   *)
(* The handlers take the operands that Decode finds.  cmn, movs_r and      *)
(* revsh are left out because no entry of the jump tables leads to them.   *)
(*                                                                         *)
(* A word has WordBits bits, 32 in the code, and four bytes.  For shifts   *)
(* and logic it is the set of the positions of its ones.                   *)
(*                                                                         *)
(* sum, compared and last are history variables, which no handler reads:   *)
(* the exact sums the carry and the overflow flag come from, the operands  *)
(* all four flags compare, and what the last instruction computed.         *)
(***************************************************************************)
EXTENDS Integers, FiniteSets

CONSTANTS
  WordBits, WordMod,  \* 32 and 2^32
  AmountMod,          \* 2^8: how much of a register a shift looks at
  Low, Dest,          \* the registers below r8 there are, and those written
  InitialSP, InitialPC,
  Imm,                \* bound: the immediate operands
  MaxSteps            \* bound: instructions run

VARIABLES gpr, flags, takenBranch, exited, sum, compared, last, steps
vars == <<gpr, flags, takenBranch, exited, sum, compared, last, steps>>

GPR_SP == 13
GPR_PC == 15
Regs   == Low \cup {GPR_SP, GPR_PC}
Word   == 0 .. WordMod - 1
Half   == WordMod \div 2
Bit    == 0 .. WordBits - 1

\* The weight 2^k of bit k.
Pow2[k \in Nat] == IF k = 0 THEN 1 ELSE 2 * Pow2[k - 1]

ASSUME AluAssumption ==
  /\ WordBits \in Nat /\ WordBits % 4 = 0 /\ WordMod = Pow2[WordBits]
  /\ WordMod \in Nat /\ WordMod >= 2 /\ WordMod % 2 = 0
  /\ AmountMod \in Nat \ {0}
  /\ Dest \subseteq Low /\ Low \subseteq 0 .. 7
  /\ {InitialSP, InitialPC} \subseteq Word
  /\ Imm \subseteq 0 .. Half - 1
  /\ MaxSteps \in Nat

Wrap(x)   == x % WordMod
Not(x)    == WordMod - 1 - x
Neg(x)    == x >= Half
Signed(x) == IF Neg(x) THEN x - WordMod ELSE x
Val(c)    == IF c THEN 1 ELSE 0
Ones      == [x \in Word |-> {k \in Bit : (x \div Pow2[k]) % 2 = 1}]

-----------------------------------------------------------------------------
\* The flags of a result, and of the addition of a, b and a carry.
do_nflag(res) == Neg(res)
do_zflag(res) == res = 0
do_vflag_add(a, b, res) == Neg(a) = Neg(b) /\ Neg(res)  \* Mutant: only one way over.
do_vflag(a, b, res) ==
  \/ Neg(a) /\ Neg(b) /\ ~Neg(res)
  \/ ~Neg(a) /\ ~Neg(b) /\ Neg(res)
do_cflag(a, b, carry) ==
  ((((a % Half) + (b % Half) + carry) \div Half + (a \div Half) + (b \div Half)) \div 2) % 2 = 1

NoReg == 16
Write(rD, res) == gpr' = IF rD = NoReg THEN gpr ELSE [gpr EXCEPT ![rD] = res]
Record(op, a, b, res) ==
  last' = [op |-> op, a |-> a, b |-> b, carry |-> flags.C, res |-> res]

\* An addition that sets all flags; a subtraction adds the complement and 1.
Sum(op, rD, a, b, carry, comparison) ==
  LET res == Wrap(a + b + carry)
  IN /\ Write(rD, res)
     /\ flags' = [N |-> do_nflag(res), Z |-> do_zflag(res),
                  C |-> do_cflag(a, b, carry), V |-> do_vflag(a, b, res)]
     /\ sum' = [unsigned |-> a + b + carry, signed |-> Signed(a) + Signed(b) + carry]
     /\ compared' = comparison
     /\ Record(op, a, b, res)
     /\ UNCHANGED <<takenBranch, exited>>

Addition(op, rD, a, b, carry) ==
  Sum(op, rD, a, b, carry, [valid |-> FALSE, a |-> a, b |-> b])
Subtraction(op, rD, a, b) ==
  Sum(op, rD, a, Not(b), 1, [valid |-> TRUE, a |-> a, b |-> b])

\* An instruction that sets N and Z only.
Logical(op, rD, a, b, res) ==
  /\ Write(rD, res)
  /\ flags' = [flags EXCEPT !.N = do_nflag(res), !.Z = do_zflag(res)]
  /\ compared' = [compared EXCEPT !.valid = FALSE]
  /\ Record(op, a, b, res)
  /\ UNCHANGED <<sum, takenBranch, exited>>

\* A shift sets C too; from an amount of 0 the last sum stays behind C.
Shift(op, rD, a, b, res, amount, c) ==
  /\ Write(rD, res)
  /\ flags' = [flags EXCEPT !.N = do_nflag(res), !.Z = do_zflag(res), !.C = c]
  /\ sum' = IF amount = 0 THEN sum ELSE [sum EXCEPT !.unsigned = WordMod * Val(c)]
  /\ compared' = [compared EXCEPT !.valid = FALSE]
  /\ Record(op, a, b, res)
  /\ UNCHANGED <<takenBranch, exited>>

\* An instruction that sets no flag.  alu_write_pc keeps the Thumb bit.
Copy(op, rD, a, b, res) ==
  /\ Write(rD, IF rD = GPR_PC THEN res + 1 - (res % 2) ELSE res)
  /\ takenBranch' = (rD = GPR_PC)
  /\ Record(op, a, b, res)
  /\ UNCHANGED <<flags, sum, compared, exited>>

-----------------------------------------------------------------------------
(***************************************************************************)
(* exmemwb_arith.c and the comparisons.                                    *)
(***************************************************************************)
adcs_plain(rD, rM)   == Addition("adcs", rD, gpr[rD], gpr[rM], 0)  \* Mutant
adcs(rD, rM)         == Addition("adcs", rD, gpr[rD], gpr[rM], Val(flags.C))
adds_i3(rD, rN, imm) == Addition("adds_i3", rD, gpr[rN], imm, 0)
adds_i8(rD, imm)     == Addition("adds_i8", rD, gpr[rD], imm, 0)
adds_r(rD, rN, rM)   == Addition("adds_r", rD, gpr[rN], gpr[rM], 0)
subs_i3(rD, rN, imm) == Subtraction("subs_i3", rD, gpr[rN], imm)
subs_i8(rD, imm)     == Subtraction("subs_i8", rD, gpr[rD], imm)
subs(rD, rN, rM)     == Subtraction("subs", rD, gpr[rN], gpr[rM])
sbcs(rD, rM)         == Addition("sbcs", rD, gpr[rD], Not(gpr[rM]), Val(flags.C))
rsbs(rD, rN)         == Subtraction("rsbs", rD, 0, gpr[rN])
cmp_i(rD, imm)       == Subtraction("cmp_i", NoReg, gpr[rD], imm)
cmp_r(rD, rM)        == Subtraction("cmp_r", NoReg, gpr[rD], gpr[rM])
muls_long(rD, rM)    == Logical("muls", rD, gpr[rD], gpr[rM], gpr[rD] * gpr[rM])  \* Mutant
muls(rD, rM)         == Logical("muls", rD, gpr[rD], gpr[rM], Wrap(gpr[rD] * gpr[rM]))

add_r(rD, rM) ==
  IF rD = GPR_PC /\ rM = GPR_PC
  THEN exited' = TRUE /\ UNCHANGED <<gpr, flags, takenBranch, sum, compared, last>>
  ELSE Copy("add_r", rD, gpr[rD], gpr[rM], Wrap(gpr[rD] + gpr[rM]))
add_sp(rD, imm) == Copy("add_sp", rD, gpr[GPR_SP], imm, Wrap(gpr[GPR_SP] + 4 * imm))
sub_sp(imm) ==
  Copy("sub_sp", GPR_SP, gpr[GPR_SP], imm, Wrap(gpr[GPR_SP] + Not(Wrap(4 * imm)) + 1))
adr(rD, imm) ==
  Copy("adr", rD, gpr[GPR_PC], imm, Wrap(gpr[GPR_PC] - (gpr[GPR_PC] % 4) + 4 * imm))

Arithmetic ==
  \E rD \in Dest :
    \/ \E rM \in Low :
         \/ adcs(rD, rM) \/ sbcs(rD, rM) \/ rsbs(rD, rM) \/ cmp_r(rD, rM) \/ muls(rD, rM)
    \/ \E rN, rM \in Low : adds_r(rD, rN, rM) \/ subs(rD, rN, rM)
    \/ \E rN \in Low, imm \in Imm : adds_i3(rD, rN, imm) \/ subs_i3(rD, rN, imm)
    \/ \E imm \in Imm :
         \/ adds_i8(rD, imm) \/ subs_i8(rD, imm) \/ cmp_i(rD, imm)
         \/ add_sp(rD, imm)  \/ add_sp(GPR_SP, imm) \/ sub_sp(imm) \/ adr(rD, imm)
HighArithmetic ==
  \E rD \in Dest \cup {GPR_PC}, rM \in Low \cup {GPR_PC} : add_r(rD, rM)

-----------------------------------------------------------------------------
(***************************************************************************)
(* exmemwb_logic.c: the result is the word with the given ones.            *)
(***************************************************************************)
LogicalOnes(op, rD, a, b, ones) ==
  \E res \in Word : Ones[res] = ones /\ Logical(op, rD, a, b, res)
ShiftOnes(op, rD, a, b, ones, amount, c) ==
  \E res \in Word : Ones[res] = ones /\ Shift(op, rD, a, b, res, amount, c)

ands(rD, rM) ==
  LogicalOnes("ands", rD, gpr[rD], gpr[rM], Ones[gpr[rD]] \cap Ones[gpr[rM]])
bics_not(rD, rM) ==  \* Mutant: the operands the other way around.
  LogicalOnes("bics", rD, gpr[rD], gpr[rM], Ones[gpr[rM]] \ Ones[gpr[rD]])
bics(rD, rM) ==
  LogicalOnes("bics", rD, gpr[rD], gpr[rM], Ones[gpr[rD]] \ Ones[gpr[rM]])
eors(rD, rM) ==
  LogicalOnes("eors", rD, gpr[rD], gpr[rM],
              (Ones[gpr[rD]] \cup Ones[gpr[rM]]) \ (Ones[gpr[rD]] \cap Ones[gpr[rM]]))
orrs(rD, rM) ==
  LogicalOnes("orrs", rD, gpr[rD], gpr[rM], Ones[gpr[rD]] \cup Ones[gpr[rM]])
mvns(rD, rM) == LogicalOnes("mvns", rD, gpr[rD], gpr[rM], Bit \ Ones[gpr[rM]])
tst(rD, rM) ==
  LogicalOnes("tst", NoReg, gpr[rD], gpr[rM], Ones[gpr[rD]] \cap Ones[gpr[rM]])

Left(a, n)  == {k + n : k \in Ones[a]} \cap Bit
Right(a, n) == {k - n : k \in Ones[a]} \cap Bit
SignFill(a, n) == IF Neg(a) THEN Bit \ (0 .. WordBits - 1 - n) ELSE {}
Amount(rM)  == gpr[rM] % AmountMod

lsls_i(rD, rM, imm) ==
  LET a == gpr[rM]
  IN ShiftOnes("lsls_i", rD, a, imm, Left(a, imm), imm,
               IF imm = 0 THEN flags.C ELSE WordBits - imm \in Ones[a])
lsrs_i(rD, rM, imm) ==
  LET a == gpr[rM]
  IN ShiftOnes("lsrs_i", rD, a, imm, IF imm = 0 THEN {} ELSE Right(a, imm),
               IF imm = 0 THEN WordBits ELSE imm, imm # 0 /\ imm - 1 \in Ones[a])
asrs_i(rD, rM, imm) ==
  LET a == gpr[rM]
      n == IF imm = 0 THEN WordBits ELSE imm
  IN ShiftOnes("asrs_i", rD, a, imm, Right(a, n) \cup SignFill(a, n), n,
               IF imm = 0 THEN flags.C ELSE imm - 1 \in Ones[a])

\* Mutant: takes the whole register for gone at WordBits, its last bit too.
lsls_r_short(rD, rM) ==
  LET a == gpr[rD]  n == Amount(rM)
  IN ShiftOnes("lsls_r", rD, a, n, IF n >= WordBits THEN {} ELSE Left(a, n), n,
               IF n = 0 THEN flags.C ELSE n < WordBits /\ WordBits - n \in Ones[a])

lsls_r(rD, rM) ==
  LET a == gpr[rD]  n == Amount(rM)
  IN ShiftOnes("lsls_r", rD, a, n, IF n >= WordBits THEN {} ELSE Left(a, n), n,
               IF n = 0 THEN flags.C ELSE n <= WordBits /\ WordBits - n \in Ones[a])
lsrs_r(rD, rM) ==
  LET a == gpr[rD]  n == Amount(rM)
  IN ShiftOnes("lsrs_r", rD, a, n, IF n >= WordBits THEN {} ELSE Right(a, n), n,
               IF n = 0 THEN flags.C ELSE n <= WordBits /\ n - 1 \in Ones[a])
asrs_r(rD, rM) ==
  LET a == gpr[rD]
      m == IF Amount(rM) < WordBits THEN Amount(rM) ELSE WordBits
  IN ShiftOnes("asrs_r", rD, a, Amount(rM), Right(a, m) \cup SignFill(a, m), Amount(rM),
               IF Amount(rM) = 0 THEN flags.C ELSE m - 1 \in Ones[a])
rors(rD, rM) ==
  LET a == gpr[rD]  n == Amount(rM)
      ones == {(k - n) % WordBits : k \in Ones[a]}
  IN ShiftOnes("rors", IF n = 0 THEN NoReg ELSE rD, a, n, ones, n,
               IF n = 0 THEN flags.C ELSE WordBits - 1 \in ones)

Logic ==
  \E rD \in Dest, rM \in Low :
    \/ ands(rD, rM)   \/ bics(rD, rM)   \/ eors(rD, rM)   \/ orrs(rD, rM)
    \/ mvns(rD, rM)   \/ tst(rD, rM)
    \/ lsls_r(rD, rM) \/ lsrs_r(rD, rM) \/ asrs_r(rD, rM) \/ rors(rD, rM)
    \/ \E imm \in Bit : lsls_i(rD, rM, imm) \/ lsrs_i(rD, rM, imm) \/ asrs_i(rD, rM, imm)

-----------------------------------------------------------------------------
(***************************************************************************)
(* exmemwb_misc.c: moves, extensions and byte reversals.                   *)
(***************************************************************************)
ByteBits == WordBits \div 4
CopyOnes(op, rD, a, ones) ==
  \E res \in Word : Ones[res] = ones /\ Copy(op, rD, a, 0, res)

movs_i(rD, imm) == Logical("movs_i", rD, imm, imm, imm)
mov_r(rD, rM)   == Copy("mov_r", rD, gpr[rM], 0, gpr[rM])

Zeroed(a, n)   == {k \in Ones[a] : k < n}
Extended(a, n) == Zeroed(a, n) \cup IF n - 1 \in Ones[a] THEN {k \in Bit : k >= n} ELSE {}
uxtb(rD, rM) == CopyOnes("uxtb", rD, gpr[rM], Zeroed(gpr[rM], ByteBits))
uxth(rD, rM) == CopyOnes("uxth", rD, gpr[rM], Zeroed(gpr[rM], 2 * ByteBits))
sxtb(rD, rM) == CopyOnes("sxtb", rD, gpr[rM], Extended(gpr[rM], ByteBits))
sxth(rD, rM) == CopyOnes("sxth", rD, gpr[rM], Extended(gpr[rM], 2 * ByteBits))

\* Byte k \div ByteBits of the word moves to byte lane(k \div ByteBits).
Moved(a, lane) == {lane[k \div ByteBits] * ByteBits + (k % ByteBits) : k \in Ones[a]}
rev(rD, rM)   == CopyOnes("rev", rD, gpr[rM], Moved(gpr[rM], [k \in 0 .. 3 |-> 3 - k]))
rev16(rD, rM) ==
  CopyOnes("rev16", rD, gpr[rM], Moved(gpr[rM], [k \in 0 .. 3 |-> k + 1 - 2 * (k % 2)]))

Misc ==
  \/ \E rD \in Dest, rM \in Low :
       \/ uxtb(rD, rM) \/ uxth(rD, rM) \/ sxtb(rD, rM) \/ sxth(rD, rM)
       \/ rev(rD, rM)  \/ rev16(rD, rM)
  \/ \E rD \in Dest, imm \in Imm : movs_i(rD, imm)
  \/ \E rD \in Dest \cup {GPR_PC}, rM \in Low \cup {GPR_SP, GPR_PC} : mov_r(rD, rM)

-----------------------------------------------------------------------------
\* Earlier instructions have left any values in the low registers, and a carry.
Init ==
  /\ \E low \in [Low -> Word] :
       gpr = [r \in Regs |-> CASE r = GPR_SP -> InitialSP
                               [] r = GPR_PC -> InitialPC
                               [] OTHER      -> low[r]]
  /\ \E c \in BOOLEAN :
       /\ flags = [N |-> FALSE, Z |-> FALSE, C |-> c, V |-> FALSE]
       /\ sum = [unsigned |-> WordMod * Val(c), signed |-> 0]
  /\ takenBranch = FALSE /\ exited = FALSE /\ steps = 0
  /\ compared = [valid |-> FALSE, a |-> 0, b |-> 0]
  /\ last = [op |-> "none", a |-> 0, b |-> 0, carry |-> FALSE, res |-> 0]

Next ==
  /\ ~exited /\ steps < MaxSteps
  /\ steps' = steps + 1
  /\ Arithmetic \/ HighArithmetic \/ Logic \/ Misc
Spec == Init /\ [][Next]_vars

\* b_c: whether a conditional branch that comes next is taken.
hs == flags.C  \* Mutant of hi: higher or the same.
hi == flags.C /\ ~flags.Z
ge == flags.N = flags.V
gt == ~flags.Z /\ flags.N = flags.V
Taken(cond) ==
  CASE cond = 0  -> flags.Z  [] cond = 1  -> ~flags.Z
    [] cond = 2  -> flags.C  [] cond = 3  -> ~flags.C
    [] cond = 4  -> flags.N  [] cond = 5  -> ~flags.N
    [] cond = 6  -> flags.V  [] cond = 7  -> ~flags.V
    [] cond = 8  -> hi       [] cond = 9  -> ~hi
    [] cond = 10 -> ge       [] cond = 11 -> ~ge
    [] cond = 12 -> gt       [] OTHER     -> ~gt

-----------------------------------------------------------------------------
\* Registers hold words, whatever was shifted, extended or summed into them.
TypeOK ==
  /\ gpr \in [Regs -> Word]
  /\ flags \in [N : BOOLEAN, Z : BOOLEAN, C : BOOLEAN, V : BOOLEAN]
  /\ takenBranch \in BOOLEAN /\ exited \in BOOLEAN
  /\ compared \in [valid : BOOLEAN, a : Word, b : Word]
  /\ last.a \in Word /\ last.b \in Nat /\ last.carry \in BOOLEAN /\ last.res \in Word

\* The carry flag is the carry out of the last addition, and the overflow flag
\* tells that its signed sum did not fit, however many instructions that set
\* neither came since (do_cflag adds the words in two halves, exmemwb.c:22).
CarryAndOverflowAreTrue ==
  /\ flags.C <=> sum.unsigned >= WordMod
  /\ flags.V <=> (sum.signed < -Half \/ sum.signed >= Half)

\* After a comparison or subtraction, and as long as its flags stand, every
\* condition of b_c that orders two numbers branches as the numbers are ordered,
\* as unsigned numbers and as signed ones.
ConditionsOrder ==
  LET a == compared.a  b == compared.b  sa == Signed(compared.a)  sb == Signed(compared.b)
  IN compared.valid =>
       /\ (Taken(0) <=> a = b)     /\ (Taken(1) <=> a # b)
       /\ (Taken(2) <=> a >= b)    /\ (Taken(3) <=> a < b)
       /\ (Taken(8) <=> a > b)     /\ (Taken(9) <=> a <= b)
       /\ (Taken(10) <=> sa >= sb) /\ (Taken(11) <=> sa < sb)
       /\ (Taken(12) <=> sa > sb)  /\ (Taken(13) <=> sa <= sb)

\* adcs and sbcs continue the last addition or subtraction into the next word:
\* the two words and the new carry are the exact double-word sum, whatever ran
\* in between without setting the carry.
DoubleWordExact ==
  [][steps' # steps /\ ~exited' /\ last'.op \in {"adcs", "sbcs"} =>
       WordMod * WordMod * Val(flags'.C) + WordMod * last'.res + (sum.unsigned % WordMod)
         = WordMod * (last'.a + last'.b) + sum.unsigned]_vars

-----------------------------------------------------------------------------
(***************************************************************************)
(* Reference definitions in the arithmetic of numbers: a shift is that     *)
(* many shifts by one bit, each of which drops a bit into the carry.       *)
(***************************************************************************)
ByOne(op, s) ==
  LET odd == s.v % 2 = 1
  IN CASE op = "lsl" -> [v |-> (2 * s.v) % WordMod, c |-> Neg(s.v)]
       [] op = "lsr" -> [v |-> s.v \div 2, c |-> odd]
       [] op = "asr" -> [v |-> (s.v \div 2) + (IF Neg(s.v) THEN Half ELSE 0), c |-> odd]
       [] OTHER      -> [v |-> (s.v \div 2) + (IF odd THEN Half ELSE 0), c |-> odd]
ByMany(op, v, c, n) ==
  LET f[k \in 0 .. n] == IF k = 0 THEN [v |-> v, c |-> c] ELSE ByOne(op, f[k - 1])
  IN f[n]

\* A shift or rotation by any amount a register can hold, up to and beyond the
\* width of a word, leaves what as many single shifts leave, in the register and
\* in the carry.  An immediate of 0 means the whole width to the right, for the
\* register only: lsrs_i and asrs_i then leave another carry.
ShiftsAreRepeated ==
  LET reg == [lsls_r |-> "lsl", lsrs_r |-> "lsr", asrs_r |-> "asr", rors |-> "ror"]
      imm == [lsls_i |-> "lsl", lsrs_i |-> "lsr", asrs_i |-> "asr"]
      whole == last.op \in {"lsrs_i", "asrs_i"} /\ last.b = 0
      n     == IF whole THEN WordBits ELSE last.b
      kind  == IF last.op \in DOMAIN reg THEN reg[last.op] ELSE imm[last.op]
  IN last.op \in DOMAIN reg \cup DOMAIN imm =>
       LET s == ByMany(kind, last.a, last.carry, n)
       IN last.res = s.v /\ (flags.C = s.c \/ whole)

Conjunction(x, y) ==
  LET bit(z, k) == (z \div Pow2[k]) % 2
      f[k \in 0 .. WordBits] ==
        IF k = 0 THEN 0
        ELSE 2 * f[k - 1] + bit(x, WordBits - k) * bit(y, WordBits - k)
  IN f[WordBits]
ByteOf(x, k) == (x \div Pow2[ByteBits * k]) % Pow2[ByteBits]
Wide(x, n)   == LET low == x % Pow2[n] IN Wrap(IF low >= Pow2[n - 1] THEN low - Pow2[n] ELSE low)

\* The logical instructions, extensions and byte reversals agree with arithmetic,
\* and N and Z describe what the last instruction that sets them computed.
ResultsAreExact ==
  LET a == last.a  b == last.b  res == last.res
  IN /\ CASE last.op \in {"ands", "tst"} -> res = Conjunction(a, b)
          [] last.op = "orrs" -> res = a + b - Conjunction(a, b)
          [] last.op = "eors" -> res = a + b - 2 * Conjunction(a, b)
          [] last.op = "bics" -> res = a - Conjunction(a, b)
          [] last.op = "mvns" -> res = Not(b)
          [] last.op = "uxtb" -> res = a % Pow2[ByteBits]
          [] last.op = "uxth" -> res = a % Pow2[2 * ByteBits]
          [] last.op = "sxtb" -> res = Wide(a, ByteBits)
          [] last.op = "sxth" -> res = Wide(a, 2 * ByteBits)
          [] last.op = "rev"  -> \A k \in 0 .. 3 : ByteOf(res, k) = ByteOf(a, 3 - k)
          [] last.op = "rev16" ->
               \A k \in {0, 2} : /\ ByteOf(res, k) = ByteOf(a, k + 1)
                                 /\ ByteOf(res, k + 1) = ByteOf(a, k)
          [] OTHER -> TRUE
     /\ last.op \in {"ands", "tst", "orrs", "eors", "bics", "mvns", "rors", "muls", "adcs"} =>
          (flags.N <=> Neg(res)) /\ (flags.Z <=> res = 0)
=============================================================================
