---------------------------- MODULE DecodeProofs ----------------------------
(***************************************************************************)
(* Every word runs as the instruction set has it: the properties of Decode *)
(* for all 65536 words and any set of second halves.  The proofs go by the *)
(* opcodes of the instruction set, not by enumerating words.               *)
(***************************************************************************)
EXTENDS Decode, TLAPS

-----------------------------------------------------------------------------
(***************************************************************************)
(* A word as its opcode and the fields behind it.                          *)
(***************************************************************************)

\* A word in slices.
LEMMA Slices ==
  ASSUME NEW w \in Insn
  PROVE  /\ w \in Nat
         /\ Bits(w, 10, 6) = w \div 1024 /\ Bits(w, 10, 6) \in 0 .. 63
         /\ Bits(w, 9, 1) = (w \div 512) % 2
         /\ Bits(w, 8, 2) = (w \div 256) % 4
         /\ Bits(w, 8, 4) = (w \div 256) % 16
         /\ Bits(w, 7, 3) = (w \div 128) % 8
         /\ Bits(w, 6, 4) = (w \div 64) % 16
         /\ Bits(w, 9, 7) = w \div 512
<1>1. w \in Nat /\ w < 65536
  BY DEF Insn
<1>2. w \div 1024 \in 0 .. 63 /\ w \div 512 \in 0 .. 127
  BY <1>1
<1>3. /\ Bits(w, 10, 6) = (w \div 1024) % 64
      /\ Bits(w, 9, 7) = (w \div 512) % 128
      /\ Bits(w, 9, 1) = (w \div 512) % 2
      /\ Bits(w, 8, 2) = (w \div 256) % 4
      /\ Bits(w, 8, 4) = (w \div 256) % 16
      /\ Bits(w, 7, 3) = (w \div 128) % 8
      /\ Bits(w, 6, 4) = (w \div 64) % 16
  BY DEF Bits
<1>4. \A m \in Nat : \A n \in Nat : n < m => n % m = n
  OBVIOUS
<1>5. (w \div 1024) % 64 = w \div 1024 /\ (w \div 512) % 128 = w \div 512
  BY <1>2, <1>4
<1>6. Bits(w, 10, 6) \in 0 .. 63
  BY <1>2, <1>3, <1>5
<1> QED BY <1>1, <1>3, <1>5, <1>6

\* Dividing again.
LEMMA Quotients ==
  ASSUME NEW w \in Nat
  PROVE  /\ (w \div 1024) \div 2 = w \div 2048
         /\ (w \div 512) \div 2 = w \div 1024
         /\ (w \div 256) \div 2 = w \div 512
         /\ (w \div 256) \div 4 = w \div 1024
         /\ (w \div 128) \div 2 = w \div 256
         /\ (w \div 128) \div 8 = w \div 1024
         /\ (w \div 64) \div 2 = w \div 128
         /\ (w \div 64) \div 4 = w \div 256
         /\ (w \div 64) \div 16 = w \div 1024
<1>1. (w \div 1024) \div 2 = w \div 2048
  OBVIOUS
<1>2. (w \div 512) \div 2 = w \div 1024
  OBVIOUS
<1>3. (w \div 256) \div 2 = w \div 512
  OBVIOUS
<1>4. (w \div 256) \div 4 = w \div 1024
  OBVIOUS
<1>5. (w \div 128) \div 2 = w \div 256
  OBVIOUS
<1>6. (w \div 128) \div 8 = w \div 1024
  OBVIOUS
<1>7. (w \div 64) \div 2 = w \div 128
  OBVIOUS
<1>8. (w \div 64) \div 4 = w \div 256
  OBVIOUS
<1>9. (w \div 64) \div 16 = w \div 1024
  OBVIOUS
<1> QED BY <1>1, <1>2, <1>3, <1>4, <1>5, <1>6, <1>7, <1>8, <1>9

\* An opcode of 5, 7, 8, 9 or 10 bits, and the fields that the tables look at.
LEMMA Width5 ==
  ASSUME NEW w \in Insn
  PROVE  Bits(w, 10, 6) \in {2 * (w \div 2048), 2 * (w \div 2048) + 1}
<1> DEFINE x == w \div 1024
<1>1. x \in Nat /\ x \div 2 = w \div 2048 /\ Bits(w, 10, 6) = x
  BY Slices, Quotients
<1>2. x \in {2 * (x \div 2), 2 * (x \div 2) + 1}
  BY <1>1
<1> QED BY <1>1, <1>2

LEMMA Width7 ==
  ASSUME NEW w \in Insn
  PROVE  /\ Bits(w, 10, 6) = (w \div 512) \div 2
         /\ Bits(w, 9, 1) = (w \div 512) % 2
BY Slices, Quotients

LEMMA Width8 ==
  ASSUME NEW w \in Insn
  PROVE  /\ Bits(w, 10, 6) = (w \div 256) \div 4
         /\ Bits(w, 8, 2) = (w \div 256) % 4
         /\ Bits(w, 9, 1) = ((w \div 256) \div 2) % 2
         /\ Bits(w, 8, 4) = (w \div 256) % 16
         /\ Bits(w, 7, 3) \in {2 * ((w \div 256) % 4), 2 * ((w \div 256) % 4) + 1}
<1> DEFINE x == w \div 128   y == w \div 256
<1>1. /\ x \in Nat /\ y \in Nat /\ x \div 2 = y /\ y \div 4 = w \div 1024
      /\ y \div 2 = w \div 512 /\ w \in Nat
  BY Slices, Quotients
<1>2. /\ Bits(w, 10, 6) = y \div 4 /\ Bits(w, 8, 2) = y % 4 /\ Bits(w, 9, 1) = (y \div 2) % 2
      /\ Bits(w, 8, 4) = y % 16 /\ Bits(w, 7, 3) = x % 8
  BY Slices, <1>1
<1> HIDE DEF x, y
<1>3. x \in {2 * y, 2 * y + 1}
  BY <1>1
<1>4. x % 8 \in {2 * (y % 4), 2 * (y % 4) + 1}
  BY <1>1, <1>3
<1> QED BY <1>1, <1>2, <1>4 DEF x, y

LEMMA Width9 ==
  ASSUME NEW w \in Insn
  PROVE  /\ Bits(w, 10, 6) = (w \div 128) \div 8
         /\ Bits(w, 8, 2) = ((w \div 128) \div 2) % 4
         /\ Bits(w, 7, 3) = (w \div 128) % 8
         /\ Bits(w, 6, 4) \in {2 * ((w \div 128) % 8), 2 * ((w \div 128) % 8) + 1}
<1> DEFINE x == w \div 64   y == w \div 128
<1>1. /\ x \in Nat /\ y \in Nat /\ x \div 2 = y /\ y \div 8 = w \div 1024
      /\ y \div 2 = w \div 256 /\ w \in Nat
  BY Slices, Quotients
<1>2. /\ Bits(w, 10, 6) = y \div 8 /\ Bits(w, 8, 2) = (y \div 2) % 4
      /\ Bits(w, 7, 3) = y % 8 /\ Bits(w, 6, 4) = x % 16
  BY Slices, <1>1
<1> HIDE DEF x, y
<1>3. x \in {2 * y, 2 * y + 1}
  BY <1>1
<1>4. x % 16 \in {2 * (y % 8), 2 * (y % 8) + 1}
  BY <1>1, <1>3
<1> QED BY <1>1, <1>2, <1>4 DEF x, y

LEMMA Width10 ==
  ASSUME NEW w \in Insn
  PROVE  /\ Bits(w, 10, 6) = (w \div 64) \div 16
         /\ Bits(w, 8, 2) = ((w \div 64) \div 4) % 4
         /\ Bits(w, 6, 4) = (w \div 64) % 16
BY Slices, Quotients

-----------------------------------------------------------------------------
(***************************************************************************)
(* The two tables by the six bits they are indexed with, and then by the   *)
(* opcodes of the instruction set, which are 5 to 10 bits wide: which      *)
(* handler runs and which decoder reads the operands.                      *)
(***************************************************************************)

\* The tables by index.
LEMMA Entries ==
  ASSUME NEW w, NEW i, i = Bits(w, 10, 6)
  PROVE  /\ i = 6  => executeJumpTable(w) = entry6(w)
         /\ i = 7  => executeJumpTable(w) = entry7(w)
         /\ i = 16 => executeJumpTable(w) = entry16(w)
         /\ i = 17 => executeJumpTable(w) = entry17(w)
         /\ i = 20 => executeJumpTable(w) = entry20(w)
         /\ i = 21 => executeJumpTable(w) = entry21(w)
         /\ i = 22 => executeJumpTable(w) = entry22(w)
         /\ i = 23 => executeJumpTable(w) = entry23(w)
         /\ i = 44 => executeJumpTable(w) = entry44(w)
         /\ i = 45 => executeJumpTable(w) = "push"
         /\ i = 46 => executeJumpTable(w) = entry46(w)
         /\ i = 47 => executeJumpTable(w) = entry47(w)
         /\ i = 55 => executeJumpTable(w) = entry55(w)
         /\ i \in 52 .. 54 => executeJumpTable(w) = "b_c"
         /\ i \in {60, 61} => executeJumpTable(w) = "bl"
         /\ i \in {58, 59, 62, 63} => executeJumpTable(w) = "error"
BY DEF executeJumpTable, IsBL

\* The indices of the pairs of equal entries.
Paired == (0 .. 5) \cup (8 .. 15) \cup {18, 19} \cup (24 .. 43) \cup (48 .. 51) \cup {56, 57}

LEMMA Doubles ==
  ASSUME NEW w, NEW i, i = Bits(w, 10, 6), i \in Paired
  PROVE  executeJumpTable(w) = Pairs[(i \div 2) + 1]
<1>1. /\ i \notin {6, 7, 16, 17, 20, 21, 22, 23, 44, 45, 46, 47, 55}
      /\ i \notin 52 .. 54 /\ i \notin {60, 61} /\ i \notin {58, 59, 62, 63}
  BY DEF Paired
<1> HIDE DEF Paired
<1> QED BY <1>1 DEF executeJumpTable, IsBL

LEMMA Decoders ==
  ASSUME NEW w, NEW half, NEW i, i = Bits(w, 10, 6)
  PROVE  /\ i \in (0 .. 5) \cup (24 .. 35) => decodeJumpTable(w, half) = decode_2loimm5(w)
         /\ i \in {6} \cup (20 .. 23) => decodeJumpTable(w, half) = decode_3lo(w)
         /\ i = 7 => decodeJumpTable(w, half) = decode_2loimm3(w)
         /\ i \in (8 .. 15) \cup {18, 19} \cup (36 .. 43) =>
              decodeJumpTable(w, half) = decode_imm8lo(w)
         /\ i \in {16, 46} => decodeJumpTable(w, half) = decode_2lo(w)
         /\ i = 17 => decodeJumpTable(w, half) = decode_17(w)
         /\ i = 44 => decodeJumpTable(w, half) = decode_44(w)
         /\ i = 45 => decodeJumpTable(w, half) = decode_push(w)
         /\ i = 47 => decodeJumpTable(w, half) = decode_47(w)
         /\ i \in 48 .. 51 => decodeJumpTable(w, half) = decode_reglistlo(w)
         /\ i \in 52 .. 55 => decodeJumpTable(w, half) = decode_imm8c(w)
         /\ i \in {56, 57} => decodeJumpTable(w, half) = decode_imm11(w)
         /\ i \in {60, 61} => decodeJumpTable(w, half) = decode_bl(w, half)
BY DEF decodeJumpTable, IsBL

\* The opcodes of 5 bits are indices without their last bit.
LEMMA PairsAre ==
  /\ Pairs[1] = "lsls_i" /\ Pairs[2] = "lsrs_i" /\ Pairs[3] = "asrs_i" /\ Pairs[5] = "movs_i"
  /\ Pairs[6] = "cmp_i" /\ Pairs[7] = "adds_i8" /\ Pairs[8] = "subs_i8" /\ Pairs[10] = "ldr_lit"
  /\ Pairs[13] = "str_i" /\ Pairs[14] = "ldr_i" /\ Pairs[15] = "strb_i" /\ Pairs[16] = "ldrb_i"
  /\ Pairs[17] = "strh_i" /\ Pairs[18] = "ldrh_i" /\ Pairs[19] = "str_sp" /\ Pairs[20] = "ldr_sp"
  /\ Pairs[21] = "adr" /\ Pairs[22] = "add_sp" /\ Pairs[25] = "stm" /\ Pairs[26] = "ldm"
  /\ Pairs[29] = "b"
BY DEF Pairs

LEMMA FiveBits ==
  ASSUME NEW w \in Insn, NEW half, NEW op, op = w \div 2048
  PROVE  /\ op \in (0 .. 2) \cup (4 .. 7) \cup {9} \cup (12 .. 21) \cup {24, 25, 28} =>
              executeJumpTable(w) = Pairs[op + 1]
         /\ op \in (0 .. 2) \cup (12 .. 17) => decodeJumpTable(w, half) = decode_2loimm5(w)
         /\ op \in (4 .. 7) \cup {9} \cup (18 .. 21) => decodeJumpTable(w, half) = decode_imm8lo(w)
         /\ op \in {24, 25} => decodeJumpTable(w, half) = decode_reglistlo(w)
         /\ op = 28 => decodeJumpTable(w, half) = decode_imm11(w)
         /\ op = 30 => executeJumpTable(w) = "bl" /\ decodeJumpTable(w, half) = decode_bl(w, half)
<1> DEFINE i == Bits(w, 10, 6)
<1>1. i \in {2 * op, 2 * op + 1} /\ op \in Int
  BY Width5, Slices
<1>2. i \in Int /\ i \div 2 = op
  BY <1>1
<1>3. /\ i \in Paired => executeJumpTable(w) = Pairs[op + 1]
      /\ i \in {60, 61} => executeJumpTable(w) = "bl"
      /\ i \in (0 .. 5) \cup (24 .. 35) => decodeJumpTable(w, half) = decode_2loimm5(w)
      /\ i \in (8 .. 15) \cup {18, 19} \cup (36 .. 43) =>
              decodeJumpTable(w, half) = decode_imm8lo(w)
      /\ i \in 48 .. 51 => decodeJumpTable(w, half) = decode_reglistlo(w)
      /\ i \in {56, 57} => decodeJumpTable(w, half) = decode_imm11(w)
      /\ i \in {60, 61} => decodeJumpTable(w, half) = decode_bl(w, half)
  BY <1>2, Doubles, Entries, Decoders
<1> HIDE DEF i
<1>4. op \in (0 .. 2) \cup (4 .. 7) \cup {9} \cup (12 .. 21) \cup {24, 25, 28} => i \in Paired
  BY <1>1 DEF Paired
<1>5. /\ op \in (0 .. 2) \cup (12 .. 17) => i \in (0 .. 5) \cup (24 .. 35)
      /\ op \in (4 .. 7) \cup {9} \cup (18 .. 21) => i \in (8 .. 15) \cup {18, 19} \cup (36 .. 43)
      /\ op \in {24, 25} => i \in 48 .. 51
      /\ op = 28 => i \in {56, 57}
      /\ op = 30 => i \in {60, 61}
  BY <1>1
<1> QED BY <1>3, <1>4, <1>5

\* The opcodes of 7 bits: an index and the bit that its entry looks at.
LEMMA SevenBits ==
  ASSUME NEW w \in Insn, NEW half, NEW op, op = w \div 512
  PROVE  /\ op = 12 => executeJumpTable(w) = "adds_r"
         /\ op = 13 => executeJumpTable(w) = "subs"
         /\ op = 14 => executeJumpTable(w) = "adds_i3"
         /\ op = 15 => executeJumpTable(w) = "subs_i3"
         /\ op = 40 => executeJumpTable(w) = "str_r"
         /\ op = 41 => executeJumpTable(w) = "strh_r"
         /\ op = 42 => executeJumpTable(w) = "strb_r"
         /\ op = 43 => executeJumpTable(w) = "ldrsb_r"
         /\ op = 44 => executeJumpTable(w) = "ldr_r"
         /\ op = 45 => executeJumpTable(w) = "ldrh_r"
         /\ op = 46 => executeJumpTable(w) = "ldrb_r"
         /\ op = 47 => executeJumpTable(w) = "ldrsh_r"
         /\ op \in {90, 91} => executeJumpTable(w) = "push"
         /\ op = 94 => executeJumpTable(w) = "pop"
         /\ op \in {12, 13} \cup (40 .. 47) => decodeJumpTable(w, half) = decode_3lo(w)
         /\ op \in {14, 15} => decodeJumpTable(w, half) = decode_2loimm3(w)
         /\ op \in {90, 91} => decodeJumpTable(w, half) = decode_push(w)
         /\ op = 94 => decodeJumpTable(w, half) = decode_pop(w)
<1> DEFINE i == Bits(w, 10, 6)
<1>1. i = op \div 2 /\ Bits(w, 9, 1) = op % 2
  BY Width7
<1>2. /\ op = 12 => i = 6 /\ Bits(w, 9, 1) = 0
      /\ op = 13 => i = 6 /\ Bits(w, 9, 1) = 1
      /\ op = 14 => i = 7 /\ Bits(w, 9, 1) = 0
      /\ op = 15 => i = 7 /\ Bits(w, 9, 1) = 1
      /\ op = 40 => i = 20 /\ Bits(w, 9, 1) = 0
      /\ op = 41 => i = 20 /\ Bits(w, 9, 1) = 1
      /\ op = 42 => i = 21 /\ Bits(w, 9, 1) = 0
      /\ op = 43 => i = 21 /\ Bits(w, 9, 1) = 1
      /\ op = 44 => i = 22 /\ Bits(w, 9, 1) = 0
      /\ op = 45 => i = 22 /\ Bits(w, 9, 1) = 1
      /\ op = 46 => i = 23 /\ Bits(w, 9, 1) = 0
      /\ op = 47 => i = 23 /\ Bits(w, 9, 1) = 1
      /\ op = 90 => i = 45
      /\ op = 91 => i = 45
      /\ op = 94 => i = 47 /\ Bits(w, 9, 1) = 0 /\ Bits(w, 8, 2) \in {0, 1}
  <2>1. op = 94 => Bits(w, 8, 2) \in {0, 1}
    <3> SUFFICES ASSUME op = 94 PROVE Bits(w, 8, 2) \in {0, 1}
      OBVIOUS
    <3> DEFINE y == w \div 256
    <3>1. y \in Nat /\ y \div 2 = 94 /\ Bits(w, 8, 2) = y % 4
      BY Slices, Quotients
    <3> HIDE DEF y
    <3> QED BY <3>1
  <2> HIDE DEF i
  <2> QED BY <1>1, <2>1
<1> HIDE DEF i
<1>3. /\ i = 6 => executeJumpTable(w) = entry6(w) /\ decodeJumpTable(w, half) = decode_3lo(w)
      /\ i = 7 => executeJumpTable(w) = entry7(w) /\ decodeJumpTable(w, half) = decode_2loimm3(w)
      /\ i = 20 => executeJumpTable(w) = entry20(w) /\ decodeJumpTable(w, half) = decode_3lo(w)
      /\ i = 21 => executeJumpTable(w) = entry21(w) /\ decodeJumpTable(w, half) = decode_3lo(w)
      /\ i = 22 => executeJumpTable(w) = entry22(w) /\ decodeJumpTable(w, half) = decode_3lo(w)
      /\ i = 23 => executeJumpTable(w) = entry23(w) /\ decodeJumpTable(w, half) = decode_3lo(w)
      /\ i = 45 => executeJumpTable(w) = "push" /\ decodeJumpTable(w, half) = decode_push(w)
      /\ i = 47 => executeJumpTable(w) = entry47(w) /\ decodeJumpTable(w, half) = decode_47(w)
  BY Entries, Decoders DEF i
<1>4. op \in {12, 13} \cup (40 .. 47) => decodeJumpTable(w, half) = decode_3lo(w)
  BY <1>2, <1>3
<1>5. /\ op \in {14, 15} => decodeJumpTable(w, half) = decode_2loimm3(w)
      /\ op \in {90, 91} => decodeJumpTable(w, half) = decode_push(w)
      /\ op = 94 => decodeJumpTable(w, half) = decode_pop(w)
  BY <1>2, <1>3 DEF decode_47
<1> QED BY <1>2, <1>3, <1>4, <1>5 DEF entry6, entry7, entry20, entry21, entry22, entry23, entry47

\* The opcodes of 8 bits: registers of either half, b_c and its malformed conditions,
\* breakpoint, and the word that ends a program.
LEMMA EightBits ==
  ASSUME NEW w \in Insn, NEW half, NEW op, op = w \div 256
  PROVE  /\ op = 68 => executeJumpTable(w) = "add_r"
         /\ op = 69 => executeJumpTable(w) = "cmp_r"
         /\ op = 70 => executeJumpTable(w) = "mov_r"
         /\ op = 71 =>
              executeJumpTable(w) \in {"bx", "blx"} /\ decodeJumpTable(w, half) = decode_1all(w)
         /\ op \in 208 .. 222 => executeJumpTable(w) = "b_c"
         /\ op = 190 => executeJumpTable(w) = "breakpoint"
         /\ op \in 68 .. 70 => decodeJumpTable(w, half) = decode_mov_r(w)
         /\ op \in 208 .. 223 => decodeJumpTable(w, half) = decode_imm8c(w)
         /\ op = 190 => decodeJumpTable(w, half) = decode_imm8(w)
         /\ op = 191 => decodeJumpTable(w, half) = decode_error
         /\ op = 223 => executeJumpTable(w) = IF w = \hDF01 THEN "exit" ELSE "error"
<1> DEFINE i == Bits(w, 10, 6)   j == Bits(w, 7, 3)   k == Bits(w, 8, 2)
<1>1. /\ i = op \div 4 /\ k = op % 4 /\ op \in Nat
      /\ j \in {2 * (op % 4), 2 * (op % 4) + 1}
      /\ Bits(w, 9, 1) = (op \div 2) % 2
  BY Width8, Slices
<1>2. /\ i = 17 => executeJumpTable(w) = executeJumpTable17[j + 1]
      /\ i = 17 => decodeJumpTable(w, half) = IF k = 3 THEN decode_1all(w) ELSE decode_mov_r(w)
      /\ i \in 52 .. 54 => executeJumpTable(w) = "b_c"
      /\ i = 55 /\ k # 3 => executeJumpTable(w) = "b_c"
      /\ i = 55 /\ k = 3 => executeJumpTable(w) = IF w = \hDF01 THEN "exit" ELSE "error"
      /\ i \in 52 .. 55 => decodeJumpTable(w, half) = decode_imm8c(w)
      /\ i = 47 => executeJumpTable(w) = IF Bits(w, 9, 1) = 0 THEN "pop" ELSE "breakpoint"
      /\ i = 47 /\ k = 2 => decodeJumpTable(w, half) = decode_imm8(w)
      /\ i = 47 /\ k = 3 => decodeJumpTable(w, half) = decode_error
  <2>1. i = 55 => executeJumpTable(w) = entry55(w)
    BY Entries
  <2>2. /\ i = 17 => executeJumpTable(w) = entry17(w)
        /\ i = 17 => decodeJumpTable(w, half) = decode_17(w)
        /\ i \in 52 .. 54 => executeJumpTable(w) = "b_c"
        /\ i \in 52 .. 55 => decodeJumpTable(w, half) = decode_imm8c(w)
        /\ i = 47 => executeJumpTable(w) = entry47(w)
        /\ i = 47 => decodeJumpTable(w, half) = decode_47(w)
    BY Entries, Decoders
  <2>3. /\ k # 3 => entry55(w) = "b_c"
        /\ k = 3 => entry55(w) = IF w = \hDF01 THEN "exit" ELSE "error"
    <3>1. CASE Bits(w, 8, 2) # 3
      <4>1. Bits(\hDF01, 8, 2) = 3
        BY DEF Bits
      <4>2. w # \hDF01
        BY <3>1, <4>1
      <4> QED BY <3>1, <4>2 DEF entry55
    <3>2. CASE Bits(w, 8, 2) = 3 /\ w = \hDF01
      BY <3>2 DEF entry55
    <3>3. CASE Bits(w, 8, 2) = 3 /\ w # \hDF01
      BY <3>3 DEF entry55
    <3> QED BY <3>1, <3>2, <3>3
  <2>4. /\ k = 2 => decode_47(w) = decode_imm8(w)
        /\ k = 3 => decode_47(w) = decode_error
    BY DEF decode_47
  <2>5. entry47(w) = IF Bits(w, 9, 1) = 0 THEN "pop" ELSE "breakpoint"
    BY DEF entry47
  <2>6. decode_17(w) = IF k = 3 THEN decode_1all(w) ELSE decode_mov_r(w)
    BY DEF decode_17
  <2>7. entry17(w) = executeJumpTable17[j + 1]
    BY DEF entry17
  <2> HIDE DEF i, j, k
  <2> QED BY <2>1, <2>2, <2>3, <2>4, <2>5, <2>6, <2>7
<1> HIDE DEF i, j, k
<1>3. /\ executeJumpTable17[1] = "add_r" /\ executeJumpTable17[2] = "add_r"
      /\ executeJumpTable17[3] = "cmp_r" /\ executeJumpTable17[4] = "cmp_r"
      /\ executeJumpTable17[5] = "mov_r" /\ executeJumpTable17[6] = "mov_r"
      /\ executeJumpTable17[7] = "bx" /\ executeJumpTable17[8] = "blx"
  BY DEF executeJumpTable17
<1>4. op \in 68 .. 71 => i = 17
  BY <1>1
<1>5. /\ op = 68 => j \in {0, 1} /\ k = 0
      /\ op = 69 => j \in {2, 3} /\ k = 1
      /\ op = 70 => j \in {4, 5} /\ k = 2
      /\ op = 71 => j \in {6, 7} /\ k = 3
  BY <1>1
<1>6. /\ op = 68 => executeJumpTable(w) = "add_r"
      /\ op = 69 => executeJumpTable(w) = "cmp_r"
      /\ op = 70 => executeJumpTable(w) = "mov_r"
      /\ op = 71 =>
              executeJumpTable(w) \in {"bx", "blx"} /\ decodeJumpTable(w, half) = decode_1all(w)
      /\ op \in 68 .. 70 => decodeJumpTable(w, half) = decode_mov_r(w)
  BY <1>2, <1>3, <1>4, <1>5
<1>7. op \in 208 .. 219 => i \in 52 .. 54
  BY <1>1
<1>8. op \in 220 .. 222 => i = 55 /\ k # 3
  BY <1>1
<1>9. /\ op = 223 => i = 55 /\ k = 3
      /\ op = 190 => i = 47 /\ k = 2 /\ Bits(w, 9, 1) = 1
      /\ op = 191 => i = 47 /\ k = 3
  BY <1>1
<1>10. op \in 208 .. 222 => op \in 208 .. 219 \/ op \in 220 .. 222
  OBVIOUS
<1>11. op \in 208 .. 223 => op \in 208 .. 219 \/ op \in 220 .. 222 \/ op = 223
  OBVIOUS
<1>12. op \in 208 .. 222 => executeJumpTable(w) = "b_c"
  BY <1>2, <1>7, <1>8, <1>10
<1>13. op \in 208 .. 223 => decodeJumpTable(w, half) = decode_imm8c(w)
  BY <1>2, <1>7, <1>8, <1>9, <1>11
<1> QED BY <1>2, <1>6, <1>9, <1>12, <1>13

\* The opcodes of 9 bits: bx, blx and the two that move SP.
LEMMA NineBits ==
  ASSUME NEW w \in Insn, NEW half, NEW op, op = w \div 128
  PROVE  /\ op = 142 => executeJumpTable(w) = "bx"
         /\ op = 143 => executeJumpTable(w) = "blx"
         /\ op \in {142, 143} => decodeJumpTable(w, half) = decode_1all(w)
         /\ op = 352 => executeJumpTable(w) = "add_sp"
         /\ op = 353 => executeJumpTable(w) = "sub_sp"
         /\ op \in {352, 353} => decodeJumpTable(w, half) = decode_imm7(w)
<1> DEFINE i == Bits(w, 10, 6)   j == Bits(w, 7, 3)   k == Bits(w, 8, 2)   l == Bits(w, 6, 4)
<1>1. /\ i = op \div 8 /\ k = (op \div 2) % 4 /\ j = op % 8 /\ op \in Nat
      /\ l \in {2 * (op % 8), 2 * (op % 8) + 1}
  BY Width9, Slices
<1>2. /\ i = 17 => executeJumpTable(w) = executeJumpTable17[j + 1]
      /\ i = 17 => decodeJumpTable(w, half) = IF k = 3 THEN decode_1all(w) ELSE decode_mov_r(w)
      /\ i = 44 => executeJumpTable(w) = entry44(w)
      /\ i = 44 => decodeJumpTable(w, half) = decode_44(w)
  BY Entries, Decoders DEF entry17, decode_17
<1>3. /\ l \in {0, 1} => entry44(w) = "add_sp"
      /\ l \in {2, 3} => entry44(w) = "sub_sp"
  BY DEF entry44
<1>4. k = 0 => decode_44(w) = decode_imm7(w)
  BY DEF decode_44
<1> HIDE DEF i, j, k, l
<1>5. executeJumpTable17[7] = "bx" /\ executeJumpTable17[8] = "blx"
  BY DEF executeJumpTable17
<1>6. /\ op = 142 => i = 17 /\ j = 6 /\ k = 3
      /\ op = 143 => i = 17 /\ j = 7 /\ k = 3
  BY <1>1
<1>7. /\ op = 352 => i = 44 /\ l \in {0, 1} /\ k = 0
      /\ op = 353 => i = 44 /\ l \in {2, 3} /\ k = 0
  BY <1>1
<1> QED BY <1>2, <1>3, <1>4, <1>5, <1>6, <1>7

\* The opcodes of 10 bits: data processing between low registers, extensions, reversals.
LEMMA TenBits ==
  ASSUME NEW w \in Insn, NEW half, NEW op, op = w \div 64
  PROVE  /\ op \in 256 .. 271 => executeJumpTable(w) = executeJumpTable16[op - 255]
         /\ op = 712 => executeJumpTable(w) = "sxth"
         /\ op = 713 => executeJumpTable(w) = "sxtb"
         /\ op = 714 => executeJumpTable(w) = "uxth"
         /\ op = 715 => executeJumpTable(w) = "uxtb"
         /\ op = 744 => executeJumpTable(w) = "rev"
         /\ op = 745 => executeJumpTable(w) = "rev16"
         /\ op \in (256 .. 271) \cup (712 .. 715) \cup {744, 745} =>
              decodeJumpTable(w, half) = decode_2lo(w)
<1> DEFINE i == Bits(w, 10, 6)   k == Bits(w, 8, 2)   l == Bits(w, 6, 4)
<1>1. i = op \div 16 /\ k = (op \div 4) % 4 /\ l = op % 16 /\ op \in Nat
  BY Width10, Slices
<1>2. /\ i = 16 => executeJumpTable(w) = executeJumpTable16[l + 1]
      /\ i = 44 => executeJumpTable(w) = entry44(w)
      /\ i = 46 => executeJumpTable(w) = entry46(w)
      /\ i \in {16, 46} => decodeJumpTable(w, half) = decode_2lo(w)
      /\ i = 44 => decodeJumpTable(w, half) = decode_44(w)
  BY Entries, Decoders DEF entry16
<1>3. /\ l = 8 => entry44(w) = "sxth"
      /\ l = 9 => entry44(w) = "sxtb"
      /\ l = 10 => entry44(w) = "uxth"
      /\ l = 11 => entry44(w) = "uxtb"
  BY DEF entry44
<1>4. (l = 8 => entry46(w) = "rev") /\ (l = 9 => entry46(w) = "rev16")
  BY DEF entry46
<1>5. k = 2 => decode_44(w) = decode_2lo(w)
  BY DEF decode_44
<1> HIDE DEF i, k, l
<1>6. op \in 256 .. 271 => i = 16 /\ l = op - 256
  BY <1>1
<1>7. /\ op = 712 => i = 44 /\ l = 8 /\ k = 2
      /\ op = 713 => i = 44 /\ l = 9 /\ k = 2
      /\ op = 714 => i = 44 /\ l = 10 /\ k = 2
      /\ op = 715 => i = 44 /\ l = 11 /\ k = 2
      /\ op = 744 => i = 46 /\ l = 8
      /\ op = 745 => i = 46 /\ l = 9
  BY <1>1
<1>8. op \in 256 .. 271 => executeJumpTable(w) = executeJumpTable16[op - 255]
  <2>1. op \in 256 .. 271 => (op - 256) + 1 = op - 255
    OBVIOUS
  <2> QED BY <1>2, <1>6, <2>1
<1>9. op \in (256 .. 271) \cup (712 .. 715) \cup {744, 745} =>
        i \in {16, 46} \/ (i = 44 /\ k = 2)
  BY <1>1, <1>6, <1>7
<1> QED BY <1>2, <1>3, <1>4, <1>5, <1>7, <1>8, <1>9

-----------------------------------------------------------------------------
(***************************************************************************)
(* From the rows of Encodings to the tables: a word that a row describes   *)
(* is run by the handler of the row and read by a decoder that writes its  *)
(* operands.                                                               *)
(***************************************************************************)

\* The row e of the table of encodings describes the word w.
Fits(w, e) == w \div 2^(16 - e[2]) = e[3]

LEMMA SixteenAre ==
  /\ executeJumpTable16[1] = "ands" /\ executeJumpTable16[2] = "eors"
  /\ executeJumpTable16[3] = "lsls_r" /\ executeJumpTable16[4] = "lsrs_r"
  /\ executeJumpTable16[5] = "asrs_r" /\ executeJumpTable16[6] = "adcs"
  /\ executeJumpTable16[7] = "sbcs" /\ executeJumpTable16[8] = "rors"
  /\ executeJumpTable16[9] = "tst" /\ executeJumpTable16[10] = "rsbs"
  /\ executeJumpTable16[11] = "cmp_r" /\ executeJumpTable16[12] = "error"
  /\ executeJumpTable16[13] = "orrs" /\ executeJumpTable16[14] = "muls"
  /\ executeJumpTable16[15] = "bics" /\ executeJumpTable16[16] = "mvns"
BY DEF executeJumpTable16

LEMMA ShiftImmFits ==
  ASSUME NEW w \in Insn, NEW half, NEW e \in Encodings["ShiftImm"], Fits(w, e)
  PROVE  /\ executeJumpTable(w) = e[1] /\ decodeJumpTable(w, half) = decode_2loimm5(w)
         /\ e[1] \in {"lsls_i", "lsrs_i", "asrs_i"}
<1>1. e \in {<<"lsls_i", 5, 0>>, <<"lsrs_i", 5, 1>>, <<"asrs_i", 5, 2>>}
  BY DEF Encodings
<1>2. e[2] = 5 /\ w \div 2048 = e[3]
  <2>1. e[2] = 5
    BY <1>1
  <2> QED BY <2>1 DEF Fits
<1> QED BY <1>1, <1>2, FiveBits, PairsAre

LEMMA ThreeLowFits ==
  ASSUME NEW w \in Insn, NEW half, NEW e \in Encodings["ThreeLow"], Fits(w, e)
  PROVE  /\ executeJumpTable(w) = e[1] /\ decodeJumpTable(w, half) = decode_3lo(w)
         /\ e[1] \in {"adds_r", "subs", "str_r", "strh_r", "strb_r", "ldrsb_r", "ldr_r",
                      "ldrh_r", "ldrb_r", "ldrsh_r"}
<1>1. e \in {<<"adds_r", 7, 12>>, <<"subs", 7, 13>>, <<"str_r", 7, 40>>,
             <<"strh_r", 7, 41>>, <<"strb_r", 7, 42>>, <<"ldrsb_r", 7, 43>>,
             <<"ldr_r", 7, 44>>, <<"ldrh_r", 7, 45>>, <<"ldrb_r", 7, 46>>,
             <<"ldrsh_r", 7, 47>>}
  BY DEF Encodings
<1>2. e[2] = 7 /\ w \div 512 = e[3]
  <2>1. e[2] = 7
    BY <1>1
  <2> QED BY <2>1 DEF Fits
<1> QED BY <1>1, <1>2, SevenBits

LEMMA SmallImmFits ==
  ASSUME NEW w \in Insn, NEW half, NEW e \in Encodings["SmallImm"], Fits(w, e)
  PROVE  /\ executeJumpTable(w) = e[1] /\ decodeJumpTable(w, half) = decode_2loimm3(w)
         /\ e[1] \in {"adds_i3", "subs_i3"}
<1>1. e \in {<<"adds_i3", 7, 14>>, <<"subs_i3", 7, 15>>}
  BY DEF Encodings
<1>2. e[2] = 7 /\ w \div 512 = e[3]
  <2>1. e[2] = 7
    BY <1>1
  <2> QED BY <2>1 DEF Fits
<1> QED BY <1>1, <1>2, SevenBits

LEMMA ByteImmFits ==
  ASSUME NEW w \in Insn, NEW half, NEW e \in Encodings["ByteImm"], Fits(w, e)
  PROVE  /\ executeJumpTable(w) = e[1] /\ decodeJumpTable(w, half) = decode_imm8lo(w)
         /\ e[1] \in {"movs_i", "cmp_i", "adds_i8", "subs_i8", "ldr_lit", "str_sp",
                      "ldr_sp", "adr", "add_sp"}
<1>1. e \in {<<"movs_i", 5, 4>>, <<"cmp_i", 5, 5>>, <<"adds_i8", 5, 6>>,
             <<"subs_i8", 5, 7>>, <<"ldr_lit", 5, 9>>, <<"str_sp", 5, 18>>,
             <<"ldr_sp", 5, 19>>, <<"adr", 5, 20>>, <<"add_sp", 5, 21>>}
  BY DEF Encodings
<1>2. e[2] = 5 /\ w \div 2048 = e[3]
  <2>1. e[2] = 5
    BY <1>1
  <2> QED BY <2>1 DEF Fits
<1> QED BY <1>1, <1>2, FiveBits, PairsAre

LEMMA TwoLowFits ==
  ASSUME NEW w \in Insn, NEW half, NEW e \in Encodings["TwoLow"], Fits(w, e)
  PROVE  /\ executeJumpTable(w) = e[1] /\ decodeJumpTable(w, half) = decode_2lo(w)
         /\ e[1] \in {"ands", "eors", "lsls_r", "lsrs_r", "asrs_r", "adcs", "sbcs", "rors",
                      "tst", "cmp_r", "orrs", "muls", "bics", "mvns", "sxth", "sxtb", "uxth",
                      "uxtb", "rev", "rev16"}
<1>1. e \in {<<"ands", 10, 256>>, <<"eors", 10, 257>>, <<"lsls_r", 10, 258>>,
             <<"lsrs_r", 10, 259>>, <<"asrs_r", 10, 260>>, <<"adcs", 10, 261>>,
             <<"sbcs", 10, 262>>, <<"rors", 10, 263>>, <<"tst", 10, 264>>,
             <<"cmp_r", 10, 266>>, <<"orrs", 10, 268>>, <<"muls", 10, 269>>,
             <<"bics", 10, 270>>, <<"mvns", 10, 271>>, <<"sxth", 10, 712>>,
             <<"sxtb", 10, 713>>, <<"uxth", 10, 714>>, <<"uxtb", 10, 715>>,
             <<"rev", 10, 744>>, <<"rev16", 10, 745>>}
  BY DEF Encodings
<1>2. e[2] = 10 /\ w \div 64 = e[3]
  <2>1. e[2] = 10
    BY <1>1
  <2> QED BY <2>1 DEF Fits
<1> QED BY <1>1, <1>2, TenBits, SixteenAre

LEMMA NegateFits ==
  ASSUME NEW w \in Insn, NEW half, NEW e \in Encodings["Negate"], Fits(w, e)
  PROVE  /\ executeJumpTable(w) = e[1] /\ decodeJumpTable(w, half) = decode_2lo(w)
         /\ e[1] \in {"rsbs"}
<1>1. e \in {<<"rsbs", 10, 265>>}
  BY DEF Encodings
<1>2. e[2] = 10 /\ w \div 64 = e[3]
  <2>1. e[2] = 10
    BY <1>1
  <2> QED BY <2>1 DEF Fits
<1> QED BY <1>1, <1>2, TenBits, SixteenAre

LEMMA AnyTwoFits ==
  ASSUME NEW w \in Insn, NEW half, NEW e \in Encodings["AnyTwo"], Fits(w, e)
  PROVE  /\ executeJumpTable(w) = e[1] /\ decodeJumpTable(w, half) = decode_mov_r(w)
         /\ e[1] \in {"add_r", "cmp_r", "mov_r"}
<1>1. e \in {<<"add_r", 8, 68>>, <<"cmp_r", 8, 69>>, <<"mov_r", 8, 70>>}
  BY DEF Encodings
<1>2. e[2] = 8 /\ w \div 256 = e[3]
  <2>1. e[2] = 8
    BY <1>1
  <2> QED BY <2>1 DEF Fits
<1> QED BY <1>1, <1>2, EightBits

LEMMA AnyOneFits ==
  ASSUME NEW w \in Insn, NEW half, NEW e \in Encodings["AnyOne"], Fits(w, e)
  PROVE  /\ executeJumpTable(w) = e[1] /\ decodeJumpTable(w, half) = decode_1all(w)
         /\ e[1] \in {"bx", "blx"}
<1>1. e \in {<<"bx", 9, 142>>, <<"blx", 9, 143>>}
  BY DEF Encodings
<1>2. e[2] = 9 /\ w \div 128 = e[3]
  <2>1. e[2] = 9
    BY <1>1
  <2> QED BY <2>1 DEF Fits
<1> QED BY <1>1, <1>2, NineBits

LEMMA Offset5Fits ==
  ASSUME NEW w \in Insn, NEW half, NEW e \in Encodings["Offset5"], Fits(w, e)
  PROVE  /\ executeJumpTable(w) = e[1] /\ decodeJumpTable(w, half) = decode_2loimm5(w)
         /\ e[1] \in {"str_i", "ldr_i", "strb_i", "ldrb_i", "strh_i", "ldrh_i"}
<1>1. e \in {<<"str_i", 5, 12>>, <<"ldr_i", 5, 13>>, <<"strb_i", 5, 14>>,
             <<"ldrb_i", 5, 15>>, <<"strh_i", 5, 16>>, <<"ldrh_i", 5, 17>>}
  BY DEF Encodings
<1>2. e[2] = 5 /\ w \div 2048 = e[3]
  <2>1. e[2] = 5
    BY <1>1
  <2> QED BY <2>1 DEF Fits
<1> QED BY <1>1, <1>2, FiveBits, PairsAre

LEMMA StackImmFits ==
  ASSUME NEW w \in Insn, NEW half, NEW e \in Encodings["StackImm"], Fits(w, e)
  PROVE  /\ executeJumpTable(w) = e[1] /\ decodeJumpTable(w, half) = decode_imm7(w)
         /\ e[1] \in {"add_sp", "sub_sp"}
<1>1. e \in {<<"add_sp", 9, 352>>, <<"sub_sp", 9, 353>>}
  BY DEF Encodings
<1>2. e[2] = 9 /\ w \div 128 = e[3]
  <2>1. e[2] = 9
    BY <1>1
  <2> QED BY <2>1 DEF Fits
<1> QED BY <1>1, <1>2, NineBits

LEMMA PushListFits ==
  ASSUME NEW w \in Insn, NEW half, NEW e \in Encodings["PushList"], Fits(w, e)
  PROVE  /\ executeJumpTable(w) = e[1] /\ decodeJumpTable(w, half) = decode_push(w)
         /\ e[1] \in {"push"}
<1>1. e \in {<<"push", 7, 90>>}
  BY DEF Encodings
<1>2. e[2] = 7 /\ w \div 512 = e[3]
  <2>1. e[2] = 7
    BY <1>1
  <2> QED BY <2>1 DEF Fits
<1> QED BY <1>1, <1>2, SevenBits

LEMMA PopListFits ==
  ASSUME NEW w \in Insn, NEW half, NEW e \in Encodings["PopList"], Fits(w, e)
  PROVE  /\ executeJumpTable(w) = e[1] /\ decodeJumpTable(w, half) = decode_pop(w)
         /\ e[1] \in {"pop"}
<1>1. e \in {<<"pop", 7, 94>>}
  BY DEF Encodings
<1>2. e[2] = 7 /\ w \div 512 = e[3]
  <2>1. e[2] = 7
    BY <1>1
  <2> QED BY <2>1 DEF Fits
<1> QED BY <1>1, <1>2, SevenBits

LEMMA LowListFits ==
  ASSUME NEW w \in Insn, NEW half, NEW e \in Encodings["LowList"], Fits(w, e)
  PROVE  /\ executeJumpTable(w) = e[1] /\ decodeJumpTable(w, half) = decode_reglistlo(w)
         /\ e[1] \in {"stm", "ldm"}
<1>1. e \in {<<"stm", 5, 24>>, <<"ldm", 5, 25>>}
  BY DEF Encodings
<1>2. e[2] = 5 /\ w \div 2048 = e[3]
  <2>1. e[2] = 5
    BY <1>1
  <2> QED BY <2>1 DEF Fits
<1> QED BY <1>1, <1>2, FiveBits, PairsAre

LEMMA CondImmFits ==
  ASSUME NEW w \in Insn, NEW half, NEW e \in Encodings["CondImm"], Fits(w, e)
  PROVE  executeJumpTable(w) = e[1] /\ e[1] = "b_c" /\ decodeJumpTable(w, half) = decode_imm8c(w)
         /\ w \div 256 \in 208 .. 221
<1>1. PICK c \in 0 .. 13 : e = <<"b_c", 8, 208 + c>>
  BY DEF Encodings
<1>2. /\ w \div 256 = 208 + c /\ 208 + c \in 208 .. 221 /\ 208 + c \in 208 .. 222
      /\ 208 + c \in 208 .. 223
  <2>1. e[2] = 8 /\ e[3] = 208 + c
    BY <1>1
  <2> QED BY <2>1 DEF Fits
<1> QED BY <1>1, <1>2, EightBits

LEMMA BareFits ==
  ASSUME NEW w \in Insn, NEW half, NEW e \in Encodings["Bare"], Fits(w, e)
  PROVE  /\ executeJumpTable(w) = e[1]
         /\ e[1] \in {"b", "bl", "breakpoint", "exit"}
         /\ e[1] = "b" => w \div 2048 = 28 /\ decodeJumpTable(w, half) = decode_imm11(w)
         /\ e[1] = "bl" => w \div 2048 = 30 /\ decodeJumpTable(w, half) = decode_bl(w, half)
         /\ e[1] = "breakpoint" => decodeJumpTable(w, half) = decode_imm8(w)
         /\ e[1] = "exit" => decodeJumpTable(w, half) = decode_imm8c(w)
<1>1. e \in {<<"b", 5, 28>>, <<"bl", 5, 30>>, <<"breakpoint", 8, 190>>, <<"exit", 16, 57089>>}
  BY DEF Encodings
<1>2. CASE e = <<"b", 5, 28>>
  <2>1. w \div 2048 = 28
    BY <1>2 DEF Fits
  <2> QED BY <1>2, <2>1, FiveBits, PairsAre
<1>3. CASE e = <<"bl", 5, 30>>
  <2>1. w \div 2048 = 30
    BY <1>3 DEF Fits
  <2> QED BY <1>3, <2>1, FiveBits
<1>4. CASE e = <<"breakpoint", 8, 190>>
  <2>1. w \div 256 = 190
    BY <1>4 DEF Fits
  <2> QED BY <1>4, <2>1, EightBits
<1>5. CASE e = <<"exit", 16, 57089>>
  <2>1. w = \hDF01
    <3>1. w \div 2^(16 - 16) = 57089 /\ 2^(16 - 16) = 1
      BY <1>5 DEF Fits
    <3>2. w \div 1 = w
      BY Slices
    <3> QED BY <3>1, <3>2
  <2>2. \hDF01 \div 256 = 223
    OBVIOUS
  <2> QED BY <1>5, <2>1, <2>2, EightBits
<1> QED BY <1>1, <1>2, <1>3, <1>4, <1>5

-----------------------------------------------------------------------------
(***************************************************************************)
(* From the tables to the rows of Encodings: what neither table rejects    *)
(* is described by a row, but for the 0xB600-0xB7FF that runs as push.     *)
(***************************************************************************)

\* Some row of the table of encodings describes the word w.
Described(w) == \E shape \in DOMAIN Encodings : \E e \in Encodings[shape] : Fits(w, e)

LEMMA Shapes ==
  DOMAIN Encodings = {"ShiftImm", "ThreeLow", "SmallImm", "ByteImm", "TwoLow", "Negate",
                      "AnyTwo", "AnyOne", "Offset5", "StackImm", "PushList", "PopList",
                      "LowList", "CondImm", "Bare"}
BY DEF Encodings

LEMMA ARow ==
  ASSUME NEW w, NEW shape \in DOMAIN Encodings, NEW e \in Encodings[shape], Fits(w, e)
  PROVE  Described(w)
BY DEF Described

\* For every shape, the opcodes of its rows.
LEMMA ShiftImmRows ==
  ASSUME NEW w \in Insn, NEW op \in {0, 1, 2}, w \div 2048 = op
  PROVE  Described(w)
<1>1. /\ <<"lsls_i", 5, 0>> \in Encodings["ShiftImm"]
      /\ <<"lsrs_i", 5, 1>> \in Encodings["ShiftImm"]
      /\ <<"asrs_i", 5, 2>> \in Encodings["ShiftImm"]
  BY DEF Encodings
<1>2. /\ op = 0 => Fits(w, <<"lsls_i", 5, 0>>)
      /\ op = 1 => Fits(w, <<"lsrs_i", 5, 1>>)
      /\ op = 2 => Fits(w, <<"asrs_i", 5, 2>>)
  BY DEF Fits
<1> QED BY <1>1, <1>2, ARow, Shapes

LEMMA ThreeLowRows ==
  ASSUME NEW w \in Insn, NEW op \in {12, 13} \cup (40 .. 47), w \div 512 = op
  PROVE  Described(w)
<1>1. /\ <<"adds_r", 7, 12>> \in Encodings["ThreeLow"]
      /\ <<"subs", 7, 13>> \in Encodings["ThreeLow"]
      /\ <<"str_r", 7, 40>> \in Encodings["ThreeLow"]
      /\ <<"strh_r", 7, 41>> \in Encodings["ThreeLow"]
      /\ <<"strb_r", 7, 42>> \in Encodings["ThreeLow"]
      /\ <<"ldrsb_r", 7, 43>> \in Encodings["ThreeLow"]
      /\ <<"ldr_r", 7, 44>> \in Encodings["ThreeLow"]
      /\ <<"ldrh_r", 7, 45>> \in Encodings["ThreeLow"]
      /\ <<"ldrb_r", 7, 46>> \in Encodings["ThreeLow"]
      /\ <<"ldrsh_r", 7, 47>> \in Encodings["ThreeLow"]
  BY DEF Encodings
<1>2. /\ op = 12 => Fits(w, <<"adds_r", 7, 12>>)
      /\ op = 13 => Fits(w, <<"subs", 7, 13>>)
      /\ op = 40 => Fits(w, <<"str_r", 7, 40>>)
      /\ op = 41 => Fits(w, <<"strh_r", 7, 41>>)
      /\ op = 42 => Fits(w, <<"strb_r", 7, 42>>)
      /\ op = 43 => Fits(w, <<"ldrsb_r", 7, 43>>)
      /\ op = 44 => Fits(w, <<"ldr_r", 7, 44>>)
      /\ op = 45 => Fits(w, <<"ldrh_r", 7, 45>>)
      /\ op = 46 => Fits(w, <<"ldrb_r", 7, 46>>)
      /\ op = 47 => Fits(w, <<"ldrsh_r", 7, 47>>)
  BY DEF Fits
<1> QED BY <1>1, <1>2, ARow, Shapes

LEMMA SmallImmRows ==
  ASSUME NEW w \in Insn, NEW op \in {14, 15}, w \div 512 = op
  PROVE  Described(w)
<1>1. /\ <<"adds_i3", 7, 14>> \in Encodings["SmallImm"]
      /\ <<"subs_i3", 7, 15>> \in Encodings["SmallImm"]
  BY DEF Encodings
<1>2. /\ op = 14 => Fits(w, <<"adds_i3", 7, 14>>)
      /\ op = 15 => Fits(w, <<"subs_i3", 7, 15>>)
  BY DEF Fits
<1> QED BY <1>1, <1>2, ARow, Shapes

LEMMA ByteImmRows ==
  ASSUME NEW w \in Insn, NEW op \in {4, 5, 6, 7, 9, 18, 19, 20, 21}, w \div 2048 = op
  PROVE  Described(w)
<1>1. /\ <<"movs_i", 5, 4>> \in Encodings["ByteImm"]
      /\ <<"cmp_i", 5, 5>> \in Encodings["ByteImm"]
      /\ <<"adds_i8", 5, 6>> \in Encodings["ByteImm"]
      /\ <<"subs_i8", 5, 7>> \in Encodings["ByteImm"]
      /\ <<"ldr_lit", 5, 9>> \in Encodings["ByteImm"]
      /\ <<"str_sp", 5, 18>> \in Encodings["ByteImm"]
      /\ <<"ldr_sp", 5, 19>> \in Encodings["ByteImm"]
      /\ <<"adr", 5, 20>> \in Encodings["ByteImm"]
      /\ <<"add_sp", 5, 21>> \in Encodings["ByteImm"]
  BY DEF Encodings
<1>2. /\ op = 4 => Fits(w, <<"movs_i", 5, 4>>)
      /\ op = 5 => Fits(w, <<"cmp_i", 5, 5>>)
      /\ op = 6 => Fits(w, <<"adds_i8", 5, 6>>)
      /\ op = 7 => Fits(w, <<"subs_i8", 5, 7>>)
      /\ op = 9 => Fits(w, <<"ldr_lit", 5, 9>>)
      /\ op = 18 => Fits(w, <<"str_sp", 5, 18>>)
      /\ op = 19 => Fits(w, <<"ldr_sp", 5, 19>>)
      /\ op = 20 => Fits(w, <<"adr", 5, 20>>)
      /\ op = 21 => Fits(w, <<"add_sp", 5, 21>>)
  BY DEF Fits
<1> QED BY <1>1, <1>2, ARow, Shapes

LEMMA TwoLowRows ==
  ASSUME NEW w \in Insn,
         NEW op \in (256 .. 264) \cup {266} \cup (268 .. 271) \cup (712 .. 715) \cup {744, 745},
         w \div 64 = op
  PROVE  Described(w)
<1>1. /\ <<"ands", 10, 256>> \in Encodings["TwoLow"]
      /\ <<"eors", 10, 257>> \in Encodings["TwoLow"]
      /\ <<"lsls_r", 10, 258>> \in Encodings["TwoLow"]
      /\ <<"lsrs_r", 10, 259>> \in Encodings["TwoLow"]
      /\ <<"asrs_r", 10, 260>> \in Encodings["TwoLow"]
      /\ <<"adcs", 10, 261>> \in Encodings["TwoLow"]
      /\ <<"sbcs", 10, 262>> \in Encodings["TwoLow"]
      /\ <<"rors", 10, 263>> \in Encodings["TwoLow"]
      /\ <<"tst", 10, 264>> \in Encodings["TwoLow"]
      /\ <<"cmp_r", 10, 266>> \in Encodings["TwoLow"]
      /\ <<"orrs", 10, 268>> \in Encodings["TwoLow"]
      /\ <<"muls", 10, 269>> \in Encodings["TwoLow"]
      /\ <<"bics", 10, 270>> \in Encodings["TwoLow"]
      /\ <<"mvns", 10, 271>> \in Encodings["TwoLow"]
      /\ <<"sxth", 10, 712>> \in Encodings["TwoLow"]
      /\ <<"sxtb", 10, 713>> \in Encodings["TwoLow"]
      /\ <<"uxth", 10, 714>> \in Encodings["TwoLow"]
      /\ <<"uxtb", 10, 715>> \in Encodings["TwoLow"]
      /\ <<"rev", 10, 744>> \in Encodings["TwoLow"]
      /\ <<"rev16", 10, 745>> \in Encodings["TwoLow"]
  BY DEF Encodings
<1>2. /\ op = 256 => Fits(w, <<"ands", 10, 256>>)
      /\ op = 257 => Fits(w, <<"eors", 10, 257>>)
      /\ op = 258 => Fits(w, <<"lsls_r", 10, 258>>)
      /\ op = 259 => Fits(w, <<"lsrs_r", 10, 259>>)
      /\ op = 260 => Fits(w, <<"asrs_r", 10, 260>>)
      /\ op = 261 => Fits(w, <<"adcs", 10, 261>>)
      /\ op = 262 => Fits(w, <<"sbcs", 10, 262>>)
      /\ op = 263 => Fits(w, <<"rors", 10, 263>>)
      /\ op = 264 => Fits(w, <<"tst", 10, 264>>)
      /\ op = 266 => Fits(w, <<"cmp_r", 10, 266>>)
      /\ op = 268 => Fits(w, <<"orrs", 10, 268>>)
      /\ op = 269 => Fits(w, <<"muls", 10, 269>>)
      /\ op = 270 => Fits(w, <<"bics", 10, 270>>)
      /\ op = 271 => Fits(w, <<"mvns", 10, 271>>)
      /\ op = 712 => Fits(w, <<"sxth", 10, 712>>)
      /\ op = 713 => Fits(w, <<"sxtb", 10, 713>>)
      /\ op = 714 => Fits(w, <<"uxth", 10, 714>>)
      /\ op = 715 => Fits(w, <<"uxtb", 10, 715>>)
      /\ op = 744 => Fits(w, <<"rev", 10, 744>>)
      /\ op = 745 => Fits(w, <<"rev16", 10, 745>>)
  BY DEF Fits
<1> QED BY <1>1, <1>2, ARow, Shapes

LEMMA NegateRows ==
  ASSUME NEW w \in Insn, NEW op \in {265}, w \div 64 = op
  PROVE  Described(w)
<1>1. /\ <<"rsbs", 10, 265>> \in Encodings["Negate"]
  BY DEF Encodings
<1>2. /\ op = 265 => Fits(w, <<"rsbs", 10, 265>>)
  BY DEF Fits
<1> QED BY <1>1, <1>2, ARow, Shapes

LEMMA AnyTwoRows ==
  ASSUME NEW w \in Insn, NEW op \in {68, 69, 70}, w \div 256 = op
  PROVE  Described(w)
<1>1. /\ <<"add_r", 8, 68>> \in Encodings["AnyTwo"]
      /\ <<"cmp_r", 8, 69>> \in Encodings["AnyTwo"]
      /\ <<"mov_r", 8, 70>> \in Encodings["AnyTwo"]
  BY DEF Encodings
<1>2. /\ op = 68 => Fits(w, <<"add_r", 8, 68>>)
      /\ op = 69 => Fits(w, <<"cmp_r", 8, 69>>)
      /\ op = 70 => Fits(w, <<"mov_r", 8, 70>>)
  BY DEF Fits
<1> QED BY <1>1, <1>2, ARow, Shapes

LEMMA AnyOneRows ==
  ASSUME NEW w \in Insn, NEW op \in {142, 143}, w \div 128 = op
  PROVE  Described(w)
<1>1. /\ <<"bx", 9, 142>> \in Encodings["AnyOne"]
      /\ <<"blx", 9, 143>> \in Encodings["AnyOne"]
  BY DEF Encodings
<1>2. /\ op = 142 => Fits(w, <<"bx", 9, 142>>)
      /\ op = 143 => Fits(w, <<"blx", 9, 143>>)
  BY DEF Fits
<1> QED BY <1>1, <1>2, ARow, Shapes

LEMMA Offset5Rows ==
  ASSUME NEW w \in Insn, NEW op \in {12, 13, 14, 15, 16, 17}, w \div 2048 = op
  PROVE  Described(w)
<1>1. /\ <<"str_i", 5, 12>> \in Encodings["Offset5"]
      /\ <<"ldr_i", 5, 13>> \in Encodings["Offset5"]
      /\ <<"strb_i", 5, 14>> \in Encodings["Offset5"]
      /\ <<"ldrb_i", 5, 15>> \in Encodings["Offset5"]
      /\ <<"strh_i", 5, 16>> \in Encodings["Offset5"]
      /\ <<"ldrh_i", 5, 17>> \in Encodings["Offset5"]
  BY DEF Encodings
<1>2. /\ op = 12 => Fits(w, <<"str_i", 5, 12>>)
      /\ op = 13 => Fits(w, <<"ldr_i", 5, 13>>)
      /\ op = 14 => Fits(w, <<"strb_i", 5, 14>>)
      /\ op = 15 => Fits(w, <<"ldrb_i", 5, 15>>)
      /\ op = 16 => Fits(w, <<"strh_i", 5, 16>>)
      /\ op = 17 => Fits(w, <<"ldrh_i", 5, 17>>)
  BY DEF Fits
<1> QED BY <1>1, <1>2, ARow, Shapes

LEMMA StackImmRows ==
  ASSUME NEW w \in Insn, NEW op \in {352, 353}, w \div 128 = op
  PROVE  Described(w)
<1>1. /\ <<"add_sp", 9, 352>> \in Encodings["StackImm"]
      /\ <<"sub_sp", 9, 353>> \in Encodings["StackImm"]
  BY DEF Encodings
<1>2. /\ op = 352 => Fits(w, <<"add_sp", 9, 352>>)
      /\ op = 353 => Fits(w, <<"sub_sp", 9, 353>>)
  BY DEF Fits
<1> QED BY <1>1, <1>2, ARow, Shapes

LEMMA PushListRows ==
  ASSUME NEW w \in Insn, NEW op \in {90}, w \div 512 = op
  PROVE  Described(w)
<1>1. /\ <<"push", 7, 90>> \in Encodings["PushList"]
  BY DEF Encodings
<1>2. /\ op = 90 => Fits(w, <<"push", 7, 90>>)
  BY DEF Fits
<1> QED BY <1>1, <1>2, ARow, Shapes

LEMMA PopListRows ==
  ASSUME NEW w \in Insn, NEW op \in {94}, w \div 512 = op
  PROVE  Described(w)
<1>1. /\ <<"pop", 7, 94>> \in Encodings["PopList"]
  BY DEF Encodings
<1>2. /\ op = 94 => Fits(w, <<"pop", 7, 94>>)
  BY DEF Fits
<1> QED BY <1>1, <1>2, ARow, Shapes

LEMMA LowListRows ==
  ASSUME NEW w \in Insn, NEW op \in {24, 25}, w \div 2048 = op
  PROVE  Described(w)
<1>1. /\ <<"stm", 5, 24>> \in Encodings["LowList"]
      /\ <<"ldm", 5, 25>> \in Encodings["LowList"]
  BY DEF Encodings
<1>2. /\ op = 24 => Fits(w, <<"stm", 5, 24>>)
      /\ op = 25 => Fits(w, <<"ldm", 5, 25>>)
  BY DEF Fits
<1> QED BY <1>1, <1>2, ARow, Shapes

LEMMA CondImmRows ==
  ASSUME NEW w \in Insn, NEW op \in 208 .. 221, w \div 256 = op
  PROVE  Described(w)
<1>1. PICK c \in 0 .. 13 : op = 208 + c
  <2>1. op - 208 \in 0 .. 13 /\ op = 208 + (op - 208)
    OBVIOUS
  <2> QED BY <2>1
<1>2. <<"b_c", 8, 208 + c>> \in Encodings["CondImm"]
  BY DEF Encodings
<1>3. Fits(w, <<"b_c", 8, 208 + c>>)
  BY <1>1 DEF Fits
<1> QED BY <1>2, <1>3, ARow, Shapes

LEMMA BareRows ==
  ASSUME NEW w \in Insn,
         w \div 2048 \in {28, 30} \/ w \div 256 = 190 \/ w = \hDF01
  PROVE  Described(w)
<1>1. /\ <<"b", 5, 28>> \in Encodings["Bare"]
      /\ <<"bl", 5, 30>> \in Encodings["Bare"]
      /\ <<"breakpoint", 8, 190>> \in Encodings["Bare"]
      /\ <<"exit", 16, 57089>> \in Encodings["Bare"]
  BY DEF Encodings
<1>2. /\ w \div 2048 = 28 => Fits(w, <<"b", 5, 28>>)
      /\ w \div 2048 = 30 => Fits(w, <<"bl", 5, 30>>)
      /\ w \div 256 = 190 => Fits(w, <<"breakpoint", 8, 190>>)
  BY DEF Fits
<1>3. w = \hDF01 => Fits(w, <<"exit", 16, 57089>>)
  <2>1. 2^(16 - 16) = 1 /\ \hDF01 \div 1 = 57089
    OBVIOUS
  <2> QED BY <2>1 DEF Fits
<1> QED BY <1>1, <1>2, <1>3, ARow, Shapes

\* A word that both tables accept is described by a row, or it is an odd push.
LEMMA OthersExit ==
  ASSUME NEW w \in Insn, NEW half,
         decodeJumpTable(w, half) # decode_error,
         executeJumpTable(w) # "error",
         w \div 256 # 222
  PROVE  Described(w) \/ (executeJumpTable(w) = "push" /\ w \div 512 = 91)
<1> DEFINE i == Bits(w, 10, 6)  op5 == w \div 2048  op7 == w \div 512  op8 == w \div 256
           op9 == w \div 128   op10 == w \div 64
<1>1. /\ i \in 0 .. 63 /\ w \in Nat /\ op5 \in Nat /\ op7 \in Nat /\ op8 \in Nat
      /\ op9 \in Nat /\ op10 \in Nat
  BY Slices
<1>2. /\ i \in {2 * op5, 2 * op5 + 1} /\ i = op7 \div 2 /\ i = op8 \div 4
      /\ i = op9 \div 8 /\ i = op10 \div 16
  BY Width5, Width7, Width8, Width9, Width10
<1> DEFINE Goal == Described(w) \/ (executeJumpTable(w) = "push" /\ op7 = 91)
<1>15. op8 # 222
  OBVIOUS
<1> HIDE DEF i
<1>3. CASE i \in Paired
  <2>1. op5 \in {0, 1, 2} \cup {4, 5, 6, 7, 9, 18, 19, 20, 21} \cup {12, 13, 14, 15, 16, 17}
                \cup {24, 25} \cup {28, 30}
    <3> HIDE DEF op5
    <3> QED BY <1>1, <1>2, <1>3 DEF Paired
  <2> QED BY <2>1, ShiftImmRows, ByteImmRows, Offset5Rows, LowListRows, BareRows
<1>4. CASE i \in {6, 7, 20, 21, 22, 23}
  <2>1. op7 \in {12, 13} \cup (40 .. 47) \cup {14, 15}
    <3> HIDE DEF op7
    <3> QED BY <1>1, <1>2, <1>4
  <2> QED BY <2>1, ThreeLowRows, SmallImmRows
<1>5. CASE i = 16
  <2>1. op10 \in 256 .. 271
    <3> HIDE DEF op10
    <3> QED BY <1>1, <1>2, <1>5
  <2>2. op10 # 267
    BY <2>1, TenBits, SixteenAre
  <2>3. op10 \in (256 .. 264) \cup {266} \cup (268 .. 271) \/ op10 = 265
    <3> HIDE DEF op10
    <3> QED BY <2>1, <2>2
  <2> QED BY <2>3, TwoLowRows, NegateRows
<1>6. CASE i = 17
  <2>1. op8 \in {68, 69, 70} \/ op9 \in {142, 143}
    <3>1. op9 \div 2 = op8
      BY <1>1, Quotients
    <3> HIDE DEF op8, op9
    <3> QED BY <1>1, <1>2, <1>6, <3>1
  <2> QED BY <2>1, AnyTwoRows, AnyOneRows
<1>7. CASE i = 44
  <2>1. op10 \in 704 .. 719 /\ Bits(w, 6, 4) = op10 % 16 /\ op10 \div 2 = op9
    <3>1. op10 \div 2 = op9 /\ Bits(w, 6, 4) = op10 % 16
      BY <1>1, Quotients, Width10
    <3> HIDE DEF op10
    <3> QED BY <1>1, <1>2, <1>7, <3>1
  <2>2. executeJumpTable(w) = entry44(w)
    BY <1>7, Entries DEF i
  <2>3. Bits(w, 6, 4) \in (0 .. 3) \cup (8 .. 11)
    <3>1. Bits(w, 6, 4) \in 0 .. 15
      <4> HIDE DEF op10
      <4> QED BY <2>1
    <3>2. Bits(w, 6, 4) \notin (0 .. 3) \cup (8 .. 11) => entry44(w) = "error"
      BY DEF entry44
    <3> QED BY <2>2, <3>2
  <2>4. op9 \in {352, 353} \/ op10 \in 712 .. 715
    <3> HIDE DEF op9, op10
    <3> QED BY <1>1, <2>1, <2>3
  <2> QED BY <2>4, StackImmRows, TwoLowRows
<1>8. CASE i = 45
  <2>1. op7 \in {90, 91}
    <3> HIDE DEF op7
    <3> QED BY <1>1, <1>2, <1>8
  <2> QED BY <2>1, PushListRows, SevenBits
<1>9. CASE i = 46
  <2>1. op10 \in 736 .. 751 /\ Bits(w, 6, 4) = op10 % 16
    <3>1. Bits(w, 6, 4) = op10 % 16
      BY Width10
    <3> HIDE DEF op10
    <3> QED BY <1>1, <1>2, <1>9, <3>1
  <2>2. executeJumpTable(w) = entry46(w)
    BY <1>9, Entries DEF i
  <2>3. Bits(w, 6, 4) \in {8, 9}
    <3>1. Bits(w, 6, 4) \notin {8, 9} => entry46(w) = "error"
      BY DEF entry46
    <3> QED BY <2>2, <3>1
  <2>4. op10 \in {744, 745}
    <3> HIDE DEF op10
    <3> QED BY <1>1, <2>1, <2>3
  <2> QED BY <2>4, TwoLowRows
<1>10. CASE i = 47
  <2>1. op8 \in {188, 189, 190, 191} /\ op8 \div 2 = op7
    <3>1. op8 \div 2 = op7
      BY <1>1, Quotients
    <3> HIDE DEF op8
    <3> QED BY <1>1, <1>2, <1>10, <3>1
  <2>2. op8 # 191
    BY EightBits
  <2>3. op7 = 94 \/ op8 = 190
    <3> HIDE DEF op8, op7
    <3> QED BY <2>1, <2>2
  <2> QED BY <2>3, PopListRows, BareRows
<1>11. CASE i \in 52 .. 55
  <2>1. op8 \in 208 .. 223 /\ Bits(w, 8, 4) = op8 % 16
    <3>1. Bits(w, 8, 4) = op8 % 16
      BY Width8
    <3> HIDE DEF op8
    <3> QED BY <1>1, <1>2, <1>11, <3>1
  <2>2. CASE op8 = 223
    <3>1. w = \hDF01
      BY <2>2, EightBits
    <3> QED BY <3>1, BareRows
  <2>3. CASE op8 \in 208 .. 221
    BY <2>3, CondImmRows
  <2> HIDE DEF op8
  <2> QED BY <1>15, <2>1, <2>2, <2>3
<1>12. CASE i \in {60, 61}
  <2>1. op5 = 30
    <3> HIDE DEF op5
    <3> QED BY <1>1, <1>2, <1>12
  <2> QED BY <2>1, BareRows
<1>13. i \notin {58, 59, 62, 63}
  BY Entries DEF i
<1> HIDE DEF op5, op7, op8, op9, op10
<1>14. \/ i \in Paired \/ i \in {6, 7, 20, 21, 22, 23} \/ i = 16 \/ i = 17 \/ i = 44 \/ i = 45
       \/ i = 46 \/ i = 47 \/ i \in 52 .. 55 \/ i \in {60, 61}
  BY <1>1, <1>13 DEF Paired
<1> QED BY <1>3, <1>4, <1>5, <1>6, <1>7, <1>8, <1>9, <1>10, <1>11, <1>12, <1>14 DEF op7

-----------------------------------------------------------------------------
(***************************************************************************)
(* What each decoder writes.                                               *)
(***************************************************************************)

\* r gives numbers to fields of decoded.
Numbers(r) == DOMAIN r \subseteq Fields /\ \A f \in DOMAIN r : r[f] \in 0 .. 2^24 - 1

\* The ranges of the slices that the decoders read.
LEMMA BitsOf ==
  ASSUME NEW w \in Nat
  PROVE  /\ Bits(w, 0, 3) \in 0 .. 7 /\ Bits(w, 3, 3) \in 0 .. 7 /\ Bits(w, 6, 3) \in 0 .. 7
         /\ Bits(w, 8, 3) \in 0 .. 7 /\ Bits(w, 6, 5) \in 0 .. 31
         /\ Bits(w, 3, 4) \in 0 .. 15 /\ Bits(w, 8, 4) \in 0 .. 15
         /\ Bits(w, 0, 7) \in 0 .. 127 /\ Bits(w, 0, 8) \in 0 .. 255
         /\ Bits(w, 0, 10) \in 0 .. 1023 /\ Bits(w, 0, 11) \in 0 .. 2047
         /\ Bits(w, 7, 1) \in 0 .. 1 /\ Bits(w, 8, 1) \in 0 .. 1 /\ Bits(w, 10, 1) \in 0 .. 1
         /\ Bits(w, 11, 1) \in 0 .. 1 /\ Bits(w, 13, 1) \in 0 .. 1
BY DEF Bits

\* Over and Safe keep what they are given first; with DECODE_SAFE also the rest.
LEMMA OverIs ==
  ASSUME NEW f, NEW g
  PROVE  /\ DOMAIN Over(f, g) = DOMAIN f \cup DOMAIN g
         /\ \A x \in DOMAIN f : Over(f, g)[x] = f[x]
         /\ \A x \in DOMAIN g \ DOMAIN f : Over(f, g)[x] = g[x]
BY DEF Over

LEMMA SafeIs ==
  ASSUME NEW f, NEW g, Numbers(f), Numbers(g)
  PROVE  /\ Numbers(Safe(f, g))
         /\ DOMAIN f \subseteq DOMAIN Safe(f, g)
         /\ \A x \in DOMAIN f : Safe(f, g)[x] = f[x]
         /\ DECODE_SAFE => DOMAIN g \subseteq DOMAIN Safe(f, g)
         /\ DECODE_SAFE => \A x \in DOMAIN g \ DOMAIN f : Safe(f, g)[x] = g[x]
<1>1. CASE DECODE_SAFE
  <2>1. Safe(f, g) = Over(f, g)
    BY <1>1 DEF Safe
  <2>2. /\ DOMAIN Over(f, g) = DOMAIN f \cup DOMAIN g
        /\ \A x \in DOMAIN f : Over(f, g)[x] = f[x]
        /\ \A x \in DOMAIN g \ DOMAIN f : Over(f, g)[x] = g[x]
    BY OverIs
  <2>3. \A x \in DOMAIN Over(f, g) : Over(f, g)[x] \in 0 .. 2^24 - 1
    BY <2>2 DEF Numbers
  <2>4. Numbers(Over(f, g))
    BY <2>2, <2>3 DEF Numbers
  <2> QED BY <2>1, <2>2, <2>4
<1>2. CASE ~DECODE_SAFE
  BY <1>2 DEF Safe
<1> QED BY <1>1, <1>2

\* For every decoder, the fields that it writes and what it writes there.
LEMMA Of_2loimm5 ==
  ASSUME NEW w \in Insn
  PROVE  /\ Numbers(decode_2loimm5(w)) /\ {"rD", "rN", "imm"} \subseteq DOMAIN decode_2loimm5(w)
         /\ decode_2loimm5(w)["rD"] = Bits(w, 0, 3)
         /\ decode_2loimm5(w)["rN"] = Bits(w, 3, 3)
         /\ decode_2loimm5(w)["imm"] = Bits(w, 6, 5)
         /\ DECODE_SAFE => /\ "rM" \in DOMAIN decode_2loimm5(w)
                           /\ decode_2loimm5(w)["rM"] = Bits(w, 3, 3)
<1> DEFINE f == [rD |-> Bits(w, 0, 3), rN |-> Bits(w, 3, 3), imm |-> Bits(w, 6, 5)]
           g == [rM |-> Bits(w, 3, 3)]
<1>1. Numbers(f) /\ Numbers(g)
  BY Slices, BitsOf, SMTT(60) DEF Numbers, Fields
<1>2. /\ DOMAIN f = {"rD", "rN", "imm"} /\ DOMAIN g = {"rM"}
      /\ f["rD"] = Bits(w, 0, 3) /\ f["rN"] = Bits(w, 3, 3) /\ f["imm"] = Bits(w, 6, 5)
      /\ g["rM"] = Bits(w, 3, 3)
  OBVIOUS
<1>3. decode_2loimm5(w) = Safe(f, g)
  BY DEF decode_2loimm5
<1> HIDE DEF f, g
<1>4. /\ Numbers(Safe(f, g))
      /\ DOMAIN f \subseteq DOMAIN Safe(f, g)
      /\ \A x \in DOMAIN f : Safe(f, g)[x] = f[x]
      /\ DECODE_SAFE => DOMAIN g \subseteq DOMAIN Safe(f, g)
      /\ DECODE_SAFE => \A x \in DOMAIN g \ DOMAIN f : Safe(f, g)[x] = g[x]
  BY <1>1, SafeIs
<1>5. {"rM"} \subseteq DOMAIN g \ DOMAIN f
  BY <1>2
<1> QED BY <1>2, <1>3, <1>4, <1>5

LEMMA Of_2loimm3 ==
  ASSUME NEW w \in Insn
  PROVE  /\ Numbers(decode_2loimm3(w)) /\ {"rD", "rN", "imm"} \subseteq DOMAIN decode_2loimm3(w)
         /\ decode_2loimm3(w)["rD"] = Bits(w, 0, 3)
         /\ decode_2loimm3(w)["rN"] = Bits(w, 3, 3)
         /\ decode_2loimm3(w)["imm"] = Bits(w, 6, 3)
         /\ DECODE_SAFE => /\ "rM" \in DOMAIN decode_2loimm3(w)
                           /\ decode_2loimm3(w)["rM"] = Bits(w, 3, 3)
<1> DEFINE f == [rD |-> Bits(w, 0, 3), rN |-> Bits(w, 3, 3), imm |-> Bits(w, 6, 3)]
           g == [rM |-> Bits(w, 3, 3)]
<1>1. Numbers(f) /\ Numbers(g)
  BY Slices, BitsOf DEF Numbers, Fields
<1>2. /\ DOMAIN f = {"rD", "rN", "imm"} /\ DOMAIN g = {"rM"}
      /\ f["rD"] = Bits(w, 0, 3) /\ f["rN"] = Bits(w, 3, 3) /\ f["imm"] = Bits(w, 6, 3)
      /\ g["rM"] = Bits(w, 3, 3)
  OBVIOUS
<1>3. decode_2loimm3(w) = Safe(f, g)
  BY DEF decode_2loimm3
<1> HIDE DEF f, g
<1>4. /\ Numbers(Safe(f, g))
      /\ DOMAIN f \subseteq DOMAIN Safe(f, g)
      /\ \A x \in DOMAIN f : Safe(f, g)[x] = f[x]
      /\ DECODE_SAFE => DOMAIN g \subseteq DOMAIN Safe(f, g)
      /\ DECODE_SAFE => \A x \in DOMAIN g \ DOMAIN f : Safe(f, g)[x] = g[x]
  BY <1>1, SafeIs
<1>5. {"rM"} \subseteq DOMAIN g \ DOMAIN f
  BY <1>2
<1> QED BY <1>2, <1>3, <1>4, <1>5

LEMMA Of_imm8lo ==
  ASSUME NEW w \in Insn
  PROVE  /\ Numbers(decode_imm8lo(w)) /\ {"rD", "imm"} \subseteq DOMAIN decode_imm8lo(w)
         /\ decode_imm8lo(w)["rD"] = Bits(w, 8, 3)
         /\ decode_imm8lo(w)["imm"] = Bits(w, 0, 8)
         /\ DECODE_SAFE => /\ "rM" \in DOMAIN decode_imm8lo(w)
                           /\ decode_imm8lo(w)["rM"] = Bits(w, 8, 3)
         /\ DECODE_SAFE => /\ "rN" \in DOMAIN decode_imm8lo(w)
                           /\ decode_imm8lo(w)["rN"] = Bits(w, 8, 3)
<1> DEFINE f == [rD |-> Bits(w, 8, 3), imm |-> Bits(w, 0, 8)]
           g == [rM |-> Bits(w, 8, 3), rN |-> Bits(w, 8, 3)]
<1>1. Numbers(f) /\ Numbers(g)
  <2> DEFINE m == Bits(w, 8, 3)   n == Bits(w, 0, 8)
  <2>1. m \in 0 .. 7 /\ n \in 0 .. 255
    BY Slices, BitsOf, SMTT(60)
  <2> HIDE DEF m, n
  <2>2. Numbers([rD |-> m, imm |-> n]) /\ Numbers([rM |-> m, rN |-> m])
    BY <2>1 DEF Numbers, Fields
  <2> QED BY <2>2 DEF m, n
<1>2. /\ DOMAIN f = {"rD", "imm"} /\ DOMAIN g = {"rM", "rN"}
      /\ f["rD"] = Bits(w, 8, 3) /\ f["imm"] = Bits(w, 0, 8)
      /\ g["rM"] = Bits(w, 8, 3) /\ g["rN"] = Bits(w, 8, 3)
  OBVIOUS
<1>3. decode_imm8lo(w) = Safe(f, g)
  BY DEF decode_imm8lo
<1> HIDE DEF f, g
<1>4. /\ Numbers(Safe(f, g))
      /\ DOMAIN f \subseteq DOMAIN Safe(f, g)
      /\ \A x \in DOMAIN f : Safe(f, g)[x] = f[x]
      /\ DECODE_SAFE => DOMAIN g \subseteq DOMAIN Safe(f, g)
      /\ DECODE_SAFE => \A x \in DOMAIN g \ DOMAIN f : Safe(f, g)[x] = g[x]
  BY <1>1, SafeIs
<1>5. {"rM", "rN"} \subseteq DOMAIN g \ DOMAIN f
  BY <1>2
<1>6. /\ Numbers(decode_imm8lo(w)) /\ {"rD", "imm"} \subseteq DOMAIN decode_imm8lo(w)
      /\ decode_imm8lo(w)["rD"] = Bits(w, 8, 3) /\ decode_imm8lo(w)["imm"] = Bits(w, 0, 8)
  BY <1>2, <1>3, <1>4
<1>7. ASSUME DECODE_SAFE
      PROVE  /\ "rM" \in DOMAIN decode_imm8lo(w) /\ decode_imm8lo(w)["rM"] = Bits(w, 8, 3)
             /\ "rN" \in DOMAIN decode_imm8lo(w) /\ decode_imm8lo(w)["rN"] = Bits(w, 8, 3)
  BY <1>2, <1>3, <1>4, <1>5, <1>7
<1> QED BY <1>6, <1>7

LEMMA Of_3lo ==
  ASSUME NEW w \in Insn
  PROVE  /\ Numbers(decode_3lo(w)) /\ DOMAIN decode_3lo(w) = {"rD", "rN", "rM"}
         /\ decode_3lo(w)["rD"] = Bits(w, 0, 3)
         /\ decode_3lo(w)["rN"] = Bits(w, 3, 3)
         /\ decode_3lo(w)["rM"] = Bits(w, 6, 3)
BY Slices, BitsOf DEF decode_3lo, Numbers, Fields

LEMMA Of_2lo ==
  ASSUME NEW w \in Insn
  PROVE  /\ Numbers(decode_2lo(w)) /\ DOMAIN decode_2lo(w) = {"rD", "rM", "rN"}
         /\ decode_2lo(w)["rD"] = Bits(w, 0, 3)
         /\ decode_2lo(w)["rM"] = Bits(w, 3, 3)
         /\ decode_2lo(w)["rN"] = Bits(w, 3, 3)
BY Slices, BitsOf DEF decode_2lo, Numbers, Fields

LEMMA Of_imm8 ==
  ASSUME NEW w \in Insn
  PROVE  /\ Numbers(decode_imm8(w)) /\ DOMAIN decode_imm8(w) = {"imm"}
         /\ decode_imm8(w)["imm"] = Bits(w, 0, 8)
BY Slices, BitsOf DEF decode_imm8, Numbers, Fields

LEMMA Of_imm8c ==
  ASSUME NEW w \in Insn
  PROVE  /\ Numbers(decode_imm8c(w)) /\ DOMAIN decode_imm8c(w) = {"imm", "cond"}
         /\ decode_imm8c(w)["imm"] = Bits(w, 0, 8)
         /\ decode_imm8c(w)["cond"] = Bits(w, 8, 4)
BY Slices, BitsOf DEF decode_imm8c, Numbers, Fields

LEMMA Of_imm7 ==
  ASSUME NEW w \in Insn
  PROVE  /\ Numbers(decode_imm7(w)) /\ DOMAIN decode_imm7(w) = {"rD", "imm"}
         /\ decode_imm7(w)["rD"] = 13
         /\ decode_imm7(w)["imm"] = Bits(w, 0, 7)
BY Slices, BitsOf DEF decode_imm7, Numbers, Fields

LEMMA Of_imm11 ==
  ASSUME NEW w \in Insn
  PROVE  /\ Numbers(decode_imm11(w)) /\ DOMAIN decode_imm11(w) = {"imm"}
         /\ decode_imm11(w)["imm"] = Bits(w, 0, 11)
<1>1. w \in Nat
  BY Slices
<1>2. Bits(w, 0, 11) \in Nat /\ Bits(w, 0, 11) < 2048
  BY <1>1 DEF Bits
<1> QED BY <1>2 DEF decode_imm11, Numbers, Fields

LEMMA Of_reglistlo ==
  ASSUME NEW w \in Insn
  PROVE  /\ Numbers(decode_reglistlo(w)) /\ DOMAIN decode_reglistlo(w) = {"rN", "reg_list"}
         /\ decode_reglistlo(w)["rN"] = Bits(w, 8, 3)
         /\ decode_reglistlo(w)["reg_list"] = Bits(w, 0, 8)
BY Slices, BitsOf DEF decode_reglistlo, Numbers, Fields

LEMMA Of_pop ==
  ASSUME NEW w \in Insn
  PROVE  /\ Numbers(decode_pop(w)) /\ DOMAIN decode_pop(w) = {"reg_list"}
         /\ decode_pop(w)["reg_list"] = Bits(w, 8, 1) * 2^15 + Bits(w, 0, 8)
<1>1. Bits(w, 8, 1) * 2^15 + Bits(w, 0, 8) \in 0 .. 2^24 - 1
  <2> DEFINE m == Bits(w, 8, 1)   n == Bits(w, 0, 8)
  <2>1. m \in 0 .. 1 /\ n \in 0 .. 255
    BY Slices, BitsOf, SMTT(60)
  <2> HIDE DEF m, n
  <2>2. m * 2^15 + n \in 0 .. 2^24 - 1
    BY <2>1
  <2> QED BY <2>2 DEF m, n
<1>2. /\ DOMAIN decode_pop(w) = {"reg_list"}
      /\ decode_pop(w)["reg_list"] = Bits(w, 8, 1) * 2^15 + Bits(w, 0, 8)
  BY DEF decode_pop
<1> HIDE DEF decode_pop
<1> QED BY <1>1, <1>2 DEF Numbers, Fields

LEMMA Of_push ==
  ASSUME NEW w \in Insn
  PROVE  /\ Numbers(decode_push(w)) /\ DOMAIN decode_push(w) = {"reg_list"}
         /\ decode_push(w)["reg_list"] = Bits(w, 8, 1) * 2^14 + Bits(w, 0, 8)
<1>1. Bits(w, 8, 1) * 2^14 + Bits(w, 0, 8) \in 0 .. 2^24 - 1
  <2> DEFINE m == Bits(w, 8, 1)   n == Bits(w, 0, 8)
  <2>1. m \in 0 .. 1 /\ n \in 0 .. 255
    BY Slices, BitsOf, SMTT(60)
  <2> HIDE DEF m, n
  <2>2. m * 2^14 + n \in 0 .. 2^24 - 1
    BY <2>1
  <2> QED BY <2>2 DEF m, n
<1>2. /\ DOMAIN decode_push(w) = {"reg_list"}
      /\ decode_push(w)["reg_list"] = Bits(w, 8, 1) * 2^14 + Bits(w, 0, 8)
  BY DEF decode_push
<1> HIDE DEF decode_push
<1> QED BY <1>1, <1>2 DEF Numbers, Fields

LEMMA Of_1all ==
  ASSUME NEW w \in Insn
  PROVE  /\ Numbers(decode_1all(w)) /\ DOMAIN decode_1all(w) = {"rM"}
         /\ decode_1all(w)["rM"] = Bits(w, 3, 4)
BY Slices, BitsOf DEF decode_1all, Numbers, Fields

LEMMA Of_mov_r ==
  ASSUME NEW w \in Insn
  PROVE  /\ Numbers(decode_mov_r(w)) /\ DOMAIN decode_mov_r(w) = {"rD", "rN", "rM"}
         /\ decode_mov_r(w)["rD"] = Bits(w, 0, 3) + 8 * Bits(w, 7, 1)
         /\ decode_mov_r(w)["rN"] = Bits(w, 0, 3) + 8 * Bits(w, 7, 1)
         /\ decode_mov_r(w)["rM"] = Bits(w, 3, 4)
BY Slices, BitsOf, SMTT(60) DEF decode_mov_r, Numbers, Fields

\* A second half, whatever it is.
Half == 0 .. 2^16 - 1

LEMMA HalfRange ==
  ASSUME NEW half \in Half
  PROVE  half \in Nat /\ half <= \hFFFF
BY DEF Half

LEMMA SecondHalfRange ==
  ASSUME NEW half \in SecondHalves
  PROVE  /\ half \in Half
         /\ half \in Nat /\ \hC000 <= half /\ half <= \hFFFF
         /\ (half \div 4096) % 2 = 1
<1>1. half \in Half
  BY DecodeAssumption DEF Half
<1> QED BY <1>1, DecodeAssumption

\* A bit of the second half of a bl, unless it differs from the sign.
Same(b, S) == IF b = S THEN 1 ELSE 0

LEMMA Of_bl ==
  ASSUME NEW w \in Insn, NEW half \in Half
  PROVE  /\ Numbers(decode_bl(w, half)) /\ DOMAIN decode_bl(w, half) = {"imm"}
         /\ decode_bl(w, half)["imm"] =
              Bits(w, 10, 1) * 8388608 + Same(Bits(half, 13, 1), Bits(w, 10, 1)) * 4194304
              + Same(Bits(half, 11, 1), Bits(w, 10, 1)) * 2097152
              + Bits(w, 0, 10) * 2048 + Bits(half, 0, 11)
<1> DEFINE S  == Bits(w, 10, 1)
           I1 == Same(Bits(half, 13, 1), S)
           I2 == Same(Bits(half, 11, 1), S)
           m  == Bits(w, 0, 10)
           n  == Bits(half, 0, 11)
           imm == S * 8388608 + I1 * 4194304 + I2 * 2097152 + m * 2048 + n
<1>1. S \in 0 .. 1 /\ m \in 0 .. 1023
  <2>1. w \in Nat
    BY Slices
  <2> QED BY <2>1, BitsOf
<1>2. n \in 0 .. 2047
  <2>1. half \in Nat
    BY HalfRange
  <2> QED BY <2>1 DEF Bits
<1>3. I1 \in 0 .. 1 /\ I2 \in 0 .. 1
  BY DEF Same
<1>4. decode_bl(w, half) = [imm |-> imm]
  BY DEF decode_bl, Same
<1> HIDE DEF S, I1, I2, m, n
<1>5. imm \in 0 .. 2^24 - 1
  BY <1>1, <1>2, <1>3
<1> HIDE DEF imm
<1>6. /\ Numbers(decode_bl(w, half)) /\ DOMAIN decode_bl(w, half) = {"imm"}
      /\ decode_bl(w, half)["imm"] = imm
  BY <1>4, <1>5 DEF Numbers, Fields
<1>7. imm = Bits(w, 10, 1) * 8388608 + Same(Bits(half, 13, 1), Bits(w, 10, 1)) * 4194304
            + Same(Bits(half, 11, 1), Bits(w, 10, 1)) * 2097152
            + Bits(w, 0, 10) * 2048 + Bits(half, 0, 11)
  BY DEF S, I1, I2, m, n, imm
<1> QED BY <1>6, <1>7

\* Whatever the table picks, it writes numbers into fields of decoded, or nothing.
LEMMA Written ==
  ASSUME NEW w \in Insn, NEW half \in Half
  PROVE  decodeJumpTable(w, half) = decode_error \/ Numbers(decodeJumpTable(w, half))
<1> DEFINE i == Bits(w, 10, 6)
<1>1. /\ i \in (0 .. 5) \cup (24 .. 35) => decodeJumpTable(w, half) = decode_2loimm5(w)
      /\ i \in {6} \cup (20 .. 23) => decodeJumpTable(w, half) = decode_3lo(w)
      /\ i = 7 => decodeJumpTable(w, half) = decode_2loimm3(w)
      /\ i \in (8 .. 15) \cup {18, 19} \cup (36 .. 43) =>
           decodeJumpTable(w, half) = decode_imm8lo(w)
      /\ i \in {16, 46} => decodeJumpTable(w, half) = decode_2lo(w)
      /\ i = 17 => decodeJumpTable(w, half) = decode_17(w)
      /\ i = 44 => decodeJumpTable(w, half) = decode_44(w)
      /\ i = 45 => decodeJumpTable(w, half) = decode_push(w)
      /\ i = 47 => decodeJumpTable(w, half) = decode_47(w)
      /\ i \in 48 .. 51 => decodeJumpTable(w, half) = decode_reglistlo(w)
      /\ i \in 52 .. 55 => decodeJumpTable(w, half) = decode_imm8c(w)
      /\ i \in {56, 57} => decodeJumpTable(w, half) = decode_imm11(w)
      /\ i \in {60, 61} => decodeJumpTable(w, half) = decode_bl(w, half)
  BY Decoders
<1>8. i \in 0 .. 63
  BY Slices
<1>2. i \in {58, 59, 62, 63} => decodeJumpTable(w, half) = decode_error
  BY DEF decodeJumpTable, IsBL
<1>3. /\ Numbers(decode_2loimm5(w)) /\ Numbers(decode_3lo(w)) /\ Numbers(decode_2loimm3(w))
      /\ Numbers(decode_imm8lo(w)) /\ Numbers(decode_2lo(w)) /\ Numbers(decode_push(w))
      /\ Numbers(decode_reglistlo(w)) /\ Numbers(decode_imm8c(w)) /\ Numbers(decode_imm11(w))
      /\ Numbers(decode_bl(w, half)) /\ Numbers(decode_1all(w)) /\ Numbers(decode_mov_r(w))
      /\ Numbers(decode_imm7(w)) /\ Numbers(decode_imm8(w)) /\ Numbers(decode_pop(w))
  <2>1. Numbers(decode_2loimm5(w))
    BY Of_2loimm5
  <2>2. Numbers(decode_3lo(w))
    BY Of_3lo
  <2>3. Numbers(decode_2loimm3(w))
    BY Of_2loimm3
  <2>4. Numbers(decode_imm8lo(w))
    BY Of_imm8lo
  <2>5. Numbers(decode_2lo(w))
    BY Of_2lo
  <2>6. Numbers(decode_push(w))
    BY Of_push
  <2>7. Numbers(decode_reglistlo(w))
    BY Of_reglistlo
  <2>8. Numbers(decode_imm8c(w))
    BY Of_imm8c
  <2>9. Numbers(decode_imm11(w))
    BY Of_imm11
  <2>10. Numbers(decode_1all(w))
    BY Of_1all
  <2>11. Numbers(decode_mov_r(w))
    BY Of_mov_r
  <2>12. Numbers(decode_imm7(w))
    BY Of_imm7
  <2>13. Numbers(decode_imm8(w))
    BY Of_imm8
  <2>14. Numbers(decode_pop(w))
    BY Of_pop
  <2>15. Numbers(decode_bl(w, half))
    BY Of_bl
  <2> QED BY <2>1, <2>2, <2>3, <2>4, <2>5, <2>6, <2>7, <2>8, <2>9, <2>10, <2>11,
             <2>12, <2>13, <2>14, <2>15
<1>4. Numbers(decode_17(w))
  BY <1>3 DEF decode_17
<1>5. decode_44(w) = decode_error \/ Numbers(decode_44(w))
  BY <1>3 DEF decode_44
<1>6. decode_47(w) = decode_error \/ Numbers(decode_47(w))
  BY <1>3 DEF decode_47
<1>7. \/ i \in (0 .. 5) \cup (24 .. 35) \/ i \in {6} \cup (20 .. 23) \/ i = 7
      \/ i \in (8 .. 15) \cup {18, 19} \cup (36 .. 43) \/ i \in {16, 46} \/ i = 17 \/ i = 44
      \/ i = 45 \/ i = 47 \/ i \in 48 .. 51 \/ i \in 52 .. 55 \/ i \in {56, 57}
      \/ i \in {60, 61} \/ i \in {58, 59, 62, 63}
  <2> HIDE DEF i
  <2> QED BY <1>8
<1> HIDE DEF i
<1> QED BY <1>1, <1>2, <1>3, <1>4, <1>5, <1>6, <1>7

\* Reading a field back that holds as many bits as are read.
LEMMA Again ==
  /\ \A n \in 0 .. 7 : Bits(n, 0, 3) = n
  /\ \A n \in 0 .. 31 : Bits(n, 0, 5) = n
  /\ \A n \in 0 .. 15 : Bits(n, 0, 4) = n
  /\ \A n \in 0 .. 127 : Bits(n, 0, 7) = n
  /\ \A n \in 0 .. 255 : Bits(n, 0, 8) = n
BY DEF Bits

\* Reading back the two parts of a field.
LEMMA Split ==
  /\ \A m \in 0 .. 7, n \in 0 .. 1 :
       Bits(m + 8 * n, 0, 3) = m /\ Bits(m + 8 * n, 3, 1) = n
  /\ \A m \in 0 .. 255, n \in 0 .. 1 :
       /\ Bits(n * 2^14 + m, 0, 8) = m /\ Bits(n * 2^14 + m, 14, 1) = n
       /\ Bits(n * 2^15 + m, 0, 8) = m /\ Bits(n * 2^15 + m, 15, 1) = n
BY DEF Bits

\* Every field holds what was read from the word.
LEMMA SlicesAgain ==
  ASSUME NEW w \in Insn
  PROVE  /\ Bits(Bits(w, 0, 3), 0, 3) = Bits(w, 0, 3)
         /\ Bits(Bits(w, 3, 3), 0, 3) = Bits(w, 3, 3)
         /\ Bits(Bits(w, 6, 3), 0, 3) = Bits(w, 6, 3)
         /\ Bits(Bits(w, 8, 3), 0, 3) = Bits(w, 8, 3)
         /\ Bits(Bits(w, 6, 5), 0, 5) = Bits(w, 6, 5)
         /\ Bits(Bits(w, 3, 4), 0, 4) = Bits(w, 3, 4)
         /\ Bits(Bits(w, 8, 4), 0, 4) = Bits(w, 8, 4)
         /\ Bits(Bits(w, 0, 7), 0, 7) = Bits(w, 0, 7)
         /\ Bits(Bits(w, 0, 8), 0, 8) = Bits(w, 0, 8)
         /\ Bits(Bits(w, 0, 3) + 8 * Bits(w, 7, 1), 0, 3) = Bits(w, 0, 3)
         /\ Bits(Bits(w, 0, 3) + 8 * Bits(w, 7, 1), 3, 1) = Bits(w, 7, 1)
         /\ Bits(Bits(w, 8, 1) * 2^14 + Bits(w, 0, 8), 0, 8) = Bits(w, 0, 8)
         /\ Bits(Bits(w, 8, 1) * 2^14 + Bits(w, 0, 8), 14, 1) = Bits(w, 8, 1)
         /\ Bits(Bits(w, 8, 1) * 2^15 + Bits(w, 0, 8), 0, 8) = Bits(w, 0, 8)
         /\ Bits(Bits(w, 8, 1) * 2^15 + Bits(w, 0, 8), 15, 1) = Bits(w, 8, 1)
<1>1. w \in Nat
  BY Slices
<1>2. /\ Bits(w, 0, 3) \in 0 .. 7 /\ Bits(w, 3, 3) \in 0 .. 7 /\ Bits(w, 6, 3) \in 0 .. 7
      /\ Bits(w, 8, 3) \in 0 .. 7 /\ Bits(w, 6, 5) \in 0 .. 31
      /\ Bits(w, 3, 4) \in 0 .. 15 /\ Bits(w, 8, 4) \in 0 .. 15
      /\ Bits(w, 0, 7) \in 0 .. 127 /\ Bits(w, 0, 8) \in 0 .. 255
      /\ Bits(w, 7, 1) \in 0 .. 1 /\ Bits(w, 8, 1) \in 0 .. 1
  BY <1>1, BitsOf
<1>3. /\ Bits(Bits(w, 0, 3), 0, 3) = Bits(w, 0, 3)
      /\ Bits(Bits(w, 3, 3), 0, 3) = Bits(w, 3, 3)
      /\ Bits(Bits(w, 6, 3), 0, 3) = Bits(w, 6, 3)
      /\ Bits(Bits(w, 8, 3), 0, 3) = Bits(w, 8, 3)
      /\ Bits(Bits(w, 6, 5), 0, 5) = Bits(w, 6, 5)
      /\ Bits(Bits(w, 3, 4), 0, 4) = Bits(w, 3, 4)
      /\ Bits(Bits(w, 8, 4), 0, 4) = Bits(w, 8, 4)
      /\ Bits(Bits(w, 0, 7), 0, 7) = Bits(w, 0, 7)
      /\ Bits(Bits(w, 0, 8), 0, 8) = Bits(w, 0, 8)
  BY <1>2, Again
<1> QED BY <1>2, <1>3, Split

\* For every shape, the pieces of the operands are those of the word.
LEMMA ShiftImmOperands ==
  ASSUME NEW w \in Insn, NEW half, NEW e \in Encodings["ShiftImm"], Fits(w, e), DECODE_SAFE
  PROVE  /\ Reads(e[1]) \subseteq DOMAIN decode_2loimm5(w)
         /\ \A p \in Pieces("ShiftImm") :
              /\ p[1] \in Reads(e[1])
              /\ Bits(decode_2loimm5(w)[p[1]], p[2], p[3]) = Bits(w, p[4], p[3])
<1>1. Reads(e[1]) = {"rD", "rM", "imm"}
  BY ShiftImmFits DEF Reads
<1>2. Pieces("ShiftImm") = {<<"rD", 0, 3, 0>>, <<"rM", 0, 3, 3>>, <<"imm", 0, 5, 6>>}
  BY DEF Pieces
<1>3. /\ Bits(decode_2loimm5(w)["rD"], 0, 3) = Bits(w, 0, 3)
      /\ Bits(decode_2loimm5(w)["rM"], 0, 3) = Bits(w, 3, 3)
      /\ Bits(decode_2loimm5(w)["imm"], 0, 5) = Bits(w, 6, 5)
  BY SlicesAgain, Of_2loimm5
<1>4. Reads(e[1]) \subseteq DOMAIN decode_2loimm5(w)
  BY <1>1, Of_2loimm5
<1> QED BY <1>1, <1>2, <1>3, <1>4

LEMMA ThreeLowOperands ==
  ASSUME NEW w \in Insn, NEW half, NEW e \in Encodings["ThreeLow"], Fits(w, e), DECODE_SAFE
  PROVE  /\ Reads(e[1]) \subseteq DOMAIN decode_3lo(w)
         /\ \A p \in Pieces("ThreeLow") :
              /\ p[1] \in Reads(e[1])
              /\ Bits(decode_3lo(w)[p[1]], p[2], p[3]) = Bits(w, p[4], p[3])
<1>1. Reads(e[1]) = {"rD", "rN", "rM"}
  BY ThreeLowFits DEF Reads
<1>2. Pieces("ThreeLow") = {<<"rD", 0, 3, 0>>, <<"rN", 0, 3, 3>>, <<"rM", 0, 3, 6>>}
  BY DEF Pieces
<1>3. /\ Bits(decode_3lo(w)["rD"], 0, 3) = Bits(w, 0, 3)
      /\ Bits(decode_3lo(w)["rN"], 0, 3) = Bits(w, 3, 3)
      /\ Bits(decode_3lo(w)["rM"], 0, 3) = Bits(w, 6, 3)
  BY SlicesAgain, Of_3lo
<1>4. Reads(e[1]) \subseteq DOMAIN decode_3lo(w)
  BY <1>1, Of_3lo
<1> QED BY <1>1, <1>2, <1>3, <1>4

LEMMA SmallImmOperands ==
  ASSUME NEW w \in Insn, NEW half, NEW e \in Encodings["SmallImm"], Fits(w, e), DECODE_SAFE
  PROVE  /\ Reads(e[1]) \subseteq DOMAIN decode_2loimm3(w)
         /\ \A p \in Pieces("SmallImm") :
              /\ p[1] \in Reads(e[1])
              /\ Bits(decode_2loimm3(w)[p[1]], p[2], p[3]) = Bits(w, p[4], p[3])
<1>1. Reads(e[1]) = {"rD", "rN", "imm"}
  BY SmallImmFits DEF Reads
<1>2. Pieces("SmallImm") = {<<"rD", 0, 3, 0>>, <<"rN", 0, 3, 3>>, <<"imm", 0, 3, 6>>}
  BY DEF Pieces
<1>3. /\ Bits(decode_2loimm3(w)["rD"], 0, 3) = Bits(w, 0, 3)
      /\ Bits(decode_2loimm3(w)["rN"], 0, 3) = Bits(w, 3, 3)
      /\ Bits(decode_2loimm3(w)["imm"], 0, 3) = Bits(w, 6, 3)
  BY SlicesAgain, Of_2loimm3
<1>4. Reads(e[1]) \subseteq DOMAIN decode_2loimm3(w)
  BY <1>1, Of_2loimm3
<1> QED BY <1>1, <1>2, <1>3, <1>4

LEMMA ByteImmOperands ==
  ASSUME NEW w \in Insn, NEW half, NEW e \in Encodings["ByteImm"], Fits(w, e), DECODE_SAFE
  PROVE  /\ Reads(e[1]) \subseteq DOMAIN decode_imm8lo(w)
         /\ \A p \in Pieces("ByteImm") :
              /\ p[1] \in Reads(e[1])
              /\ Bits(decode_imm8lo(w)[p[1]], p[2], p[3]) = Bits(w, p[4], p[3])
<1>1. Reads(e[1]) = {"rD", "imm"}
  BY ByteImmFits DEF Reads
<1>2. Pieces("ByteImm") = {<<"rD", 0, 3, 8>>, <<"imm", 0, 8, 0>>}
  BY DEF Pieces
<1>3. /\ Bits(decode_imm8lo(w)["rD"], 0, 3) = Bits(w, 8, 3)
      /\ Bits(decode_imm8lo(w)["imm"], 0, 8) = Bits(w, 0, 8)
  BY SlicesAgain, Of_imm8lo
<1>4. Reads(e[1]) \subseteq DOMAIN decode_imm8lo(w)
  BY <1>1, Of_imm8lo
<1> QED BY <1>1, <1>2, <1>3, <1>4

LEMMA TwoLowOperands ==
  ASSUME NEW w \in Insn, NEW half, NEW e \in Encodings["TwoLow"], Fits(w, e), DECODE_SAFE
  PROVE  /\ Reads(e[1]) \subseteq DOMAIN decode_2lo(w)
         /\ \A p \in Pieces("TwoLow") :
              /\ p[1] \in Reads(e[1])
              /\ Bits(decode_2lo(w)[p[1]], p[2], p[3]) = Bits(w, p[4], p[3])
<1>1. Reads(e[1]) = {"rD", "rM"}
  BY TwoLowFits DEF Reads
<1>2. Pieces("TwoLow") = {<<"rD", 0, 3, 0>>, <<"rM", 0, 3, 3>>}
  BY DEF Pieces
<1>3. /\ Bits(decode_2lo(w)["rD"], 0, 3) = Bits(w, 0, 3)
      /\ Bits(decode_2lo(w)["rM"], 0, 3) = Bits(w, 3, 3)
  BY SlicesAgain, Of_2lo
<1>4. Reads(e[1]) \subseteq DOMAIN decode_2lo(w)
  BY <1>1, Of_2lo
<1> QED BY <1>1, <1>2, <1>3, <1>4

LEMMA NegateOperands ==
  ASSUME NEW w \in Insn, NEW half, NEW e \in Encodings["Negate"], Fits(w, e), DECODE_SAFE
  PROVE  /\ Reads(e[1]) \subseteq DOMAIN decode_2lo(w)
         /\ \A p \in Pieces("Negate") :
              /\ p[1] \in Reads(e[1])
              /\ Bits(decode_2lo(w)[p[1]], p[2], p[3]) = Bits(w, p[4], p[3])
<1>1. Reads(e[1]) = {"rD", "rN"}
  BY NegateFits DEF Reads
<1>2. Pieces("Negate") = {<<"rD", 0, 3, 0>>, <<"rN", 0, 3, 3>>}
  BY DEF Pieces
<1>3. /\ Bits(decode_2lo(w)["rD"], 0, 3) = Bits(w, 0, 3)
      /\ Bits(decode_2lo(w)["rN"], 0, 3) = Bits(w, 3, 3)
  BY SlicesAgain, Of_2lo
<1>4. Reads(e[1]) \subseteq DOMAIN decode_2lo(w)
  BY <1>1, Of_2lo
<1> QED BY <1>1, <1>2, <1>3, <1>4

LEMMA AnyTwoOperands ==
  ASSUME NEW w \in Insn, NEW half, NEW e \in Encodings["AnyTwo"], Fits(w, e), DECODE_SAFE
  PROVE  /\ Reads(e[1]) \subseteq DOMAIN decode_mov_r(w)
         /\ \A p \in Pieces("AnyTwo") :
              /\ p[1] \in Reads(e[1])
              /\ Bits(decode_mov_r(w)[p[1]], p[2], p[3]) = Bits(w, p[4], p[3])
<1>1. Reads(e[1]) = {"rD", "rM"}
  BY AnyTwoFits DEF Reads
<1>2. Pieces("AnyTwo") = {<<"rD", 0, 3, 0>>, <<"rD", 3, 1, 7>>, <<"rM", 0, 4, 3>>}
  BY DEF Pieces
<1>3. /\ Bits(decode_mov_r(w)["rD"], 0, 3) = Bits(w, 0, 3)
      /\ Bits(decode_mov_r(w)["rD"], 3, 1) = Bits(w, 7, 1)
      /\ Bits(decode_mov_r(w)["rM"], 0, 4) = Bits(w, 3, 4)
  BY SlicesAgain, Of_mov_r
<1>4. Reads(e[1]) \subseteq DOMAIN decode_mov_r(w)
  BY <1>1, Of_mov_r
<1> QED BY <1>1, <1>2, <1>3, <1>4

LEMMA AnyOneOperands ==
  ASSUME NEW w \in Insn, NEW half, NEW e \in Encodings["AnyOne"], Fits(w, e), DECODE_SAFE
  PROVE  /\ Reads(e[1]) \subseteq DOMAIN decode_1all(w)
         /\ \A p \in Pieces("AnyOne") :
              /\ p[1] \in Reads(e[1])
              /\ Bits(decode_1all(w)[p[1]], p[2], p[3]) = Bits(w, p[4], p[3])
<1>1. Reads(e[1]) = {"rM"}
  BY AnyOneFits DEF Reads
<1>2. Pieces("AnyOne") = {<<"rM", 0, 4, 3>>}
  BY DEF Pieces
<1>3. /\ Bits(decode_1all(w)["rM"], 0, 4) = Bits(w, 3, 4)
  BY SlicesAgain, Of_1all
<1>4. Reads(e[1]) \subseteq DOMAIN decode_1all(w)
  BY <1>1, Of_1all
<1> QED BY <1>1, <1>2, <1>3, <1>4

LEMMA Offset5Operands ==
  ASSUME NEW w \in Insn, NEW half, NEW e \in Encodings["Offset5"], Fits(w, e), DECODE_SAFE
  PROVE  /\ Reads(e[1]) \subseteq DOMAIN decode_2loimm5(w)
         /\ \A p \in Pieces("Offset5") :
              /\ p[1] \in Reads(e[1])
              /\ Bits(decode_2loimm5(w)[p[1]], p[2], p[3]) = Bits(w, p[4], p[3])
<1>1. Reads(e[1]) = {"rD", "rN", "imm"}
  BY Offset5Fits DEF Reads
<1>2. Pieces("Offset5") = {<<"rD", 0, 3, 0>>, <<"rN", 0, 3, 3>>, <<"imm", 0, 5, 6>>}
  BY DEF Pieces
<1>3. /\ Bits(decode_2loimm5(w)["rD"], 0, 3) = Bits(w, 0, 3)
      /\ Bits(decode_2loimm5(w)["rN"], 0, 3) = Bits(w, 3, 3)
      /\ Bits(decode_2loimm5(w)["imm"], 0, 5) = Bits(w, 6, 5)
  BY SlicesAgain, Of_2loimm5
<1>4. Reads(e[1]) \subseteq DOMAIN decode_2loimm5(w)
  BY <1>1, Of_2loimm5
<1> QED BY <1>1, <1>2, <1>3, <1>4

LEMMA StackImmOperands ==
  ASSUME NEW w \in Insn, NEW half, NEW e \in Encodings["StackImm"], Fits(w, e), DECODE_SAFE
  PROVE  /\ Reads(e[1]) \subseteq DOMAIN decode_imm7(w)
         /\ \A p \in Pieces("StackImm") :
              /\ p[1] \in Reads(e[1])
              /\ Bits(decode_imm7(w)[p[1]], p[2], p[3]) = Bits(w, p[4], p[3])
<1>1. Reads(e[1]) \in {{"rD", "imm"}, {"imm"}}
  BY StackImmFits DEF Reads
<1>2. Pieces("StackImm") = {<<"imm", 0, 7, 0>>}
  BY DEF Pieces
<1>3. /\ Bits(decode_imm7(w)["imm"], 0, 7) = Bits(w, 0, 7)
  BY SlicesAgain, Of_imm7
<1>4. Reads(e[1]) \subseteq DOMAIN decode_imm7(w)
  BY <1>1, Of_imm7
<1> QED BY <1>1, <1>2, <1>3, <1>4

LEMMA PushListOperands ==
  ASSUME NEW w \in Insn, NEW half, NEW e \in Encodings["PushList"], Fits(w, e), DECODE_SAFE
  PROVE  /\ Reads(e[1]) \subseteq DOMAIN decode_push(w)
         /\ \A p \in Pieces("PushList") :
              /\ p[1] \in Reads(e[1])
              /\ Bits(decode_push(w)[p[1]], p[2], p[3]) = Bits(w, p[4], p[3])
<1>1. Reads(e[1]) = {"reg_list"}
  BY PushListFits DEF Reads
<1>2. Pieces("PushList") = {<<"reg_list", 0, 8, 0>>, <<"reg_list", 14, 1, 8>>}
  BY DEF Pieces
<1>3. /\ Bits(decode_push(w)["reg_list"], 0, 8) = Bits(w, 0, 8)
      /\ Bits(decode_push(w)["reg_list"], 14, 1) = Bits(w, 8, 1)
  BY SlicesAgain, Of_push
<1>4. Reads(e[1]) \subseteq DOMAIN decode_push(w)
  BY <1>1, Of_push
<1> QED BY <1>1, <1>2, <1>3, <1>4

LEMMA PopListOperands ==
  ASSUME NEW w \in Insn, NEW half, NEW e \in Encodings["PopList"], Fits(w, e), DECODE_SAFE
  PROVE  /\ Reads(e[1]) \subseteq DOMAIN decode_pop(w)
         /\ \A p \in Pieces("PopList") :
              /\ p[1] \in Reads(e[1])
              /\ Bits(decode_pop(w)[p[1]], p[2], p[3]) = Bits(w, p[4], p[3])
<1>1. Reads(e[1]) = {"reg_list"}
  BY PopListFits DEF Reads
<1>2. Pieces("PopList") = {<<"reg_list", 0, 8, 0>>, <<"reg_list", 15, 1, 8>>}
  BY DEF Pieces
<1>3. /\ Bits(decode_pop(w)["reg_list"], 0, 8) = Bits(w, 0, 8)
      /\ Bits(decode_pop(w)["reg_list"], 15, 1) = Bits(w, 8, 1)
  BY SlicesAgain, Of_pop
<1>4. Reads(e[1]) \subseteq DOMAIN decode_pop(w)
  BY <1>1, Of_pop
<1> QED BY <1>1, <1>2, <1>3, <1>4

LEMMA LowListOperands ==
  ASSUME NEW w \in Insn, NEW half, NEW e \in Encodings["LowList"], Fits(w, e), DECODE_SAFE
  PROVE  /\ Reads(e[1]) \subseteq DOMAIN decode_reglistlo(w)
         /\ \A p \in Pieces("LowList") :
              /\ p[1] \in Reads(e[1])
              /\ Bits(decode_reglistlo(w)[p[1]], p[2], p[3]) = Bits(w, p[4], p[3])
<1>1. Reads(e[1]) = {"rN", "reg_list"}
  BY LowListFits DEF Reads
<1>2. Pieces("LowList") = {<<"rN", 0, 3, 8>>, <<"reg_list", 0, 8, 0>>}
  BY DEF Pieces
<1>3. /\ Bits(decode_reglistlo(w)["rN"], 0, 3) = Bits(w, 8, 3)
      /\ Bits(decode_reglistlo(w)["reg_list"], 0, 8) = Bits(w, 0, 8)
  BY SlicesAgain, Of_reglistlo
<1>4. Reads(e[1]) \subseteq DOMAIN decode_reglistlo(w)
  BY <1>1, Of_reglistlo
<1> QED BY <1>1, <1>2, <1>3, <1>4

LEMMA CondImmOperands ==
  ASSUME NEW w \in Insn, NEW half, NEW e \in Encodings["CondImm"], Fits(w, e), DECODE_SAFE
  PROVE  /\ Reads(e[1]) \subseteq DOMAIN decode_imm8c(w)
         /\ \A p \in Pieces("CondImm") :
              /\ p[1] \in Reads(e[1])
              /\ Bits(decode_imm8c(w)[p[1]], p[2], p[3]) = Bits(w, p[4], p[3])
<1>1. Reads(e[1]) = {"cond", "imm"}
  BY CondImmFits DEF Reads
<1>2. Pieces("CondImm") = {<<"cond", 0, 4, 8>>, <<"imm", 0, 8, 0>>}
  BY DEF Pieces
<1>3. /\ Bits(decode_imm8c(w)["cond"], 0, 4) = Bits(w, 8, 4)
      /\ Bits(decode_imm8c(w)["imm"], 0, 8) = Bits(w, 0, 8)
  BY SlicesAgain, Of_imm8c
<1>4. Reads(e[1]) \subseteq DOMAIN decode_imm8c(w)
  BY <1>1, Of_imm8c
<1> QED BY <1>1, <1>2, <1>3, <1>4

\* What writes fields is not the error decoder.
LEMMA NotError ==
  ASSUME NEW r, Numbers(r)
  PROVE  r # decode_error
<1>1. "error" \in DOMAIN decode_error /\ "error" \notin Fields
  BY DEF decode_error, Fields
<1> QED BY <1>1 DEF Numbers

\* An encoded instruction, with what the two tables make of it.
LEMMA AssembledFits ==
  ASSUME NEW w \in Insn, NEW half \in Half, NEW shape \in DOMAIN Encodings,
         NEW e \in Encodings[shape], Fits(w, e)
  PROVE  /\ executeJumpTable(w) = e[1] /\ e[1] # "error"
         /\ decodeJumpTable(w, half) # decode_error
         /\ e[1] = "b_c" => shape = "CondImm"
         /\ e[1] \in {"b", "bl"} => shape = "Bare"
<1>1. CASE shape = "ShiftImm"
  BY <1>1, ShiftImmFits, Of_2loimm5, NotError
<1>2. CASE shape = "ThreeLow"
  BY <1>2, ThreeLowFits, Of_3lo, NotError
<1>3. CASE shape = "SmallImm"
  BY <1>3, SmallImmFits, Of_2loimm3, NotError
<1>4. CASE shape = "ByteImm"
  BY <1>4, ByteImmFits, Of_imm8lo, NotError
<1>5. CASE shape = "TwoLow"
  BY <1>5, TwoLowFits, Of_2lo, NotError
<1>6. CASE shape = "Negate"
  BY <1>6, NegateFits, Of_2lo, NotError
<1>7. CASE shape = "AnyTwo"
  BY <1>7, AnyTwoFits, Of_mov_r, NotError
<1>8. CASE shape = "AnyOne"
  BY <1>8, AnyOneFits, Of_1all, NotError
<1>9. CASE shape = "Offset5"
  BY <1>9, Offset5Fits, Of_2loimm5, NotError
<1>10. CASE shape = "StackImm"
  BY <1>10, StackImmFits, Of_imm7, NotError
<1>11. CASE shape = "PushList"
  BY <1>11, PushListFits, Of_push, NotError
<1>12. CASE shape = "PopList"
  BY <1>12, PopListFits, Of_pop, NotError
<1>13. CASE shape = "LowList"
  BY <1>13, LowListFits, Of_reglistlo, NotError
<1>14. CASE shape = "CondImm"
  BY <1>14, CondImmFits, Of_imm8c, NotError
<1>15. CASE shape = "Bare"
  BY <1>15, BareFits, Of_imm11, Of_bl, Of_imm8, Of_imm8c, NotError
<1> QED BY <1>1, <1>2, <1>3, <1>4, <1>5, <1>6, <1>7, <1>8, <1>9, <1>10, <1>11, <1>12, <1>13,
           <1>14, <1>15, Shapes

\* The decoder of an encoded instruction writes every operand that its handler reads,
\* with every bit where the encoding puts it.
LEMMA AssembledReads ==
  ASSUME NEW w \in Insn, NEW half \in Half, NEW shape \in DOMAIN Encodings,
         NEW e \in Encodings[shape], Fits(w, e), DECODE_SAFE
  PROVE  /\ Reads(e[1]) \subseteq DOMAIN decodeJumpTable(w, half)
         /\ \A p \in Pieces(shape) :
              /\ p[1] \in Reads(e[1])
              /\ Bits(decodeJumpTable(w, half)[p[1]], p[2], p[3]) = Bits(w, p[4], p[3])
<1>1. CASE shape = "ShiftImm"
  BY <1>1, ShiftImmFits, ShiftImmOperands
<1>2. CASE shape = "ThreeLow"
  BY <1>2, ThreeLowFits, ThreeLowOperands
<1>3. CASE shape = "SmallImm"
  BY <1>3, SmallImmFits, SmallImmOperands
<1>4. CASE shape = "ByteImm"
  BY <1>4, ByteImmFits, ByteImmOperands
<1>5. CASE shape = "TwoLow"
  BY <1>5, TwoLowFits, TwoLowOperands
<1>6. CASE shape = "Negate"
  BY <1>6, NegateFits, NegateOperands
<1>7. CASE shape = "AnyTwo"
  BY <1>7, AnyTwoFits, AnyTwoOperands
<1>8. CASE shape = "AnyOne"
  BY <1>8, AnyOneFits, AnyOneOperands
<1>9. CASE shape = "Offset5"
  BY <1>9, Offset5Fits, Offset5Operands
<1>10. CASE shape = "StackImm"
  BY <1>10, StackImmFits, StackImmOperands
<1>11. CASE shape = "PushList"
  BY <1>11, PushListFits, PushListOperands
<1>12. CASE shape = "PopList"
  BY <1>12, PopListFits, PopListOperands
<1>13. CASE shape = "LowList"
  BY <1>13, LowListFits, LowListOperands
<1>14. CASE shape = "CondImm"
  BY <1>14, CondImmFits, CondImmOperands
<1>15. CASE shape = "Bare"
  <2>1. Pieces(shape) = {}
    BY <1>15 DEF Pieces
  <2>2. e[1] \in {"b", "bl"} => Reads(e[1]) = {"imm"}
    BY DEF Reads
  <2>3. e[1] \in {"breakpoint", "exit"} => Reads(e[1]) = {}
    BY DEF Reads
  <2>4. e[1] = "b" => "imm" \in DOMAIN decodeJumpTable(w, half)
    BY <1>15, BareFits, Of_imm11
  <2>5. e[1] = "bl" => "imm" \in DOMAIN decodeJumpTable(w, half)
    BY <1>15, BareFits, Of_bl
  <2>6. e[1] \in {"b", "bl", "breakpoint", "exit"}
    BY <1>15, BareFits
  <2> QED BY <2>1, <2>2, <2>3, <2>4, <2>5, <2>6
<1> QED BY <1>1, <1>2, <1>3, <1>4, <1>5, <1>6, <1>7, <1>8, <1>9, <1>10, <1>11, <1>12, <1>13,
           <1>14, <1>15, Shapes

-----------------------------------------------------------------------------
(***************************************************************************)
(* The machine: decoded is what the decoder of insn wrote over the stale   *)
(* fields, and ran is what the handler of insn took from it. Every         *)
(* invariant below follows from this one and the lemmas about the tables.  *)
(***************************************************************************)

AllStale  == [f \in Fields |-> Stale]
Halves(w) == IF IsBL(w) THEN SecondHalves ELSE {0}

WasDecoded ==
  /\ second \in Halves(insn)
  /\ decodeJumpTable(insn, second) # decode_error
  /\ decoded = Over(decodeJumpTable(insn, second), AllStale)

DecodeInv ==
  /\ insn \in Insn
  /\ phase \in {"fetched", "decoded", "executed", "exited"}
  /\ phase = "fetched" => decoded = AllStale /\ second = 0
  /\ phase \in {"decoded", "executed"} => WasDecoded
  /\ phase = "executed" =>
       /\ ~Malformed(executeJumpTable(insn))
       /\ ran = [handler  |-> executeJumpTable(insn),
                 operands |-> [f \in Reads(executeJumpTable(insn)) |-> decoded[f]]]
  /\ phase = "exited" =>
       \/ /\ decoded = AllStale /\ second = 0
          /\ \E half \in Halves(insn) : decodeJumpTable(insn, half) = decode_error
       \/ WasDecoded /\ Malformed(executeJumpTable(insn))

\* The invariant is inductive.
LEMMA InitInv == Init => DecodeInv
BY DEF Init, DecodeInv, AllStale

LEMMA StepInv == DecodeInv /\ [Next]_vars => DecodeInv'
<1> SUFFICES ASSUME DecodeInv, [Next]_vars PROVE DecodeInv'
  OBVIOUS
<1>1. CASE decode
  <2>1. /\ phase = "fetched" /\ decoded = AllStale /\ second = 0 /\ insn \in Insn
        /\ insn' = insn /\ ran' = ran
    BY <1>1 DEF decode, DecodeInv
  <2>2. PICK half \in Halves(insn) :
          IF decodeJumpTable(insn, half) = decode_error
          THEN phase' = "exited" /\ UNCHANGED <<second, decoded>>
          ELSE /\ phase' = "decoded"
               /\ second' = half
               /\ decoded' = Over(decodeJumpTable(insn, half), decoded)
    BY <1>1 DEF decode, Halves
  <2>3. CASE decodeJumpTable(insn, half) = decode_error
    BY <2>1, <2>2, <2>3 DEF DecodeInv
  <2>4. CASE decodeJumpTable(insn, half) # decode_error
    BY <2>1, <2>2, <2>4 DEF DecodeInv, WasDecoded
  <2> QED BY <2>3, <2>4
<1>2. CASE exwbmem
  <2>1. /\ phase = "decoded" /\ WasDecoded /\ insn \in Insn
        /\ insn' = insn /\ second' = second /\ decoded' = decoded
    BY <1>2 DEF exwbmem, DecodeInv
  <2>2. WasDecoded' /\ (Malformed(executeJumpTable(insn))' <=> Malformed(executeJumpTable(insn)))
    BY <2>1 DEF WasDecoded, Malformed
  <2>3. CASE Malformed(executeJumpTable(insn))
    <3>1. phase' = "exited"
      BY <1>2, <2>3 DEF exwbmem
    <3> QED BY <2>1, <2>2, <2>3, <3>1 DEF DecodeInv
  <2>4. CASE ~Malformed(executeJumpTable(insn))
    <3>1. /\ phase' = "executed"
          /\ ran' = [handler  |-> executeJumpTable(insn),
                     operands |-> [f \in Reads(executeJumpTable(insn)) |-> decoded[f]]]
      BY <1>2, <2>4 DEF exwbmem
    <3> QED BY <2>1, <2>2, <2>4, <3>1 DEF DecodeInv
  <2> QED BY <2>3, <2>4
<1>3. CASE UNCHANGED vars
  BY <1>3 DEF vars, DecodeInv, WasDecoded, Malformed
<1> QED BY <1>1, <1>2, <1>3 DEF Next

LEMMA Decoding == Spec => []DecodeInv
BY InitInv, StepInv, PTL DEF Spec

\* The halves that decode can find fit into 16 bits.
LEMMA HalvesFit ==
  ASSUME NEW w, NEW half \in Halves(w)
  PROVE  half \in Half /\ half \in SecondHalves \cup {0}
<1>1. half \in SecondHalves \/ half = 0
  BY DEF Halves
<1>2. 0 \in Half
  BY DEF Half
<1> QED BY <1>1, <1>2, SecondHalfRange

\* What decode left: numbers where it wrote, Stale elsewhere.
LEMMA DecodedFields ==
  ASSUME DecodeInv, WasDecoded
  PROVE  /\ second \in Half /\ insn \in Insn
         /\ Numbers(decodeJumpTable(insn, second))
         /\ \A f \in DOMAIN decodeJumpTable(insn, second) :
              decoded[f] = decodeJumpTable(insn, second)[f]
         /\ \A f \in Fields : decoded[f] \in Stale .. 2^24 - 1
<1> DEFINE r == decodeJumpTable(insn, second)
<1>1. second \in Half /\ insn \in Insn
  BY HalvesFit DEF WasDecoded, DecodeInv
<1>2. Numbers(r)
  BY <1>1, Written DEF WasDecoded
<1>3. decoded = Over(r, AllStale)
  BY DEF WasDecoded
<1> HIDE DEF r
<1>4. \A f \in DOMAIN r : decoded[f] = r[f]
  BY <1>3, OverIs
<1>5. \A f \in Fields \ DOMAIN r : decoded[f] = Stale
  <2>1. DOMAIN AllStale = Fields /\ \A f \in Fields : AllStale[f] = Stale
    BY DEF AllStale
  <2>2. \A f \in DOMAIN AllStale \ DOMAIN r : Over(r, AllStale)[f] = AllStale[f]
    BY OverIs
  <2> QED BY <1>3, <2>1, <2>2
<1>6. \A f \in Fields : decoded[f] \in Stale .. 2^24 - 1
  BY <1>2, <1>4, <1>5 DEF Numbers, Stale
<1> QED BY <1>1, <1>2, <1>4, <1>6 DEF r

\* Types: the phases, the words, and numbers or Stale in every field that decode
\* (decode.c) leaves behind.
THEOREM DecodeTypes == Spec => []TypeOK
<1>1. DecodeInv => TypeOK
  <2> SUFFICES ASSUME DecodeInv PROVE TypeOK
    OBVIOUS
  <2>1. CASE WasDecoded
    <3>1. second \in SecondHalves \cup {0}
      BY <2>1, HalvesFit DEF WasDecoded
    <3>2. \A f \in Fields : decoded[f] \in Stale .. 2^24 - 1
      BY <2>1, DecodedFields
    <3> QED BY <3>1, <3>2 DEF DecodeInv, TypeOK
  <2>2. CASE decoded = AllStale /\ second = 0 /\ phase # "executed"
    <3>1. \A f \in Fields : decoded[f] \in Stale .. 2^24 - 1
      BY <2>2 DEF AllStale, Stale
    <3> QED BY <2>2, <3>1 DEF DecodeInv, TypeOK
  <2> QED BY <2>1, <2>2 DEF DecodeInv
<1> QED BY <1>1, Decoding, PTL

\* A word that runs is described by a row of the encodings, or it is an odd push.
LEMMA WhatRuns ==
  ASSUME DecodeInv, phase = "executed"
  PROVE  /\ insn \in Insn /\ second \in Half /\ WasDecoded
         /\ \/ Described(insn)
            \/ executeJumpTable(insn) = "push" /\ insn \div 512 = 91
<1>1. /\ WasDecoded /\ ~Malformed(executeJumpTable(insn))
  BY DEF DecodeInv
<1>2. /\ insn \in Insn /\ second \in Half /\ decodeJumpTable(insn, second) # decode_error
      /\ \A f \in DOMAIN decodeJumpTable(insn, second) :
           decoded[f] = decodeJumpTable(insn, second)[f]
  BY <1>1, DecodedFields DEF WasDecoded
<1>3. executeJumpTable(insn) # "error"
  BY <1>1 DEF Malformed
<1>4. insn \div 256 # 222
  <2> SUFFICES ASSUME insn \div 256 = 222 PROVE FALSE
    OBVIOUS
  <2>1. /\ executeJumpTable(insn) = "b_c"
        /\ decodeJumpTable(insn, second) = decode_imm8c(insn)
    BY <1>2, EightBits
  <2>2. decoded["cond"] = Bits(insn, 8, 4)
    BY <1>2, <2>1, Of_imm8c
  <2>3. Bits(insn, 8, 4) = 14
    BY <1>2, Width8
  <2> QED BY <1>1, <2>1, <2>2, <2>3 DEF Malformed
<1> QED BY <1>1, <1>2, <1>3, <1>4, OthersExit

\* With DECODE_SAFE (decode.h:7), the handler that exwbmem picks never reads a field
\* that the decoder decode picked left from an earlier instruction.
THEOREM NothingStale == ASSUME DECODE_SAFE PROVE Spec => []NoStaleOperand
<1>1. DecodeInv => NoStaleOperand
  <2> SUFFICES ASSUME DecodeInv, phase = "executed",
                      NEW g \in DOMAIN ran.operands
               PROVE  ran.operands[g] # Stale
    BY DEF NoStaleOperand
  <2> DEFINE h == executeJumpTable(insn)   r == decodeJumpTable(insn, second)
  <2>1. /\ insn \in Insn /\ second \in Half /\ WasDecoded
        /\ Described(insn) \/ (h = "push" /\ insn \div 512 = 91)
    BY WhatRuns
  <2>2. Reads(h) \subseteq DOMAIN r
    <3>1. CASE Described(insn)
      <4>1. PICK shape \in DOMAIN Encodings : \E e \in Encodings[shape] : Fits(insn, e)
        BY <3>1 DEF Described
      <4>2. PICK e \in Encodings[shape] : Fits(insn, e)
        BY <4>1
      <4> QED BY <2>1, <4>2, AssembledFits, AssembledReads
    <3>2. CASE h = "push" /\ insn \div 512 = 91
      <4>1. r = decode_push(insn)
        BY <2>1, <3>2, SevenBits
      <4>2. Reads(h) = {"reg_list"}
        BY <3>2 DEF Reads
      <4> QED BY <2>1, <4>1, <4>2, Of_push
    <3> QED BY <2>1, <3>1, <3>2
  <2>3. /\ DOMAIN ran.operands = Reads(h)
        /\ \A f \in Reads(h) : ran.operands[f] = decoded[f]
    BY DEF DecodeInv
  <2>4. \A f \in DOMAIN r : decoded[f] = r[f] /\ r[f] # Stale
    BY <2>1, DecodedFields DEF Numbers, Stale
  <2> HIDE DEF r, h
  <2> QED BY <2>2, <2>3, <2>4
<1> QED BY <1>1, Decoding, PTL

\* The meanings of a word are the rows that describe it.
LEMMA MeaningsAre ==
  ASSUME NEW w
  PROVE  /\ \A m \in Meanings(w) : \E shape \in DOMAIN Encodings : \E e \in Encodings[shape] :
              Fits(w, e) /\ m = [handler |-> e[1], pieces |-> Pieces(shape)]
         /\ Described(w) => Meanings(w) # {}
<1> DEFINE Of(shape) == {[handler |-> e[1], pieces |-> Pieces(shape)] :
                           e \in {e \in Encodings[shape] : w \div 2^(16 - e[2]) = e[3]}}
<1>1. Meanings(w) = UNION {Of(shape) : shape \in DOMAIN Encodings}
  BY DEF Meanings
<1>2. \A shape, m : m \in Of(shape) <=>
        \E e \in Encodings[shape] :
          Fits(w, e) /\ m = [handler |-> e[1], pieces |-> Pieces(shape)]
  BY DEF Fits
<1> HIDE DEF Of
<1>3. \A m : m \in Meanings(w) <=> \E shape \in DOMAIN Encodings : m \in Of(shape)
  BY <1>1
<1>4. ASSUME Described(w) PROVE Meanings(w) # {}
  <2>1. PICK shape \in DOMAIN Encodings : \E e \in Encodings[shape] : Fits(w, e)
    BY <1>4 DEF Described
  <2>2. PICK e \in Encodings[shape] : Fits(w, e)
    BY <2>1
  <2>3. [handler |-> e[1], pieces |-> Pieces(shape)] \in Of(shape)
    BY <1>2, <2>2
  <2> QED BY <1>3, <2>3
<1> QED BY <1>2, <1>3, <1>4

\* Words that are no instruction stop the simulation in decode or exwbmem, but for the
\* words that run as push.
THEOREM MalformedStops == Spec => []MalformedExits
<1>1. DecodeInv => MalformedExits
  <2> SUFFICES ASSUME DecodeInv, phase = "executed", Meanings(insn) = {}
               PROVE  ran.handler = "push" /\ Bits(insn, 9, 7) = \h5B
    BY DEF MalformedExits
  <2>1. insn \in Insn /\ executeJumpTable(insn) = "push" /\ insn \div 512 = 91
    BY WhatRuns, MeaningsAre
  <2>2. ran.handler = executeJumpTable(insn)
    BY DEF DecodeInv
  <2> QED BY <2>1, <2>2, Slices
<1> QED BY <1>1, Decoding, PTL

\* With DECODE_SAFE, every word that an assembler emits runs as the instruction it was
\* emitted for: the tables of decode.c and exmemwb.c agree with the instruction set and
\* with each other.
THEOREM RunsRight == ASSUME DECODE_SAFE PROVE Spec => []RunsAsAssembled
<1>1. DecodeInv => RunsAsAssembled
  <2> SUFFICES ASSUME DecodeInv, NEW m \in Meanings(insn)
               PROVE  /\ phase # "exited"
                      /\ phase = "executed" =>
                           /\ ran.handler = m.handler
                           /\ \A p \in m.pieces :
                                Bits(ran.operands[p[1]], p[2], p[3]) = Bits(insn, p[4], p[3])
                           /\ insn \div 128 = \h160 => ran.operands["rD"] = 13
    BY DEF RunsAsAssembled
  <2> DEFINE h == executeJumpTable(insn)
  <2>1. PICK shape \in DOMAIN Encodings : \E e \in Encodings[shape] :
               Fits(insn, e) /\ m = [handler |-> e[1], pieces |-> Pieces(shape)]
    BY MeaningsAre
  <2>2. PICK e \in Encodings[shape] :
               Fits(insn, e) /\ m = [handler |-> e[1], pieces |-> Pieces(shape)]
    BY <2>1
  <2>3. insn \in Insn
    BY DEF DecodeInv
  <2>4. \A half \in Half : decodeJumpTable(insn, half) # decode_error
    BY <2>2, <2>3, AssembledFits
  <2>5. h = e[1] /\ h # "error"
    <3>1. 0 \in Half
      BY DEF Half
    <3> QED BY <2>2, <2>3, <3>1, AssembledFits
  <2>6. ~(WasDecoded /\ Malformed(h))
    <3> SUFFICES ASSUME WasDecoded, h = "b_c", decoded["cond"] \in {14, 15} PROVE FALSE
      BY <2>5 DEF Malformed
    <3>1. second \in Half
      BY DecodedFields
    <3>2. shape = "CondImm"
      BY <2>2, <2>3, <2>5, <3>1, AssembledFits
    <3>3. decodeJumpTable(insn, second) = decode_imm8c(insn) /\ insn \div 256 \in 208 .. 221
      BY <2>2, <2>3, <3>2, CondImmFits
    <3>4. decoded["cond"] = Bits(insn, 8, 4)
      BY <2>3, <3>3, DecodedFields, Of_imm8c
    <3>5. Bits(insn, 8, 4) = (insn \div 256) % 16
      BY <2>3, Width8
    <3>6. (insn \div 256) % 16 \notin {14, 15}
      BY <3>3
    <3> QED BY <3>4, <3>5, <3>6
  <2>7. phase # "exited"
    <3>1. \A half \in Halves(insn) : decodeJumpTable(insn, half) # decode_error
      BY <2>4, HalvesFit
    <3> QED BY <2>6, <3>1 DEF DecodeInv
  <2>8. ASSUME phase = "executed"
        PROVE  /\ ran.handler = m.handler
               /\ \A p \in m.pieces :
                    Bits(ran.operands[p[1]], p[2], p[3]) = Bits(insn, p[4], p[3])
               /\ insn \div 128 = \h160 => ran.operands["rD"] = 13
    <3>1. /\ WasDecoded
          /\ ran = [handler |-> h, operands |-> [f \in Reads(h) |-> decoded[f]]]
      BY <2>8 DEF DecodeInv
    <3> DEFINE r == decodeJumpTable(insn, second)
    <3>2. second \in Half /\ \A f \in DOMAIN r : decoded[f] = r[f]
      BY <3>1, DecodedFields
    <3>3. /\ Reads(h) \subseteq DOMAIN r
          /\ \A p \in Pieces(shape) :
               p[1] \in Reads(h) /\ Bits(r[p[1]], p[2], p[3]) = Bits(insn, p[4], p[3])
      BY <2>2, <2>3, <2>5, <3>2, AssembledReads
    <3>4. m.handler = h /\ m.pieces = Pieces(shape)
      BY <2>2, <2>5
    <3>5. ran.handler = h /\ \A f \in Reads(h) : ran.operands[f] = r[f]
      BY <3>1, <3>2, <3>3
    <3>6. insn \div 128 = \h160 => ran.operands["rD"] = 13
      <4> SUFFICES ASSUME insn \div 128 = 352 PROVE ran.operands["rD"] = 13
        OBVIOUS
      <4>1. h = "add_sp" /\ r = decode_imm7(insn)
        BY <2>3, NineBits
      <4>2. "rD" \in Reads(h)
        BY <4>1 DEF Reads
      <4>3. r["rD"] = 13
        BY <2>3, <4>1, Of_imm7
      <4> QED BY <3>5, <4>2, <4>3
    <3> HIDE DEF r, h
    <3>7. \A p \in m.pieces :
             Bits(ran.operands[p[1]], p[2], p[3]) = Bits(insn, p[4], p[3])
      BY <3>3, <3>4, <3>5
    <3> QED BY <3>4, <3>5, <3>6, <3>7
  <2> QED BY <2>7, <2>8
<1> QED BY <1>1, Decoding, PTL

\* What a branch that runs was encoded as.
LEMMA BranchesEncoded ==
  ASSUME DecodeInv, phase = "executed"
  PROVE  LET h == executeJumpTable(insn)
             r == decodeJumpTable(insn, second)
         IN /\ ran.handler = h
            /\ \A f \in Reads(h) \cap DOMAIN r : ran.operands[f] = r[f]
            /\ h = "b" => insn \div 2048 = 28 /\ r = decode_imm11(insn)
            /\ h = "b_c" => insn \div 256 \in 208 .. 221 /\ r = decode_imm8c(insn)
            /\ h = "bl" => insn \div 2048 = 30 /\ r = decode_bl(insn, second)
<1> DEFINE h == executeJumpTable(insn)
           r == decodeJumpTable(insn, second)
<1>1. /\ insn \in Insn /\ second \in Half /\ WasDecoded
      /\ Described(insn) \/ h = "push"
  BY WhatRuns
<1>2. ran = [handler |-> h, operands |-> [f \in Reads(h) |-> decoded[f]]]
  BY DEF DecodeInv
<1>3. \A f \in DOMAIN r : decoded[f] = r[f]
  BY <1>1, DecodedFields
<1>4. ASSUME h \in {"b", "b_c", "bl"}
      PROVE  /\ h = "b" => insn \div 2048 = 28 /\ r = decode_imm11(insn)
             /\ h = "b_c" => insn \div 256 \in 208 .. 221 /\ r = decode_imm8c(insn)
             /\ h = "bl" => insn \div 2048 = 30 /\ r = decode_bl(insn, second)
  <2>1. PICK shape \in DOMAIN Encodings : \E e \in Encodings[shape] : Fits(insn, e)
    BY <1>1, <1>4 DEF Described
  <2>2. PICK e \in Encodings[shape] : Fits(insn, e)
    BY <2>1
  <2>3. /\ h = e[1]
        /\ h = "b_c" => shape = "CondImm"
        /\ h \in {"b", "bl"} => shape = "Bare"
    BY <1>1, <2>2, AssembledFits
  <2>4. CASE h = "b_c"
    BY <1>1, <2>2, <2>3, <2>4, CondImmFits
  <2>5. CASE h \in {"b", "bl"}
    BY <1>1, <2>2, <2>3, <2>5, BareFits
  <2> QED BY <1>4, <2>4, <2>5
<1>5. ran.handler = h /\ \A f \in Reads(h) \cap DOMAIN r : ran.operands[f] = r[f]
  BY <1>2, <1>3
<1> HIDE DEF h, r
<1>6. /\ h = "b" => insn \div 2048 = 28 /\ r = decode_imm11(insn)
      /\ h = "b_c" => insn \div 256 \in 208 .. 221 /\ r = decode_imm8c(insn)
      /\ h = "bl" => insn \div 2048 = 30 /\ r = decode_bl(insn, second)
  BY <1>4
<1> QED BY <1>5, <1>6 DEF h, r

-----------------------------------------------------------------------------
(***************************************************************************)
(* How far a branch goes: encoding the distance that b, b_c and bl add to  *)
(* the PC gives the word back.                                             *)
(***************************************************************************)

\* Immediates and their parts.
Bit   == {0, 1}
Imm8  == 0 .. 255
Imm10 == 0 .. 1023
Imm11 == 0 .. 2047

\* A word from its opcode and the rest.
LEMMA Rests ==
  ASSUME NEW w \in Insn
  PROVE  /\ w = (w \div 2048) * 2048 + Bits(w, 0, 11) /\ Bits(w, 0, 11) \in Imm11
         /\ w = (w \div 1024) * 1024 + Bits(w, 0, 10) /\ Bits(w, 0, 10) \in Imm10
         /\ w = (w \div 256) * 256 + Bits(w, 0, 8) /\ Bits(w, 0, 8) \in Imm8
         /\ Bits(w, 8, 4) = (w \div 256) % 16
         /\ Bits(w, 10, 1) = (w \div 1024) % 2 /\ Bits(w, 10, 1) \in Bit
<1>1. w \in Nat /\ Bits(w, 8, 4) = (w \div 256) % 16
  BY Slices
<1>2. w \div 1 = w
  BY <1>1, SMT
<1>3. 2^0 = 1 /\ 2^1 = 2 /\ 2^8 = 256 /\ 2^10 = 1024 /\ 2^11 = 2048
  BY SMT
<1>4. /\ Bits(w, 0, 11) = w % 2048 /\ Bits(w, 0, 10) = w % 1024
      /\ Bits(w, 0, 8) = w % 256 /\ Bits(w, 10, 1) = (w \div 1024) % 2
  BY <1>2, <1>3, SMT DEF Bits
<1>5. /\ w = (w \div 2048) * 2048 + (w % 2048)
      /\ w = (w \div 1024) * 1024 + (w % 1024)
      /\ w = (w \div 256) * 256 + (w % 256)
  BY <1>1, Z3
<1>6. w % 2048 \in Imm11 /\ w % 1024 \in Imm10 /\ w % 256 \in Imm8
  BY <1>1, SMT DEF Imm11, Imm10, Imm8
<1>7. (w \div 1024) % 2 \in Bit
  BY <1>1, SMT DEF Bit
<1> QED BY <1>1, <1>4, <1>5, <1>6, <1>7, SMT

\* The distance of b from its immediate and back, then that of b_c.
LEMMA BackAndForth ==
  ASSUME NEW m \in Imm11
  PROVE  /\ -2048 <= b_offset(m) /\ b_offset(m) <= 2046 /\ b_offset(m) % 2 = 0
         /\ Bits(b_offset(m), 1, 11) = m
<1> USE DEF Imm11
<1>1. Bits(m * 2, 11, 1) = (m * 2) \div 2048
  <2>1. (m * 2) \div 2048 \in 0 .. 1
    OBVIOUS
  <2> QED BY <2>1 DEF Bits
<1>2. b_offset(m) = IF (m * 2) \div 2048 # 0 THEN m * 2 - 4096 ELSE m * 2
  BY <1>1 DEF b_offset, signExtend32
<1>3. CASE m < 1024
  <2>1. b_offset(m) = m * 2
    BY <1>2, <1>3
  <2>2. ((m * 2) \div 2) % 2048 = m
    OBVIOUS
  <2> QED BY <1>3, <2>1, <2>2 DEF Bits
<1>4. CASE m >= 1024
  <2>1. b_offset(m) = m * 2 - 4096
    BY <1>2, <1>4
  <2>2. ((m * 2 - 4096) \div 2) % 2048 = m
    OBVIOUS
  <2> QED BY <1>4, <2>1, <2>2 DEF Bits
<1> QED BY <1>3, <1>4

LEMMA NearBackAndForth ==
  ASSUME NEW m \in Imm8
  PROVE  /\ -256 <= b_c_offset(m) /\ b_c_offset(m) <= 254 /\ b_c_offset(m) % 2 = 0
         /\ Bits(b_c_offset(m), 1, 8) = m
<1> USE DEF Imm8
<1>1. Bits(m * 2, 8, 1) = (m * 2) \div 256
  <2>1. (m * 2) \div 256 \in 0 .. 1
    OBVIOUS
  <2> QED BY <2>1 DEF Bits
<1>2. b_c_offset(m) = IF (m * 2) \div 256 # 0 THEN m * 2 - 512 ELSE m * 2
  BY <1>1 DEF b_c_offset, signExtend32
<1>3. CASE m < 128
  <2>1. b_c_offset(m) = m * 2
    BY <1>2, <1>3
  <2>2. ((m * 2) \div 2) % 256 = m
    OBVIOUS
  <2> QED BY <1>3, <2>1, <2>2 DEF Bits
<1>4. CASE m >= 128
  <2>1. b_c_offset(m) = m * 2 - 512
    BY <1>2, <1>4
  <2>2. ((m * 2 - 512) \div 2) % 256 = m
    OBVIOUS
  <2> QED BY <1>4, <2>1, <2>2 DEF Bits
<1> QED BY <1>3, <1>4

\* The distance of bl: the immediate without its sign, the distance with it, and the
\* parts of both.
LEMMA FarParts ==
  ASSUME NEW I1 \in Int, 0 <= I1, I1 <= 1, NEW I2 \in Int, 0 <= I2, I2 <= 1,
         NEW m \in Int, 0 <= m, m <= 1023, NEW n \in Int, 0 <= n, n <= 2047,
         NEW a, a = I1 * 4194304 + I2 * 2097152 + m * 2048 + n
  PROVE  /\ a \in Int /\ 0 <= a /\ a <= 8388607
         /\ a \div 4194304 = I1
         /\ a \div 2097152 = I1 * 2 + I2
         /\ a \div 2048 = I1 * 2048 + I2 * 1024 + m
<1>1. a \in Int /\ 0 <= a /\ a <= 8388607
  BY SMT
<1>2. a \div 4194304 = I1
  BY SMT
<1>3. a \div 2097152 = I1 * 2 + I2
  BY SMT
<1>4. a \div 2048 = I1 * 2048 + I2 * 1024 + m
  BY SMT
<1> QED BY <1>1, <1>2, <1>3, <1>4

LEMMA FarSigned ==
  ASSUME NEW S \in Int, 0 <= S, S <= 1, NEW a \in Int, 0 <= a, a <= 8388607,
         NEW o, o = 2 * (a - S * 8388608)
  PROVE  /\ o \in Int /\ -16777216 <= o /\ o < 16777216 /\ o % 2 = 0
         /\ o \div 16777216 = -S
         /\ o \div 8388608 = a \div 4194304 - 2 * S
         /\ o \div 4194304 = a \div 2097152 - 4 * S
         /\ o \div 4096 = a \div 2048 - 4096 * S
         /\ o \div 2 = a - 8388608 * S
<1>1. o \in Int /\ -16777216 <= o /\ o < 16777216 /\ o % 2 = 0
  BY SMT
<1>2. o \div 16777216 = -S
  BY SMT
<1>3. o \div 8388608 = a \div 4194304 - 2 * S
  BY SMT
<1>4. o \div 4194304 = a \div 2097152 - 4 * S
  BY SMT
<1>5. o \div 4096 = a \div 2048 - 4096 * S
  BY SMT
<1>6. o \div 2 = a - 8388608 * S
  BY SMT
<1> QED BY <1>1, <1>2, <1>3, <1>4, <1>5, <1>6

\* The parts as residues.
LEMMA FarModuli ==
  ASSUME NEW S \in Int, 0 <= S, S <= 1,
         NEW I1 \in Int, 0 <= I1, I1 <= 1, NEW I2 \in Int, 0 <= I2, I2 <= 1,
         NEW m \in Int, 0 <= m, m <= 1023, NEW n \in Int, 0 <= n, n <= 2047,
         NEW a, a = I1 * 4194304 + I2 * 2097152 + m * 2048 + n
  PROVE  /\ (-S) % 2 = S
         /\ (I1 - 2 * S) % 2 = I1
         /\ (I1 * 2 + I2 - 4 * S) % 2 = I2
         /\ (I1 * 2048 + I2 * 1024 + m - 4096 * S) % 1024 = m
         /\ (a - 8388608 * S) % 2048 = n
<1>1. (-S) % 2 = S
  BY SMT
<1>2. (I1 - 2 * S) % 2 = I1
  BY SMT
<1>3. (I1 * 2 + I2 - 4 * S) % 2 = I2
  BY SMT
<1>4. (I1 * 2048 + I2 * 1024 + m - 4096 * S) % 1024 = m
  BY SMT
<1>5. (a - 8388608 * S) % 2048 = n
  BY SMT
<1> QED BY <1>1, <1>2, <1>3, <1>4, <1>5

\* The distance of a bl from the five parts of its immediate, and the parts from the
\* distance.
LEMMA FarBackAndForth ==
  ASSUME NEW S \in Bit, NEW I1 \in Bit, NEW I2 \in Bit, NEW m \in Imm10, NEW n \in Imm11,
         NEW imm, imm = S * 8388608 + I1 * 4194304 + I2 * 2097152 + m * 2048 + n
  PROVE  LET o == bl_offset(imm)
         IN /\ -16777216 <= o /\ o < 16777216 /\ o % 2 = 0
            /\ Bits(o, 24, 1) = S /\ Bits(o, 23, 1) = I1 /\ Bits(o, 22, 1) = I2
            /\ Bits(o, 12, 10) = m /\ Bits(o, 1, 11) = n
<1> DEFINE a == I1 * 4194304 + I2 * 2097152 + m * 2048 + n
           o == 2 * (a - S * 8388608)
<1>0. /\ S \in Int /\ 0 <= S /\ S <= 1
      /\ I1 \in Int /\ 0 <= I1 /\ I1 <= 1 /\ I2 \in Int /\ 0 <= I2 /\ I2 <= 1
      /\ m \in Int /\ 0 <= m /\ m <= 1023 /\ n \in Int /\ 0 <= n /\ n <= 2047
  BY SMT DEF Bit, Imm10, Imm11
<1>1. /\ a \in Int /\ 0 <= a /\ a <= 8388607 /\ a \div 4194304 = I1
      /\ a \div 2097152 = I1 * 2 + I2 /\ a \div 2048 = I1 * 2048 + I2 * 1024 + m
  BY <1>0, FarParts, SMT
<1>2. /\ (-S) % 2 = S /\ (I1 - 2 * S) % 2 = I1 /\ (I1 * 2 + I2 - 4 * S) % 2 = I2
      /\ (I1 * 2048 + I2 * 1024 + m - 4096 * S) % 1024 = m
      /\ (a - 8388608 * S) % 2048 = n
  BY <1>0, FarModuli, SMT
<1>3. imm = S * 8388608 + a
  BY <1>0, SMT
<1> HIDE DEF a
<1>4. /\ o \in Int /\ -16777216 <= o /\ o < 16777216 /\ o % 2 = 0
      /\ o \div 16777216 = -S
      /\ o \div 8388608 = a \div 4194304 - 2 * S
      /\ o \div 4194304 = a \div 2097152 - 4 * S
      /\ o \div 4096 = a \div 2048 - 4096 * S
      /\ o \div 2 = a - 8388608 * S
  BY <1>0, <1>1, FarSigned, SMT
<1>5. bl_offset(imm) = o
  <2>1. o = 2 * (a - S * 8388608)
    BY <1>0, SMT
  <2> HIDE DEF o
  <2>2. 2^24 = 16777216 /\ 2^25 = 33554432 /\ 2^1 = 2
    BY <1>0, SMT
  <2>3. imm \in Int
    BY <1>0, <1>1, <1>3, SMT
  <2>4. (imm * 2) \div 16777216 = S
    BY <1>0, <1>1, <1>3, SMT
  <2>5. S % 2 = S
    BY <1>0, SMT
  <2>6. Bits(imm * 2, 24, 1) = S
    BY <2>2, <2>4, <2>5 DEF Bits
  <2>7. bl_offset(imm) = IF S # 0 THEN imm * 2 - 33554432 ELSE imm * 2
    <3>1. 25 - 1 = 24
      BY <1>0, SMT
    <3> QED BY <2>2, <2>6, <3>1 DEF bl_offset, signExtend32
  <2>8. S = 0 \/ S = 1
    BY <1>0, SMT
  <2>9. CASE S = 0
    BY <1>0, <1>1, <1>3, <2>1, <2>3, <2>7, <2>9, SMT
  <2>10. CASE S = 1
    BY <1>0, <1>1, <1>3, <2>1, <2>3, <2>7, <2>10, SMT
  <2> QED BY <2>8, <2>9, <2>10
<1> HIDE DEF o
<1>6. /\ 2^24 = 16777216 /\ 2^23 = 8388608 /\ 2^22 = 4194304 /\ 2^12 = 4096
      /\ 2^1 = 2 /\ 2^10 = 1024 /\ 2^11 = 2048
  BY <1>0, SMT
<1>7. Bits(o, 24, 1) = S /\ Bits(o, 23, 1) = I1 /\ Bits(o, 22, 1) = I2
  BY <1>0, <1>1, <1>2, <1>4, <1>6, SMT DEF Bits
<1>8. Bits(o, 12, 10) = m /\ Bits(o, 1, 11) = n
  BY <1>0, <1>1, <1>2, <1>4, <1>6, SMT DEF Bits
<1> QED BY <1>4, <1>5, <1>7, <1>8, SMT

\* The second half of a bl, from its parts.
LEMMA SecondHalf ==
  ASSUME NEW half \in SecondHalves
  PROVE  /\ half = \hD000 + Bits(half, 13, 1) * 8192 + Bits(half, 11, 1) * 2048
                   + Bits(half, 0, 11)
         /\ Bits(half, 13, 1) \in Bit /\ Bits(half, 11, 1) \in Bit
         /\ Bits(half, 0, 11) \in Imm11
<1>1. (half \div 4096) % 2 = 1
  BY SecondHalfRange
<1>2. half \in Int /\ 49152 <= half /\ half <= 65535
  BY SecondHalfRange
<1>3. 2^0 = 1 /\ 2^1 = 2 /\ 2^11 = 2048 /\ 2^13 = 8192
  BY SMT
<1>4. half \div 1 = half
  BY <1>2, SMT
<1>5. /\ Bits(half, 13, 1) = (half \div 8192) % 2
      /\ Bits(half, 11, 1) = (half \div 2048) % 2 /\ Bits(half, 0, 11) = half % 2048
  BY <1>3, <1>4, SMT DEF Bits
<1>6. /\ half = 53248 + ((half \div 8192) % 2) * 8192 + ((half \div 2048) % 2) * 2048
                 + (half % 2048)
      /\ (half \div 8192) % 2 \in {0, 1} /\ (half \div 2048) % 2 \in {0, 1}
      /\ half % 2048 \in 0 .. 2047
  <2>1. /\ (half \div 8192) % 2 \in {0, 1} /\ (half \div 2048) % 2 \in {0, 1}
        /\ half % 2048 \in 0 .. 2047
    BY <1>1, <1>2, Z3
  <2>2. half = (half \div 2048) * 2048 + (half % 2048)
    BY <1>1, <1>2, Z3
  <2>3. half \div 2048 = 26 + ((half \div 8192) % 2) * 4 + ((half \div 2048) % 2)
    <3> DEFINE b == half \div 2048
    <3>1. b \in Int /\ 24 <= b /\ b <= 31
      BY <1>2, SMT
    <3>2. half \div 4096 = b \div 2 /\ half \div 8192 = b \div 4
      BY <1>2, SMT
    <3> HIDE DEF b
    <3>3. (b \div 2) % 2 = 1
      BY <1>1, <3>2
    <3>4. b = 26 \/ b = 27 \/ b = 30 \/ b = 31
      BY <3>1, <3>3, SMT
    <3>5. ((b \div 4) % 2) * 4 + (b % 2) = b - 26
      BY <3>4, SMT
    <3> QED BY <3>1, <3>2, <3>5, SMT DEF b
  <2> QED BY <2>1, <2>2, <2>3, <1>2, Z3
<1> QED BY <1>5, <1>6, SMT DEF Bit, Imm11

\* Where b, b_c and bl land, from the words that encode them.
LEMMA NearLands ==
  ASSUME NEW w \in Insn, w \div 2048 = 28
  PROVE  LET o == b_offset(Bits(w, 0, 11))
         IN -2048 <= o /\ o <= 2046 /\ o % 2 = 0 /\ w = 57344 + Bits(o, 1, 11)
<1> DEFINE m == Bits(w, 0, 11)
<1>1. w = 28 * 2048 + m /\ m \in Imm11
  BY Rests
<1> HIDE DEF m
<1>2. /\ -2048 <= b_offset(m) /\ b_offset(m) <= 2046 /\ b_offset(m) % 2 = 0
      /\ Bits(b_offset(m), 1, 11) = m
  BY <1>1, BackAndForth
<1>3. w = 57344 + m
  BY <1>1, SMT DEF Imm11
<1> QED BY <1>2, <1>3 DEF m

LEMMA CondLands ==
  ASSUME NEW w \in Insn, w \div 256 \in 208 .. 221
  PROVE  LET o == b_c_offset(Bits(w, 0, 8))
         IN /\ -256 <= o /\ o <= 254 /\ o % 2 = 0
            /\ w = 53248 + 256 * Bits(w, 8, 4) + Bits(o, 1, 8)
<1> DEFINE m == Bits(w, 0, 8)   q == w \div 256
<1>1. w = q * 256 + m /\ m \in Imm8 /\ Bits(w, 8, 4) = q % 16
  BY Rests
<1>2. q \in Int /\ 208 <= q /\ q <= 221
  BY SMT
<1> HIDE DEF m, q
<1>3. q % 16 = q - 208
  BY <1>2, SMT
<1>4. w = 53248 + 256 * Bits(w, 8, 4) + m
  BY <1>1, <1>2, <1>3, SMT DEF Imm8
<1>5. /\ -256 <= b_c_offset(m) /\ b_c_offset(m) <= 254 /\ b_c_offset(m) % 2 = 0
      /\ Bits(b_c_offset(m), 1, 8) = m
  BY <1>1, NearBackAndForth
<1> QED BY <1>4, <1>5 DEF m

LEMMA FarFirst ==
  ASSUME NEW w \in Insn, w \div 2048 = 30
  PROVE  w = 61440 + Bits(w, 10, 1) * 1024 + Bits(w, 0, 10)
<1> DEFINE q == w \div 1024
<1>1. w = q * 1024 + Bits(w, 0, 10) /\ Bits(w, 0, 10) \in Imm10 /\ Bits(w, 10, 1) = q % 2
  BY Rests
<1>2. q \in Int /\ 60 <= q /\ q <= 61
  BY Slices, SMT
<1> HIDE DEF q
<1>3. q % 2 = q - 60
  BY <1>2, SMT
<1> QED BY <1>1, <1>2, <1>3, SMT DEF Imm10

LEMMA FarLands ==
  ASSUME NEW w \in Insn, w \div 2048 = 30, NEW half \in SecondHalves
  PROVE  LET o == bl_offset(decode_bl(w, half)["imm"])
         IN /\ -16777216 <= o /\ o < 16777216 /\ o % 2 = 0
            /\ w = 61440 + Bits(o, 24, 1) * 1024 + Bits(o, 12, 10)
            /\ half = 53248 + Same(Bits(o, 23, 1), Bits(o, 24, 1)) * 8192
                      + Same(Bits(o, 22, 1), Bits(o, 24, 1)) * 2048 + Bits(o, 1, 11)
<1> DEFINE S == Bits(w, 10, 1)   m == Bits(w, 0, 10)
           J1 == Bits(half, 13, 1)   J2 == Bits(half, 11, 1)   n == Bits(half, 0, 11)
           I1 == Same(J1, S)   I2 == Same(J2, S)
           imm == decode_bl(w, half)["imm"]   o == bl_offset(imm)
<1>1. half \in Half
  BY SecondHalfRange
<1>2. imm = S * 8388608 + I1 * 4194304 + I2 * 2097152 + m * 2048 + n
  BY <1>1, Of_bl
<1>3. half = 53248 + J1 * 8192 + J2 * 2048 + n /\ J1 \in Bit /\ J2 \in Bit /\ n \in Imm11
  BY SecondHalf, SMT
<1>4. w = 61440 + S * 1024 + m /\ S \in Bit /\ m \in Imm10
  BY FarFirst, Rests, SMT
<1> HIDE DEF S, m, J1, J2, n, imm
<1>5. I1 \in Bit /\ I2 \in Bit /\ Same(I1, S) = J1 /\ Same(I2, S) = J2
  BY <1>3, <1>4 DEF Same, Bit
<1> HIDE DEF I1, I2
<1>7. /\ -16777216 <= o /\ o < 16777216 /\ o % 2 = 0
      /\ Bits(o, 24, 1) = S /\ Bits(o, 23, 1) = I1 /\ Bits(o, 22, 1) = I2
      /\ Bits(o, 12, 10) = m /\ Bits(o, 1, 11) = n
  BY <1>2, <1>3, <1>4, <1>5, FarBackAndForth, SMT
<1> HIDE DEF o
<1>8. /\ w = 61440 + Bits(o, 24, 1) * 1024 + Bits(o, 12, 10)
      /\ half = 53248 + Same(Bits(o, 23, 1), Bits(o, 24, 1)) * 8192
                + Same(Bits(o, 22, 1), Bits(o, 24, 1)) * 2048 + Bits(o, 1, 11)
  BY <1>3, <1>4, <1>5, <1>7, SMT
<1> QED BY <1>7, <1>8, SMTT(60) DEF o, imm

\* Every b, b_c and bl that runs goes as far as its words encode, for every second
\* half of bl: decode_bl and signExtend32 (exmemwb_branch.c) undo the encoding.
THEOREM BranchesLand == Spec => []BranchesAsAssembled
<1>1. DecodeInv => BranchesAsAssembled
  <2> HAVE DecodeInv
  <2>0. phase # "executed" => BranchesAsAssembled
    BY DEF BranchesAsAssembled
  <2> SUFFICES ASSUME phase = "executed"
               PROVE  BranchesAsAssembled
    BY <2>0
  <2> DEFINE h   == executeJumpTable(insn)
             r   == decodeJumpTable(insn, second)
             imm == ran.operands["imm"]
  <2>1. insn \in Insn
    BY DEF DecodeInv
  <2>2. /\ ran.handler = h
        /\ \A f \in Reads(h) \cap DOMAIN r : ran.operands[f] = r[f]
        /\ h = "b" => insn \div 2048 = 28 /\ r = decode_imm11(insn)
        /\ h = "b_c" => insn \div 256 \in 208 .. 221 /\ r = decode_imm8c(insn)
        /\ h = "bl" => insn \div 2048 = 30 /\ r = decode_bl(insn, second)
    BY BranchesEncoded
  <2> HIDE DEF h, r
  <2>3. CASE h = "b"
    <3>1. imm = Bits(insn, 0, 11)
      BY <2>1, <2>2, <2>3, Of_imm11 DEF Reads
    <3>2. LET o == b_offset(Bits(insn, 0, 11))
          IN -2048 <= o /\ o <= 2046 /\ o % 2 = 0 /\ insn = 57344 + Bits(o, 1, 11)
      BY <2>1, <2>2, <2>3, NearLands
    <3> QED BY <2>2, <2>3, <3>1, <3>2 DEF BranchesAsAssembled
  <2>4. CASE h = "b_c"
    <3>1. imm = Bits(insn, 0, 8) /\ ran.operands["cond"] = Bits(insn, 8, 4)
      BY <2>1, <2>2, <2>4, Of_imm8c DEF Reads
    <3>2. LET o == b_c_offset(Bits(insn, 0, 8))
          IN /\ -256 <= o /\ o <= 254 /\ o % 2 = 0
             /\ insn = 53248 + 256 * Bits(insn, 8, 4) + Bits(o, 1, 8)
      BY <2>1, <2>2, <2>4, CondLands
    <3> QED BY <2>2, <2>4, <3>1, <3>2 DEF BranchesAsAssembled
  <2>5. CASE h = "bl"
    <3>1. second \in SecondHalves
      <4>1. insn \div 1024 \in {60, 61}
        <5>1. insn \in Nat /\ insn \div 2048 = 30
          BY <2>1, <2>2, <2>5, Slices
        <5> QED BY <5>1, SMT
      <4>2. IsBL(insn)
        BY <2>1, <4>1, Slices DEF IsBL
      <4> QED BY <4>2 DEF DecodeInv, WasDecoded, Halves
    <3>2. imm = decode_bl(insn, second)["imm"]
      <4>1. second \in Half
        BY <3>1, SecondHalfRange
      <4>2. DOMAIN decode_bl(insn, second) = {"imm"}
        BY <2>1, <4>1, Of_bl
      <4> QED BY <2>2, <2>5, <4>2, SMTT(60) DEF Reads
    <3> DEFINE o == bl_offset(decode_bl(insn, second)["imm"])
    <3>3. /\ -16777216 <= o /\ o < 16777216 /\ o % 2 = 0
          /\ insn = 61440 + Bits(o, 24, 1) * 1024 + Bits(o, 12, 10)
          /\ second = 53248 + Same(Bits(o, 23, 1), Bits(o, 24, 1)) * 8192
                      + Same(Bits(o, 22, 1), Bits(o, 24, 1)) * 2048 + Bits(o, 1, 11)
      BY <2>1, <2>2, <2>5, <3>1, FarLands
    <3>4. bl_offset(imm) = o
      BY <3>2
    <3> HIDE DEF o
    <3>5. 2^24 = 16777216 /\ 2^10 = 1024 /\ 2^13 = 8192 /\ 2^11 = 2048
      BY SMT
    <3> QED BY <2>2, <2>5, <3>3, <3>4, <3>5, SMT DEF BranchesAsAssembled, Same
  <2>6. CASE h \notin {"b", "b_c", "bl"}
    BY <2>2, <2>6 DEF BranchesAsAssembled
  <2> QED BY <2>3, <2>4, <2>5, <2>6
<1> QED BY <1>1, InitInv, StepInv, PTL DEF Spec
=============================================================================
