------------------------------- MODULE Decode -------------------------------
(***************************************************************************)
(* From an instruction word to the handler that runs it and the operands   *)
(* the handler reads: decode (decode.c), whose table writes the global     *)
(* DECODE_RESULT, and exwbmem (exmemwb.c), whose tables select a handler   *)
(* from the same word.  Nothing but the word ties the two together, and a  *)
(* decoder leaves the fields it does not write as the last one left them   *)
(* (DECODE_CLEAR is 0): the model marks those Stale.                       *)
(*                                                                         *)
(* Every word starts a behaviour of its own.  A number holds a register    *)
(* list, bit r for register r, as in the code.                             *)
(***************************************************************************)
EXTENDS Integers

CONSTANTS
  DECODE_SAFE,  \* decode.h: set the duplicate register fields, "just in case"
  SecondHalves  \* bound: the words that follow the first half of a bl

VARIABLES phase, insn, second, decoded, ran
vars == <<phase, insn, second, decoded, ran>>

ASSUME DecodeAssumption ==
  /\ DECODE_SAFE \in BOOLEAN
  \* 11x1x: the second half of a bl and of no other 32-bit instruction
  /\ SecondHalves \subseteq Nat
  /\ \A h \in SecondHalves : \hC000 <= h /\ h <= \hFFFF /\ (h \div 4096) % 2 = 1

Insn   == 0 .. 2^16 - 1
Fields == {"rD", "rM", "rN", "imm", "cond", "reg_list"}
Stale  == -1
Bits(w, at, width) == (w \div 2^at) % 2^width

-----------------------------------------------------------------------------
(***************************************************************************)
(* The decoders: the fields each one writes.                               *)
(***************************************************************************)
\* The fields of f, and of g those that f lacks.
Over(f, g) == [x \in DOMAIN f \cup DOMAIN g |-> IF x \in DOMAIN f THEN f[x] ELSE g[x]]
Safe(fields, safe) == IF DECODE_SAFE THEN Over(fields, safe) ELSE fields

decode_3lo(w) == [rD |-> Bits(w, 0, 3), rN |-> Bits(w, 3, 3), rM |-> Bits(w, 6, 3)]

\* Mutant: relies on rN alone, although the immediate shifts read rM.
decode_2loimm5_unsafe(w) ==
  [rD |-> Bits(w, 0, 3), rN |-> Bits(w, 3, 3), imm |-> Bits(w, 6, 5)]

decode_2loimm5(w) ==
  Safe([rD |-> Bits(w, 0, 3), rN |-> Bits(w, 3, 3), imm |-> Bits(w, 6, 5)],
       [rM |-> Bits(w, 3, 3)])
decode_2loimm3(w) ==
  Safe([rD |-> Bits(w, 0, 3), rN |-> Bits(w, 3, 3), imm |-> Bits(w, 6, 3)],
       [rM |-> Bits(w, 3, 3)])
decode_2lo(w) == [rD |-> Bits(w, 0, 3), rM |-> Bits(w, 3, 3), rN |-> Bits(w, 3, 3)]
decode_imm8lo(w) ==
  Safe([rD |-> Bits(w, 8, 3), imm |-> Bits(w, 0, 8)],
       [rM |-> Bits(w, 8, 3), rN |-> Bits(w, 8, 3)])
decode_imm8(w)      == [imm |-> Bits(w, 0, 8)]
decode_imm8c(w)     == [imm |-> Bits(w, 0, 8), cond |-> Bits(w, 8, 4)]
decode_imm7(w)      == [rD |-> 13, imm |-> Bits(w, 0, 7)]
decode_imm11(w)     == [imm |-> Bits(w, 0, 11)]
decode_reglistlo(w) == [rN |-> Bits(w, 8, 3), reg_list |-> Bits(w, 0, 8)]
decode_pop(w)       == [reg_list |-> Bits(w, 8, 1) * 2^15 + Bits(w, 0, 8)]
decode_push_lr(w)   == [reg_list |-> Bits(w, 8, 1) * 2^13 + Bits(w, 0, 8)]  \* Mutant: SP for LR
decode_push(w)      == [reg_list |-> Bits(w, 8, 1) * 2^14 + Bits(w, 0, 8)]
decode_1all(w)      == [rM |-> Bits(w, 3, 4)]
decode_mov_r(w) ==
  LET rD == Bits(w, 0, 3) + 8 * Bits(w, 7, 1)
  IN [rD |-> rD, rN |-> rD, rM |-> Bits(w, 3, 4)]

\* Mutants: S without its "& 0x1"; J1 and J2 as they are.
decode_bl_wide(w, half) ==
  [imm |-> Bits(w, 10, 6) * 2^23 + Bits(w, 0, 10) * 2^11 + Bits(half, 0, 11)]
decode_bl_near(w, half) ==
  [imm |-> Bits(w, 10, 1) * 2^23 + Bits(half, 13, 1) * 2^22 + Bits(half, 11, 1) * 2^21
           + Bits(w, 0, 10) * 2^11 + Bits(half, 0, 11)]

\* half is what simLoadInsn finds behind the instruction.
decode_bl(w, half) ==
  LET S  == Bits(w, 10, 1)
      I1 == IF Bits(half, 13, 1) = S THEN 1 ELSE 0
      I2 == IF Bits(half, 11, 1) = S THEN 1 ELSE 0
  IN [imm |-> S * 2^23 + I1 * 2^22 + I2 * 2^21 + Bits(w, 0, 10) * 2^11
              + Bits(half, 0, 11)]

decode_error == [error |-> 1]

decode_17(w) == IF Bits(w, 8, 2) = 3 THEN decode_1all(w) ELSE decode_mov_r(w)
decode_44(w) ==
  CASE Bits(w, 8, 2) = 0 -> decode_imm7(w)
    [] Bits(w, 8, 2) = 2 -> decode_2lo(w)
    [] OTHER             -> decode_error
decode_47(w) ==
  CASE Bits(w, 8, 2) \in {0, 1} -> decode_pop(w)
    [] Bits(w, 8, 2) = 2        -> decode_imm8(w)
    [] OTHER                    -> decode_error

IsBL(w) == Bits(w, 10, 6) \in {60, 61}

decodeJumpTable(w, half) ==
  LET i == Bits(w, 10, 6)
  IN CASE i \in (0 .. 5) \cup (24 .. 35)            -> decode_2loimm5(w)
       [] i \in {6} \cup (20 .. 23)                 -> decode_3lo(w)
       [] i = 7                                     -> decode_2loimm3(w)
       [] i \in (8 .. 15) \cup {18, 19} \cup (36 .. 43) -> decode_imm8lo(w)
       [] i \in {16, 46}                            -> decode_2lo(w)
       [] i = 17                                    -> decode_17(w)
       [] i = 44                                    -> decode_44(w)
       [] i = 45                                    -> decode_push(w)
       [] i = 47                                    -> decode_47(w)
       [] i \in 48 .. 51                            -> decode_reglistlo(w)
       [] i \in 52 .. 55                            -> decode_imm8c(w)
       [] i \in {56, 57}                            -> decode_imm11(w)
       [] IsBL(w)                                   -> decode_bl(w, half)
       [] OTHER                                     -> decode_error

-----------------------------------------------------------------------------
(***************************************************************************)
(* The dispatch.  "error" stands for exmemwb_error, "exit" for the 0xDF01  *)
(* that ends a program.                                                    *)
(***************************************************************************)
entry6(w)  == IF Bits(w, 9, 1) = 0 THEN "adds_r"  ELSE "subs"
entry7(w)  == IF Bits(w, 9, 1) = 0 THEN "adds_i3" ELSE "subs_i3"
entry20(w) == IF Bits(w, 9, 1) = 0 THEN "str_r"   ELSE "strh_r"
entry21(w) == IF Bits(w, 9, 1) = 0 THEN "strb_r"  ELSE "ldrsb_r"
entry22(w) == IF Bits(w, 9, 1) = 0 THEN "ldr_r"   ELSE "ldrh_r"
entry23(w) == IF Bits(w, 9, 1) = 0 THEN "ldrb_r"  ELSE "ldrsh_r"
entry47(w) == IF Bits(w, 9, 1) = 0 THEN "pop"     ELSE "breakpoint"

executeJumpTable16 ==
  <<"ands", "eors", "lsls_r", "lsrs_r", "asrs_r", "adcs", "sbcs", "rors",
    "tst", "rsbs", "cmp_r", "error", "orrs", "muls", "bics", "mvns">>
entry16(w) == executeJumpTable16[Bits(w, 6, 4) + 1]

executeJumpTable17 ==
  <<"add_r", "add_r", "cmp_r", "cmp_r", "mov_r", "mov_r", "bx", "blx">>
entry17(w) == executeJumpTable17[Bits(w, 7, 3) + 1]

entry44(w) ==
  CASE Bits(w, 6, 4) \in {0, 1}  -> "add_sp"
    [] Bits(w, 6, 4) \in {2, 3}  -> "sub_sp"
    [] Bits(w, 6, 4) = 8         -> "sxth" [] Bits(w, 6, 4) = 9  -> "sxtb"
    [] Bits(w, 6, 4) = 10        -> "uxth" [] Bits(w, 6, 4) = 11 -> "uxtb"
    [] OTHER                     -> "error"
\* Mutant: looks at the lowest of the four bits only.
entry46_one_bit(w) == IF Bits(w, 6, 1) = 0 THEN "rev" ELSE "rev16"
entry46(w) ==
  CASE Bits(w, 6, 4) = 8 -> "rev" [] Bits(w, 6, 4) = 9 -> "rev16" [] OTHER -> "error"
entry55(w) ==
  CASE Bits(w, 8, 2) # 3 -> "b_c" [] w = \hDF01 -> "exit" [] OTHER -> "error"

\* Of the 64 entries, those that come in pairs, from an even index on.
Pairs ==
  <<"lsls_i", "lsrs_i", "asrs_i", "", "movs_i", "cmp_i", "adds_i8", "subs_i8", "",
    "ldr_lit", "", "", "str_i", "ldr_i", "strb_i", "ldrb_i", "strh_i", "ldrh_i",
    "str_sp", "ldr_sp", "adr", "add_sp", "", "", "stm", "ldm", "", "", "b">>

executeJumpTable(w) ==
  LET i == Bits(w, 10, 6)
  IN CASE i = 6  -> entry6(w)  [] i = 7  -> entry7(w)  [] i = 16 -> entry16(w)
       [] i = 17 -> entry17(w) [] i = 20 -> entry20(w) [] i = 21 -> entry21(w)
       [] i = 22 -> entry22(w) [] i = 23 -> entry23(w) [] i = 44 -> entry44(w)
       [] i = 46 -> entry46(w) [] i = 47 -> entry47(w) [] i = 55 -> entry55(w)
       [] i = 45 -> "push"     [] i \in 52 .. 54 -> "b_c"
       [] IsBL(w) -> "bl"      [] i \in {58, 59, 62, 63} -> "error"
       [] OTHER  -> Pairs[(i \div 2) + 1]

\* The fields of decoded that the handlers compute with.
Reads(h) ==
  CASE h \in {"adds_r", "subs", "str_r", "strh_r", "strb_r", "ldr_r", "ldrh_r",
              "ldrb_r", "ldrsb_r", "ldrsh_r"}              -> {"rD", "rN", "rM"}
    [] h \in {"adds_i3", "subs_i3", "str_i", "ldr_i", "strb_i", "ldrb_i", "strh_i",
              "ldrh_i"}                                    -> {"rD", "rN", "imm"}
    [] h \in {"lsls_i", "lsrs_i", "asrs_i"}                -> {"rD", "rM", "imm"}
    [] h \in {"movs_i", "cmp_i", "adds_i8", "subs_i8", "ldr_lit", "str_sp", "ldr_sp",
              "adr", "add_sp"}                             -> {"rD", "imm"}
    [] h = "rsbs"                                          -> {"rD", "rN"}
    [] h \in {"push", "pop"}                               -> {"reg_list"}
    [] h \in {"stm", "ldm"}                                -> {"rN", "reg_list"}
    [] h = "b_c"                                           -> {"cond", "imm"}
    [] h \in {"b", "bl", "sub_sp"}                         -> {"imm"}
    [] h \in {"bx", "blx"}                                 -> {"rM"}
    [] h \in {"breakpoint", "exit", "error"}               -> {}
    [] OTHER                                               -> {"rD", "rM"}

\* The default of b_c: two of the sixteen conditions are not branches.
Malformed(h) == h = "error" \/ (h = "b_c" /\ decoded["cond"] \in {14, 15})

signExtend32(x, n) == IF Bits(x, n - 1, 1) # 0 THEN x - 2^n ELSE x
\* How far from the prefetching PC the branches go.
b_offset(imm)   == signExtend32(imm * 2, 12)
b_c_offset(imm) == signExtend32(imm * 2, 9)
bl_offset(imm)  == signExtend32(imm * 2, 25)

-----------------------------------------------------------------------------
Init ==
  /\ phase = "fetched"
  /\ insn \in Insn
  /\ second = 0
  /\ decoded = [f \in Fields |-> Stale]
  /\ ran = [handler |-> "none", operands |-> <<>>]

decode ==
  /\ phase = "fetched"
  /\ \E half \in IF IsBL(insn) THEN SecondHalves ELSE {0} :
       LET written == decodeJumpTable(insn, half)
       IN IF written = decode_error
          THEN phase' = "exited" /\ UNCHANGED <<second, decoded>>
          ELSE /\ phase' = "decoded"
               /\ second' = half
               /\ decoded' = Over(written, decoded)
  /\ UNCHANGED <<insn, ran>>

exwbmem ==
  /\ phase = "decoded"
  /\ LET h == executeJumpTable(insn)
     IN IF Malformed(h)
        THEN phase' = "exited" /\ UNCHANGED ran
        ELSE /\ phase' = "executed"
             /\ ran' = [handler |-> h, operands |-> [f \in Reads(h) |-> decoded[f]]]
  /\ UNCHANGED <<insn, second, decoded>>

Next == decode \/ exwbmem
Spec == Init /\ [][Next]_vars

-----------------------------------------------------------------------------
(***************************************************************************)
(* The encodings of ARMv6-M, the other way around: what an assembler       *)
(* emits.  A row names an instruction, the width of its opcode and the     *)
(* opcode; a piece <<f, from, width, at>> puts the bits of operand f from  *)
(* bit from on at bit at of the word.                                      *)
(***************************************************************************)
Encodings ==
  [ShiftImm  |-> {<<"lsls_i", 5, 0>>, <<"lsrs_i", 5, 1>>, <<"asrs_i", 5, 2>>},
   ThreeLow  |-> {<<"adds_r", 7, \h0C>>, <<"subs", 7, \h0D>>,
                  <<"str_r", 7, \h28>>, <<"strh_r", 7, \h29>>, <<"strb_r", 7, \h2A>>,
                  <<"ldrsb_r", 7, \h2B>>, <<"ldr_r", 7, \h2C>>, <<"ldrh_r", 7, \h2D>>,
                  <<"ldrb_r", 7, \h2E>>, <<"ldrsh_r", 7, \h2F>>},
   SmallImm  |-> {<<"adds_i3", 7, \h0E>>, <<"subs_i3", 7, \h0F>>},
   ByteImm   |-> {<<"movs_i", 5, 4>>, <<"cmp_i", 5, 5>>, <<"adds_i8", 5, 6>>,
                  <<"subs_i8", 5, 7>>, <<"ldr_lit", 5, 9>>, <<"str_sp", 5, 18>>,
                  <<"ldr_sp", 5, 19>>, <<"adr", 5, 20>>, <<"add_sp", 5, 21>>},
   TwoLow    |-> {<<"ands", 10, \h100>>, <<"eors", 10, \h101>>, <<"lsls_r", 10, \h102>>,
                  <<"lsrs_r", 10, \h103>>, <<"asrs_r", 10, \h104>>, <<"adcs", 10, \h105>>,
                  <<"sbcs", 10, \h106>>, <<"rors", 10, \h107>>, <<"tst", 10, \h108>>,
                  <<"cmp_r", 10, \h10A>>, <<"orrs", 10, \h10C>>, <<"muls", 10, \h10D>>,
                  <<"bics", 10, \h10E>>, <<"mvns", 10, \h10F>>, <<"sxth", 10, \h2C8>>,
                  <<"sxtb", 10, \h2C9>>, <<"uxth", 10, \h2CA>>, <<"uxtb", 10, \h2CB>>,
                  <<"rev", 10, \h2E8>>, <<"rev16", 10, \h2E9>>},
   Negate    |-> {<<"rsbs", 10, \h109>>},
   AnyTwo    |-> {<<"add_r", 8, \h44>>, <<"cmp_r", 8, \h45>>, <<"mov_r", 8, \h46>>},
   AnyOne    |-> {<<"bx", 9, \h8E>>, <<"blx", 9, \h8F>>},
   Offset5   |-> {<<"str_i", 5, 12>>, <<"ldr_i", 5, 13>>, <<"strb_i", 5, 14>>,
                  <<"ldrb_i", 5, 15>>, <<"strh_i", 5, 16>>, <<"ldrh_i", 5, 17>>},
   StackImm  |-> {<<"add_sp", 9, \h160>>, <<"sub_sp", 9, \h161>>},
   PushList  |-> {<<"push", 7, \h5A>>},
   PopList   |-> {<<"pop", 7, \h5E>>},
   LowList   |-> {<<"stm", 5, 24>>, <<"ldm", 5, 25>>},
   CondImm   |-> {<<"b_c", 8, \hD0 + c>> : c \in 0 .. 13},
   Bare      |-> {<<"b", 5, 28>>, <<"bl", 5, 30>>, <<"breakpoint", 8, \hBE>>,
                  <<"exit", 16, \hDF01>>}]

Pieces(shape) ==
  CASE shape = "ShiftImm" -> {<<"rD", 0, 3, 0>>, <<"rM", 0, 3, 3>>, <<"imm", 0, 5, 6>>}
    [] shape = "ThreeLow" -> {<<"rD", 0, 3, 0>>, <<"rN", 0, 3, 3>>, <<"rM", 0, 3, 6>>}
    [] shape = "SmallImm" -> {<<"rD", 0, 3, 0>>, <<"rN", 0, 3, 3>>, <<"imm", 0, 3, 6>>}
    [] shape = "ByteImm"  -> {<<"rD", 0, 3, 8>>, <<"imm", 0, 8, 0>>}
    [] shape = "TwoLow"   -> {<<"rD", 0, 3, 0>>, <<"rM", 0, 3, 3>>}
    [] shape = "Negate"   -> {<<"rD", 0, 3, 0>>, <<"rN", 0, 3, 3>>}
    [] shape = "AnyTwo"   -> {<<"rD", 0, 3, 0>>, <<"rD", 3, 1, 7>>, <<"rM", 0, 4, 3>>}
    [] shape = "AnyOne"   -> {<<"rM", 0, 4, 3>>}
    [] shape = "Offset5"  -> {<<"rD", 0, 3, 0>>, <<"rN", 0, 3, 3>>, <<"imm", 0, 5, 6>>}
    [] shape = "StackImm" -> {<<"imm", 0, 7, 0>>}
    [] shape = "PushList" -> {<<"reg_list", 0, 8, 0>>, <<"reg_list", 14, 1, 8>>}
    [] shape = "PopList"  -> {<<"reg_list", 0, 8, 0>>, <<"reg_list", 15, 1, 8>>}
    [] shape = "LowList"  -> {<<"rN", 0, 3, 8>>, <<"reg_list", 0, 8, 0>>}
    [] shape = "CondImm"  -> {<<"cond", 0, 4, 8>>, <<"imm", 0, 8, 0>>}
    [] OTHER              -> {}

\* What the assembler was asked for when it emitted w: at most one of these.
Meanings(w) ==
  UNION {{[handler |-> e[1], pieces |-> Pieces(shape)] :
            e \in {e \in Encodings[shape] : w \div 2^(16 - e[2]) = e[3]}} :
         shape \in DOMAIN Encodings}

-----------------------------------------------------------------------------
\* The machine stays in its phases, with every field either stale or a number.
TypeOK ==
  /\ phase \in {"fetched", "decoded", "executed", "exited"}
  /\ insn \in Insn /\ second \in SecondHalves \cup {0}
  /\ \A f \in Fields : decoded[f] \in Stale .. 2^24 - 1
  /\ phase = "executed" => DOMAIN ran.operands = Reads(ran.handler)

\* No handler computes with what an earlier instruction left in decoded: the
\* decoder that the first table picked wrote every field that the handler the
\* second table picks will read (decode.h:6, DECODE_CLEAR).
NoStaleOperand ==
  phase = "executed" => \A f \in DOMAIN ran.operands : ran.operands[f] # Stale

\* The two jump tables agree with the instruction set: a word that an assembler
\* emits runs as the instruction it was emitted for, with every bit of every
\* operand where it was put, and never ends the simulation.
RunsAsAssembled ==
  \A m \in Meanings(insn) :
    /\ phase # "exited"
    /\ phase = "executed" =>
         /\ ran.handler = m.handler
         /\ \A p \in m.pieces :
              Bits(ran.operands[p[1]], p[2], p[3]) = Bits(insn, p[4], p[3])
         /\ insn \div 128 = \h160 => ran.operands["rD"] = 13  \* add_sp to SP

\* A branch goes where its assembler was told to: encoding the distance that
\* the handler adds to the PC gives the instruction words back, and the distance
\* is even and within the reach of the encoding, forwards and backwards.
BranchesAsAssembled ==
  LET imm == ran.operands["imm"]
      J(o, at) == IF Bits(o, at, 1) = Bits(o, 24, 1) THEN 1 ELSE 0
  IN phase = "executed" =>
       CASE ran.handler = "b" ->
              \E o \in {b_offset(imm)} :
                /\ -2048 <= o /\ o <= 2046 /\ o % 2 = 0
                /\ insn = \hE000 + Bits(o, 1, 11)
         [] ran.handler = "b_c" ->
              \E o \in {b_c_offset(imm)} :
                /\ -256 <= o /\ o <= 254 /\ o % 2 = 0
                /\ insn = \hD000 + 256 * ran.operands["cond"] + Bits(o, 1, 8)
         [] ran.handler = "bl" ->
              \E o \in {bl_offset(imm)} :
                /\ -2^24 <= o /\ o < 2^24 /\ o % 2 = 0
                /\ insn = \hF000 + Bits(o, 24, 1) * 2^10 + Bits(o, 12, 10)
                /\ second = \hD000 + J(o, 23) * 2^13 + J(o, 22) * 2^11 + Bits(o, 1, 11)
         [] OTHER -> TRUE

\* A word that is no instruction ends the simulation in one of the two stages
\* and runs nothing, with one exception: all of 0xB600-0xB7FF (CPS and undefined
\* words) runs as push, because index 45 of both tables looks at no more bits.
MalformedExits ==
  phase = "executed" /\ Meanings(insn) = {} =>
    ran.handler = "push" /\ Bits(insn, 9, 7) = \h5B
=============================================================================
