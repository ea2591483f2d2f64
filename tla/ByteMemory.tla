---------------------------- MODULE ByteMemory ----------------------------
(***************************************************************************)
(* What the loads and stores of a program promise: a memory of bytes in    *)
(* little-endian order, in which an access of n bytes touches the n bytes  *)
(* from its address rounded down to a multiple of n, and nothing else.     *)
(* Outside the memory an access either ends the simulation or, at a        *)
(* device, loads 0 and stores nothing.                                     *)
(***************************************************************************)
EXTENDS Integers, FiniteSets

CONSTANTS
  ByteMod,   \* 256: the values of a byte
  Low,       \* the registers r0 .. r7 that loads and stores name
  SP, PC,    \* the registers these instructions read and never write
  MaxImm,    \* the largest immediate offset, in units of the access
  Memory     \* the addresses of the bytes of flash and RAM

VARIABLES gpr, bytes, exited
vars == <<gpr, bytes, exited>>

WordMod   == ByteMod * ByteMod * ByteMod * ByteMod
Word      == 0 .. WordMod - 1
Wrap(x)   == x % WordMod
Weight(k) == CASE k = 0 -> 1
               [] k = 1 -> ByteMod
               [] k = 2 -> ByteMod * ByteMod
               [] OTHER -> ByteMod * ByteMod * ByteMod
Byte(w, k)    == (w \div Weight(k)) % ByteMod
Aligned(a, n) == a - (a % n)

\* The n bytes from a, which is aligned, as a number.
Value(a, n) ==
  CASE n = 1 -> bytes[a]
    [] n = 2 -> bytes[a] + Weight(1) * bytes[a + 1]
    [] OTHER -> bytes[a] + Weight(1) * bytes[a + 1]
                + Weight(2) * bytes[a + 2] + Weight(3) * bytes[a + 3]

Modulus(n) == CASE n = 1 -> Weight(1) [] n = 2 -> Weight(2) [] OTHER -> WordMod
SignExtended(v, n) == IF v >= Modulus(n) \div 2 THEN WordMod - Modulus(n) + v ELSE v

\* The effective addresses of the instructions that access n bytes.
Indexed(n)  == {Wrap(gpr[r] + n * imm) : r \in Low, imm \in 0 .. MaxImm}
Sums        == {Wrap(gpr[r] + gpr[q]) : r \in Low, q \in Low}
Based(base) == {Wrap(base + 4 * imm) : imm \in 0 .. MaxImm}

Init ==
  /\ gpr \in [Low -> Word]
  /\ bytes \in [Memory -> 0 .. ByteMod - 1]
  /\ exited = "no"

LoadAt(r, a, n, signed) ==
  LET v == IF a \in Memory THEN Value(Aligned(a, n), n) ELSE 0
  IN /\ gpr' = [gpr EXCEPT ![r] = IF signed THEN SignExtended(v, n) ELSE v]
     /\ UNCHANGED <<bytes, exited>>

StoreAt(r, a, n) ==
  /\ bytes' = [x \in Memory |->
                 IF a \in Memory /\ Aligned(x, n) = Aligned(a, n)
                 THEN Byte(gpr[r], x % n) ELSE bytes[x]]
  /\ UNCHANGED <<gpr, exited>>

\* Word and address registers, and the zero- and sign-extending short loads.
Load ==
  \E r \in Low :
    \/ \E a \in Indexed(4) \cup Sums \cup Based(SP) \cup Based(Aligned(PC, 4)) :
         LoadAt(r, a, 4, FALSE)
    \/ \E n \in {1, 2} : \E a \in Indexed(n) \cup Sums : LoadAt(r, a, n, FALSE)
    \/ \E n \in {1, 2} : \E a \in Sums : LoadAt(r, a, n, TRUE)

Store ==
  \E r \in Low :
    \/ \E a \in Indexed(4) \cup Sums \cup Based(SP) : StoreAt(r, a, 4)
    \/ \E n \in {1, 2} : \E a \in Indexed(n) \cup Sums : StoreAt(r, a, n)

(***************************************************************************)
(* A block transfer moves the registers of its list, the lowest first, to  *)
(* or from consecutive words, and moves the base past them; a base that is *)
(* loaded keeps what was loaded.                                           *)
(***************************************************************************)
Slot(base, list, r) == Wrap(base + 4 * Cardinality({q \in list : q < r}))
After(base, list)   == Wrap(base + 4 * Cardinality(list))

LoadMany ==
  \E base \in Low, list \in SUBSET Low :
    /\ gpr' = [r \in Low |->
                 LET a == Slot(gpr[base], list, r)
                 IN CASE r \in list /\ a \in Memory    -> Value(Aligned(a, 4), 4)
                      [] r \in list /\ a \notin Memory -> 0
                      [] r \notin list /\ r = base     -> After(gpr[base], list)
                      [] OTHER                         -> gpr[r]]
    /\ UNCHANGED <<bytes, exited>>

StoreMany ==
  \E base \in Low, list \in SUBSET Low :
    /\ gpr' = [gpr EXCEPT ![base] = After(@, list)]
    /\ bytes' = [x \in Memory |->
                   LET put == {r \in list :
                                 Aligned(Slot(gpr[base], list, r), 4) = Aligned(x, 4)}
                   IN IF put = {} THEN bytes[x]
                      ELSE Byte(gpr[CHOOSE r \in put : TRUE], x % 4)]
    /\ UNCHANGED exited

\* Only an address outside the memory is refused; the form of a block store
\* may be, for reasons this memory does not know.
Accessed ==
  (UNION {Indexed(n) : n \in {1, 2, 4}}) \cup Sums
    \cup Based(SP) \cup Based(Aligned(PC, 4))
    \cup (UNION {{Slot(gpr[base], list, r) : r \in list} : base \in Low, list \in SUBSET Low})

Fail ==
  /\ \/ exited' = "range" /\ ~(Accessed \subseteq Memory)
     \/ exited' = "malformed"
  /\ UNCHANGED <<gpr, bytes>>

Next == exited = "no" /\ (Load \/ Store \/ LoadMany \/ StoreMany \/ Fail)
Spec == Init /\ [][Next]_vars
============================================================================
