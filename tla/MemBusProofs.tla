---------------------------- MODULE MemBusProofs ----------------------------
(***************************************************************************)
(* The loads and stores of MemBus keep words words, and implement the byte *)
(* memory of ByteMemory.                                                   *)
(***************************************************************************)
EXTENDS MemBus, FiniteSetTheorems, TLAPS

-----------------------------------------------------------------------------
(***************************************************************************)
(* A word and its four bytes.                                              *)
(***************************************************************************)
Byte == 0 .. ByteMod - 1
ByteAt(w, k) == (w \div Weight(k)) % ByteMod

LEMMA Weights ==
  /\ Weight(0) = 1 /\ Weight(1) = ByteMod /\ Weight(2) = ByteMod * ByteMod
  /\ Weight(3) = ByteMod * ByteMod * ByteMod
  /\ WordMod = ByteMod * ByteMod * ByteMod * ByteMod
BY DEF Weight, WordMod

LEMMA Sizes ==
  /\ ByteMod \in Nat \ {0, 1} /\ Weight(2) \in Nat \ {0} /\ Weight(3) \in Nat \ {0}
  /\ Weight(2) = ByteMod * ByteMod /\ Weight(3) = ByteMod * Weight(2)
  /\ WordMod = ByteMod * Weight(3) /\ WordMod \in Nat
  /\ WordMod % 4 = 0 /\ WordMod >= 16
<1>1. CASE ByteMod = 2 BY <1>1, Weights
<1>2. CASE ByteMod = 4 BY <1>2, Weights
<1>3. CASE ByteMod = 16 BY <1>3, Weights
<1>4. CASE ByteMod = 256 BY <1>4, Weights
<1> QED BY <1>1, <1>2, <1>3, <1>4, MemBusAssumption

\* Division of what was multiplied.
LEMMA Divides ==
  \A b \in Nat \ {0} : \A q \in Int : \A r \in 0 .. b - 1 :
    (b * q + r) \div b = q /\ (b * q + r) % b = r
OBVIOUS

\* Bytes make up a word, and can be told from it.
LEMMA BytesUnique ==
  ASSUME NEW a \in Byte, NEW b \in Byte, NEW c \in Byte, NEW d \in Byte, NEW w,
         w = a + ByteMod * b + Weight(2) * c + Weight(3) * d
  PROVE  /\ w \in Word
         /\ ByteAt(w, 0) = a /\ ByteAt(w, 1) = b /\ ByteAt(w, 2) = c /\ ByteAt(w, 3) = d
<1> DEFINE B == ByteMod
           P == Weight(2)
           Q == Weight(3)
<1>1. /\ B \in Nat \ {0} /\ P \in Nat \ {0} /\ Q \in Nat \ {0}
      /\ P = B * B /\ Q = B * P /\ WordMod = B * Q
  BY Sizes
<1>2. a \in 0 .. B - 1 /\ b \in 0 .. B - 1 /\ c \in 0 .. B - 1 /\ d \in 0 .. B - 1
  BY DEF Byte
<1>3. w = a + B * b + P * c + Q * d
  OBVIOUS
<1>4. /\ ByteAt(w, 0) = (w \div 1) % B /\ ByteAt(w, 1) = (w \div B) % B
      /\ ByteAt(w, 2) = (w \div P) % B /\ ByteAt(w, 3) = (w \div Q) % B
  BY Weights DEF ByteAt
<1> HIDE DEF B, P, Q
<1>5. a + B * b \in 0 .. P - 1
  <2>1. B * b \in Nat /\ B * b <= P - B
    BY <1>1, <1>2
  <2> QED BY <1>1, <1>2, <2>1
<1>6. a + B * b + P * c \in 0 .. Q - 1
  <2>1. P * c \in Nat /\ P * c <= P * (B - 1) /\ P * (B - 1) = Q - P
    BY <1>1, <1>2
  <2> QED BY <1>1, <1>2, <1>5, <2>1
<1>7. Q * d \in Nat /\ Q * d <= Q * (B - 1) /\ Q * (B - 1) = WordMod - Q
  BY <1>1, <1>2
<1>8. w \in Nat /\ w < WordMod /\ WordMod \in Nat
  BY <1>1, <1>3, <1>6, <1>7
<1>9. w % B = a /\ (w \div B) % B = b
  <2>1. /\ w = B * (b + B * (c + B * d)) + a
        /\ b + B * (c + B * d) \in Int /\ c + B * d \in Int
    BY <1>1, <1>2, <1>3
  <2>2. w % B = a /\ w \div B = b + B * (c + B * d)
    BY <1>1, <1>2, <2>1, Divides
  <2>3. (B * (c + B * d) + b) % B = b
    BY <1>1, <1>2, <2>1, Divides
  <2> QED BY <1>1, <1>2, <2>1, <2>2, <2>3
<1>10. (w \div P) % B = c
  <2>1. w = P * (c + B * d) + (a + B * b) /\ c + B * d \in Int
    BY <1>1, <1>2, <1>3
  <2>2. w \div P = c + B * d
    BY <1>1, <1>5, <2>1, Divides
  <2>3. (B * d + c) % B = c
    <3>1. d \in Int
      BY <1>1, <1>2
    <3> QED BY <1>1, <1>2, <3>1, Divides
  <2> QED BY <1>1, <1>2, <2>2, <2>3
<1>11. (w \div Q) % B = d
  <2>1. w = Q * d + (a + B * b + P * c)
    BY <1>1, <1>2, <1>3, <1>6, <1>7
  <2>2. w \div Q = d
    <3>1. d \in Int
      BY <1>1, <1>2
    <3>2. (Q * d + (a + B * b + P * c)) \div Q = d
      BY <1>1, <1>6, <3>1, Divides
    <3> QED BY <2>1, <3>2
  <2> QED BY <1>1, <1>2, <2>2
<1>12. w \div 1 = w
  BY <1>8
<1> QED BY <1>4, <1>8, <1>9, <1>10, <1>11, <1>12 DEF Word

\* What is left when the lowest byte is taken off.
LEMMA Peeled ==
  \A b \in Nat \ {0} : \A x \in Nat, m \in Nat :
    x < b * m => /\ x % b \in 0 .. b - 1 /\ x \div b \in Nat /\ x \div b < m
                 /\ x = b * (x \div b) + (x % b)
<1> SUFFICES ASSUME NEW b \in Nat \ {0}, NEW x \in Nat, NEW m \in Nat, x < b * m
             PROVE  /\ x % b \in 0 .. b - 1 /\ x \div b \in Nat /\ x \div b < m
                    /\ x = b * (x \div b) + (x % b)
  OBVIOUS
<1> DEFINE y == x \div b
           z == x % b
<1>1. y \in Nat /\ z \in 0 .. b - 1 /\ x = b * y + z
  OBVIOUS
<1> HIDE DEF y, z
<1>2. y < m
  <2> SUFFICES ASSUME y >= m PROVE FALSE
    BY <1>1
  <2>1. b * (y - m) >= 0 /\ b * (y - m) = b * y - b * m
    BY <1>1
  <2> QED BY <1>1, <2>1
<1> QED BY <1>1, <1>2 DEF y, z

\* Every word is made up of its four bytes.
LEMMA HasBytes ==
  ASSUME NEW w \in Word
  PROVE  /\ \A k \in 0 .. 3 : ByteAt(w, k) \in Byte
         /\ w = ByteAt(w, 0) + ByteMod * ByteAt(w, 1) + Weight(2) * ByteAt(w, 2)
                + Weight(3) * ByteAt(w, 3)
<1> DEFINE B == ByteMod
           u == w \div B
           v == u \div B
           d == v \div B
           a == w % B
           b == u % B
           c == v % B
<1>1. B \in Nat \ {0} /\ w \in Nat /\ w < B * (B * (B * B))
  BY Sizes DEF Word
<1>2. \A x \in Nat, m \in Nat : x < B * m => /\ x % B \in 0 .. B - 1
                                             /\ x \div B \in Nat /\ x \div B < m
                                             /\ x = B * (x \div B) + (x % B)
  BY <1>1, Peeled
<1>3. B * B \in Nat /\ B * (B * B) \in Nat
  BY <1>1
<1>4. a \in 0 .. B - 1 /\ u \in Nat /\ u < B * (B * B) /\ w = B * u + a
  BY <1>1, <1>2, <1>3
<1>5. b \in 0 .. B - 1 /\ v \in Nat /\ v < B * B /\ u = B * v + b
  <2> HIDE DEF u, a
  <2> QED BY <1>1, <1>2, <1>3, <1>4
<1>6. c \in 0 .. B - 1 /\ d \in Nat /\ d < B /\ v = B * d + c
  BY <1>1, <1>2, <1>5
<1>7. a \in Byte /\ b \in Byte /\ c \in Byte /\ d \in Byte
  BY <1>1, <1>4, <1>5, <1>6 DEF Byte
<1>8. Weight(2) = B * B /\ Weight(3) = B * (B * B)
  BY Sizes
<1>9. w = a + B * b + Weight(2) * c + Weight(3) * d
  <2> HIDE DEF a, b, c, d, u, v, B
  <2>1. w = B * (B * (B * d + c) + b) + a
    BY <1>4, <1>5, <1>6
  <2> QED BY <1>1, <1>4, <1>5, <1>6, <1>8, <2>1
<1> HIDE DEF a, b, c, d, u, v
<1>10. /\ ByteAt(w, 0) = a /\ ByteAt(w, 1) = b /\ ByteAt(w, 2) = c /\ ByteAt(w, 3) = d
  BY <1>7, <1>9, BytesUnique
<1> QED BY <1>7, <1>9, <1>10

-----------------------------------------------------------------------------
(***************************************************************************)
(* Selecting and merging lanes.                                            *)
(***************************************************************************)
HalfLane(ea) == IF ea % 4 >= 2 THEN 2 ELSE 0

LEMMA Selected ==
  ASSUME NEW w \in Word, NEW ea \in Nat
  PROVE  /\ SelectByte(w, ea) = ByteAt(w, ea % 4)
         /\ SelectHalf(w, ea) = ByteAt(w, HalfLane(ea)) + ByteMod * ByteAt(w, HalfLane(ea) + 1)
         /\ SelectByte(w, ea) \in 0 .. ByteMod - 1
         /\ SelectHalf(w, ea) \in 0 .. Weight(2) - 1
<1> DEFINE B == ByteMod
           P == Weight(2)
           a == ByteAt(w, 0)
           b == ByteAt(w, 1)
           c == ByteAt(w, 2)
           d == ByteAt(w, 3)
<1>1. /\ B \in Nat \ {0} /\ P \in Nat \ {0} /\ Weight(3) = B * P /\ P = B * B
      /\ Weight(0) = 1
  BY Sizes, Weights
<1>2. /\ a \in 0 .. B - 1 /\ b \in 0 .. B - 1 /\ c \in 0 .. B - 1 /\ d \in 0 .. B - 1
      /\ w = a + B * b + P * c + Weight(3) * d
  BY HasBytes DEF Byte
<1>3. SelectByte(w, ea) = ByteAt(w, ea % 4) /\ ea % 4 \in 0 .. 3
  BY DEF SelectByte, ByteAt
<1>4. SelectByte(w, ea) \in 0 .. B - 1
  BY <1>3, HasBytes DEF Byte
<1>5. SelectHalf(w, ea) = (w \div Weight(HalfLane(ea))) % P
  BY DEF SelectHalf, HalfLane
<1> HIDE DEF B, P, a, b, c, d
<1>6. a + B * b \in 0 .. P - 1 /\ c + B * d \in 0 .. P - 1
  <2>1. B * b \in Nat /\ B * b <= P - B /\ B * d \in Nat /\ B * d <= P - B
    BY <1>1, <1>2
  <2> QED BY <1>1, <1>2, <2>1
<1>7. w = P * (c + B * d) + (a + B * b)
  BY <1>1, <1>2
<1>8. w \div P = c + B * d /\ w % P = a + B * b
  <2>1. c + B * d \in Int
    BY <1>6
  <2>2. /\ (P * (c + B * d) + (a + B * b)) \div P = c + B * d
        /\ (P * (c + B * d) + (a + B * b)) % P = a + B * b
    BY <1>1, <1>6, <2>1, Divides
  <2> QED BY <1>7, <2>2
<1>9. (w \div 1) % P = a + B * b
  <2>1. w \div 1 = w
    BY <1>2
  <2> QED BY <1>8, <2>1
<1>10. (w \div P) % P = c + B * d
  <2>2. (P * 0 + (c + B * d)) % P = c + B * d
    BY <1>1, <1>6, Divides, SMTT(30)
  <2> QED BY <1>1, <1>6, <1>8, <2>2
<1>11. CASE HalfLane(ea) = 0
  BY <1>1, <1>3, <1>4, <1>5, <1>6, <1>9, <1>11 DEF a, b, B, P
<1>12. CASE HalfLane(ea) = 2
  BY <1>1, <1>3, <1>4, <1>5, <1>6, <1>10, <1>12 DEF c, d, B, P
<1> QED BY <1>11, <1>12 DEF HalfLane

LEMMA MergedByte ==
  ASSUME NEW w \in Word, NEW ea \in Nat, NEW data \in Word
  PROVE  /\ MergeByte(w, ea, data) \in Word
         /\ \A k \in 0 .. 3 : ByteAt(MergeByte(w, ea, data), k)
                                = IF k = ea % 4 THEN ByteAt(data, 0) ELSE ByteAt(w, k)
<1> DEFINE m == MergeByte(w, ea, data)
           z == ByteAt(data, 0)
           a == ByteAt(w, 0)
           b == ByteAt(w, 1)
           c == ByteAt(w, 2)
           d == ByteAt(w, 3)
<1>1. ByteMod \in Nat \ {0} /\ Weight(2) \in Nat \ {0} /\ Weight(3) \in Nat \ {0}
  BY Sizes
<1>2. /\ a \in Byte /\ b \in Byte /\ c \in Byte /\ d \in Byte /\ z \in Byte
      /\ w = a + ByteMod * b + Weight(2) * c + Weight(3) * d
  BY HasBytes
<1>3. z = data % ByteMod
  BY Weights, <1>1 DEF ByteAt, Word
<1>4. m = w - ByteAt(w, ea % 4) * Weight(ea % 4) + z * Weight(ea % 4) /\ ea % 4 \in 0 .. 3
  BY <1>3 DEF MergeByte, SelectByte, ByteAt
<1>5. \A x \in Byte : x \in Int
  BY <1>1 DEF Byte
<1> HIDE DEF m, z, a, b, c, d
<1>6. CASE ea % 4 = 0
  <2>1. m = z + ByteMod * b + Weight(2) * c + Weight(3) * d
    BY <1>1, <1>2, <1>4, <1>5, <1>6, Weights DEF a
  <2> QED BY <1>2, <1>6, <2>1, BytesUnique DEF m, z, b, c, d
<1>7. CASE ea % 4 = 1
  <2>1. m = a + ByteMod * z + Weight(2) * c + Weight(3) * d
    BY <1>1, <1>2, <1>4, <1>5, <1>7, Weights DEF b
  <2> QED BY <1>2, <1>7, <2>1, BytesUnique DEF m, z, a, c, d
<1>8. CASE ea % 4 = 2
  <2>1. m = a + ByteMod * b + Weight(2) * z + Weight(3) * d
    BY <1>1, <1>2, <1>4, <1>5, <1>8 DEF c
  <2> QED BY <1>2, <1>8, <2>1, BytesUnique DEF m, z, a, b, d
<1>9. CASE ea % 4 = 3
  <2>1. m = a + ByteMod * b + Weight(2) * c + Weight(3) * z
    BY <1>1, <1>2, <1>4, <1>5, <1>9 DEF d
  <2> QED BY <1>2, <1>9, <2>1, BytesUnique DEF m, z, a, b, c
<1> QED BY <1>4, <1>6, <1>7, <1>8, <1>9

LEMMA MergedHalf ==
  ASSUME NEW w \in Word, NEW ea \in Nat, NEW data \in Word
  PROVE  /\ MergeHalf(w, ea, data) \in Word
         /\ \A k \in 0 .. 3 : ByteAt(MergeHalf(w, ea, data), k)
                                = IF k \in HalfLane(ea) .. HalfLane(ea) + 1
                                  THEN ByteAt(data, k - HalfLane(ea)) ELSE ByteAt(w, k)
<1> DEFINE m == MergeHalf(w, ea, data)
           y == ByteAt(data, 0)
           z == ByteAt(data, 1)
           a == ByteAt(w, 0)
           b == ByteAt(w, 1)
           c == ByteAt(w, 2)
           d == ByteAt(w, 3)
<1>1. /\ ByteMod \in Nat \ {0} /\ Weight(2) \in Nat \ {0} /\ Weight(3) \in Nat \ {0}
      /\ Weight(0) = 1 /\ Weight(3) = ByteMod * Weight(2)
  BY Sizes, Weights
<1>2. /\ a \in Byte /\ b \in Byte /\ c \in Byte /\ d \in Byte /\ y \in Byte /\ z \in Byte
      /\ w = a + ByteMod * b + Weight(2) * c + Weight(3) * d
  BY HasBytes
<1>3. data % Weight(2) = y + ByteMod * z
  <2>1. SelectHalf(data, 0) = y + ByteMod * z
    BY Selected DEF HalfLane
  <2>2. SelectHalf(data, 0) = (data \div 1) % Weight(2) /\ data \div 1 = data
    BY <1>1 DEF SelectHalf, Word
  <2> QED BY <2>1, <2>2
<1>4. m = w - (ByteAt(w, HalfLane(ea)) + ByteMod * ByteAt(w, HalfLane(ea) + 1)) * Weight(HalfLane(ea))
            + (y + ByteMod * z) * Weight(HalfLane(ea))
  BY <1>3, Selected DEF MergeHalf, HalfLane
<1>5. \A x \in Byte : x \in Int
  BY <1>1 DEF Byte
<1> HIDE DEF m, y, z, a, b, c, d
<1>6. CASE HalfLane(ea) = 0
  <2>1. m = y + ByteMod * z + Weight(2) * c + Weight(3) * d
    BY <1>1, <1>2, <1>4, <1>5, <1>6 DEF a, b
  <2>2. m \in Word /\ ByteAt(m, 0) = y /\ ByteAt(m, 1) = z /\ ByteAt(m, 2) = c /\ ByteAt(m, 3) = d
    BY <1>2, <2>1, BytesUnique
  <2> QED BY <1>6, <2>2 DEF m, y, z, c, d
<1>7. CASE HalfLane(ea) = 2
  <2>1. m = a + ByteMod * b + Weight(2) * y + Weight(3) * z
    BY <1>1, <1>2, <1>4, <1>5, <1>7 DEF c, d
  <2>2. m \in Word /\ ByteAt(m, 0) = a /\ ByteAt(m, 1) = b /\ ByteAt(m, 2) = y /\ ByteAt(m, 3) = z
    BY <1>2, <2>1, BytesUnique
  <2> QED BY <1>7, <2>2 DEF m, y, z, a, b
<1> QED BY <1>6, <1>7 DEF HalfLane

-----------------------------------------------------------------------------
(***************************************************************************)
(* Addresses, and the bytes that the words of the bus amount to.           *)
(***************************************************************************)
LEMMA Addresses ==
  /\ Memory \subseteq Word /\ UART \in Word /\ UART \notin Memory /\ WordAddr(UART) = UART
  /\ \A x \in Nat : /\ WordAddr(x) \in Nat /\ WordAddr(WordAddr(x)) = WordAddr(x)
                    /\ x % 4 \in 0 .. 3 /\ x = WordAddr(x) + (x % 4)
                    /\ WordAddr(x) % 4 = 0
                    /\ x \in Memory => WordAddr(x) \in Words
                    /\ WordAddr(x) \in Memory => x \in Memory
  /\ \A x \in Words : \A k \in 0 .. 3 :
       x + k \in Memory /\ WordAddr(x + k) = x /\ (x + k) % 4 = k
<1>1. /\ FLASH_SIZE \in Nat /\ RAM_START \in Nat /\ RAM_SIZE \in Nat /\ UART \in Nat
      /\ FLASH_SIZE % 4 = 0 /\ RAM_START % 4 = 0 /\ RAM_SIZE % 4 = 0 /\ UART % 4 = 0
      /\ FLASH_SIZE <= RAM_START /\ RAM_START + RAM_SIZE <= UART /\ UART \in Word
      /\ WordMod \in Nat /\ UART < WordMod
  BY MemBusAssumption, Sizes DEF Word
<1>2. \A x : x \in Memory <=> /\ x \in Nat
                              /\ \/ x < FLASH_SIZE
                                 \/ RAM_START <= x /\ x < RAM_START + RAM_SIZE
  BY <1>1 DEF Memory, Flash, Ram
<1>3. Memory \subseteq Word /\ UART \notin Memory /\ WordAddr(UART) = UART
  BY <1>1, <1>2 DEF Word, WordAddr
<1>4. ASSUME NEW x \in Nat
      PROVE  /\ WordAddr(x) \in Nat /\ WordAddr(WordAddr(x)) = WordAddr(x)
             /\ x % 4 \in 0 .. 3 /\ x = WordAddr(x) + (x % 4)
             /\ WordAddr(x) % 4 = 0
             /\ x \in Memory => WordAddr(x) \in Words
             /\ WordAddr(x) \in Memory => x \in Memory
  <2>1. /\ WordAddr(x) \in Nat /\ WordAddr(WordAddr(x)) = WordAddr(x)
        /\ x % 4 \in 0 .. 3 /\ x = WordAddr(x) + (x % 4) /\ WordAddr(x) % 4 = 0
    BY DEF WordAddr
  <2>2. x \in Memory => WordAddr(x) \in Memory
    BY <1>1, <1>2, <2>1
  <2>3. WordAddr(x) \in Memory => x \in Memory
    BY <1>1, <1>2, <2>1
  <2> QED BY <2>1, <2>2, <2>3 DEF Words
<1>5. ASSUME NEW x \in Words, NEW k \in 0 .. 3
      PROVE  x + k \in Memory /\ WordAddr(x + k) = x /\ (x + k) % 4 = k
  <2>1. x \in Memory /\ x \in Nat /\ x % 4 = 0
    BY <1>2 DEF Words
  <2>2. (x + k) % 4 = k
    BY <2>1
  <2> QED BY <1>4, <2>1, <2>2 DEF WordAddr
<1> QED BY <1>1, <1>3, <1>4, <1>5

Seen == [x \in Memory |-> (mem[WordAddr(x)] \div Weight(x % 4)) % ByteMod]

\* What ByteMemory loads from an address.
Found(a, n) == IF a \in Memory THEN Bytes!Value(Bytes!Aligned(a, n), n) ELSE 0

LEMMA Instance ==
  /\ Bytes!WordMod = WordMod /\ Bytes!Word = Word
  /\ \A k : Bytes!Weight(k) = Weight(k)
  /\ \A x : Bytes!Wrap(x) = Wrap(x)
  /\ \A w, k : Bytes!Byte(w, k) = ByteAt(w, k)
  /\ \A x : Bytes!Aligned(x, 4) = WordAddr(x)
  /\ \A x \in Nat : /\ Bytes!Aligned(x, 1) = x
                    /\ Bytes!Aligned(x, 2) = WordAddr(x) + HalfLane(x)
<1>1. \A x \in Nat : Bytes!Aligned(x, 1) = x /\ Bytes!Aligned(x, 2) = WordAddr(x) + HalfLane(x)
  BY DEF Bytes!Aligned, WordAddr, HalfLane
<1> QED
  BY <1>1 DEF Bytes!WordMod, WordMod, Bytes!Word, Word, Bytes!Weight, Weight, Bytes!Wrap, Wrap,
              Bytes!Byte, ByteAt, Bytes!Aligned, WordAddr

LEMMA BlockInstance ==
  /\ \A b, list, r : Bytes!Slot(b, list, r) = Slot(b, list, r)
  /\ \A b, list : Bytes!After(b, list) = After(b, list)
<1>1. ASSUME NEW b, NEW list, NEW r
      PROVE  Bytes!Slot(b, list, r) = Slot(b, list, r)
  BY Zenon DEF Bytes!Slot, Slot, Bytes!Wrap, Wrap, Bytes!WordMod, WordMod,
                Bytes!Cardinality, Cardinality, Bytes!IsFiniteSet, IsFiniteSet
<1>2. ASSUME NEW b, NEW list
      PROVE  Bytes!After(b, list) = After(b, list)
  BY Zenon DEF Bytes!After, After, Bytes!Wrap, Wrap, Bytes!WordMod, WordMod,
                Bytes!Cardinality, Cardinality, Bytes!IsFiniteSet, IsFiniteSet
<1> QED BY <1>1, <1>2

LEMMA Values ==
  \A x : /\ Bytes!Value(x, 1) = Seen[x]
         /\ Bytes!Value(x, 2) = Seen[x] + Weight(1) * Seen[x + 1]
         /\ Bytes!Value(x, 4) = Seen[x] + Weight(1) * Seen[x + 1] + Weight(2) * Seen[x + 2]
                                + Weight(3) * Seen[x + 3]
<1>1. \A k : Bytes!Weight(k) = Weight(k)
  BY Instance
<1>2. Seen = [x \in Memory |-> (mem[WordAddr(x)] \div Weight(x % 4)) % ByteMod]
  BY DEF Seen
<1> HIDE DEF Seen
<1> QED BY <1>1, <1>2 DEF Bytes!Value

LEMMA SeenBytes ==
  ASSUME TypeOK
  PROVE  /\ \A x \in Memory : Seen[x] = ByteAt(mem[WordAddr(x)], x % 4)
         /\ \A x \in Words : \A k \in 0 .. 3 : Seen[x + k] = ByteAt(mem[x], k)
         /\ \A x \in Words : mem[x] \in Word
BY Addresses DEF Seen, ByteAt, TypeOK

LEMMA LoadsFind ==
  ASSUME TypeOK, NEW ea \in Nat
  PROVE  /\ Readable(ea) => simLoadData(ea) = Found(ea, 4)
         /\ Readable(WordAddr(ea)) =>
              /\ simLoadData(WordAddr(ea)) \in Word
              /\ SelectByte(simLoadData(WordAddr(ea)), ea) = Found(ea, 1)
              /\ SelectHalf(simLoadData(WordAddr(ea)), ea) = Found(ea, 2)
         /\ Found(ea, 4) \in Word /\ Found(ea, 1) \in 0 .. ByteMod - 1
         /\ Found(ea, 2) \in 0 .. Weight(2) - 1
<1> DEFINE a == WordAddr(ea)
<1>1. /\ a \in Nat /\ WordAddr(a) = a /\ ea % 4 \in 0 .. 3 /\ ea = a + (ea % 4)
      /\ ea \in Memory <=> a \in Words
      /\ a \in Memory <=> a \in Words
  BY Addresses DEF Words
<1>2. 0 \in Word /\ 0 \in 0 .. ByteMod - 1 /\ 0 \in 0 .. Weight(2) - 1
  BY Sizes DEF Word
<1>3. CASE a \in Words
  <2>1. mem[a] \in Word
    BY <1>3, SeenBytes
  <2>2. Found(ea, 4) = mem[a]
    <3>1. Found(ea, 4) = Seen[a] + Weight(1) * Seen[a + 1] + Weight(2) * Seen[a + 2]
                         + Weight(3) * Seen[a + 3]
      BY <1>1, <1>3, Instance, Values DEF Found
    <3>2. Seen[a] = ByteAt(mem[a], 0)
      BY <1>1, <1>3, SeenBytes, 0 \in 0 .. 3
    <3> QED BY <1>3, <2>1, <3>1, <3>2, SeenBytes, HasBytes, Weights
  <2>3. Found(ea, 2) = SelectHalf(mem[a], ea)
    <3>1. /\ HalfLane(ea) \in 0 .. 3 /\ HalfLane(ea) + 1 \in 0 .. 3
          /\ a + HalfLane(ea) + 1 = a + (HalfLane(ea) + 1)
      BY <1>1 DEF HalfLane
    <3>2. Found(ea, 2) = Seen[a + HalfLane(ea)] + Weight(1) * Seen[a + HalfLane(ea) + 1]
      BY <1>1, <1>3, Instance, Values DEF Found
    <3> QED BY <1>3, <2>1, <3>1, <3>2, SeenBytes, Selected, Weights
  <2>4. Found(ea, 1) = SelectByte(mem[a], ea)
    <3>1. Found(ea, 1) = Seen[ea]
      BY <1>1, <1>3, Instance, Values DEF Found
    <3> QED BY <1>1, <1>3, <2>1, <3>1, SeenBytes, Selected
  <2>5. simLoadData(a) = mem[a] /\ simLoadData(ea) = mem[a]
    BY <1>1, <1>3, Addresses DEF simLoadData, Words
  <2> QED BY <1>1, <2>1, <2>2, <2>3, <2>4, <2>5, Selected
<1>4. CASE a \notin Words
  <2>1. Found(ea, 4) = 0 /\ Found(ea, 2) = 0 /\ Found(ea, 1) = 0
    BY <1>1, <1>4 DEF Found
  <2>2. Readable(a) => simLoadData(a) = 0
    BY <1>1, <1>4 DEF Readable, simLoadData
  <2>3. Readable(ea) => simLoadData(ea) = 0
    BY <1>1, <1>4 DEF Readable, simLoadData
  <2>4. SelectByte(0, ea) = 0 /\ SelectHalf(0, ea) = 0
    <3>1. \A m \in {1, 2, 4, 8, 16, 64, 256, 4096, 65536, 16777216} : 0 \div m = 0 /\ 0 % m = 0
      OBVIOUS
    <3> QED BY <3>1, MemBusAssumption DEF SelectByte, SelectHalf, Weight
  <2> QED BY <1>2, <2>1, <2>2, <2>3, <2>4
<1> QED BY <1>3, <1>4

-----------------------------------------------------------------------------
(***************************************************************************)
(* The loads and stores of one register.  A handler either does what       *)
(* ByteMemory does or refuses an address outside the memory.               *)
(***************************************************************************)
Typed ==
  /\ gpr' \in [Low -> Word]
  /\ mem' \in [Words -> Word]
  /\ exited' \in {"no", "range", "malformed"}
Refused(ea) == exited' = "range" /\ ea \notin Memory /\ UNCHANGED <<gpr, mem>>

LEMMA SignExtends ==
  /\ \A v \in 0 .. ByteMod - 1 : /\ signExtend32(v, ByteMod) \in Word
                                 /\ Bytes!SignExtended(v, 1) = signExtend32(v, ByteMod)
  /\ \A v \in 0 .. Weight(2) - 1 : /\ signExtend32(v, Weight(2)) \in Word
                                   /\ Bytes!SignExtended(v, 2) = signExtend32(v, Weight(2))
<1>1. Bytes!Modulus(1) = ByteMod /\ Bytes!Modulus(2) = Weight(2) /\ Bytes!WordMod = WordMod
  BY Instance, Weights DEF Bytes!Modulus
<1>2. \A m \in Nat \ {0} : m <= WordMod =>
        \A v \in 0 .. m - 1 : signExtend32(v, m) \in Word
  BY Sizes DEF signExtend32, Word
<1>3. ByteMod <= WordMod /\ Weight(2) <= WordMod /\ ByteMod \in Nat \ {0} /\ Weight(2) \in Nat \ {0}
  <2>1. \A x, y \in Nat \ {0} : y <= x * y
    OBVIOUS
  <2> QED BY <2>1, Sizes
<1> QED BY <1>1, <1>2, <1>3 DEF signExtend32, Bytes!SignExtended

LEMMA LoadedAs ==
  ASSUME TypeOK, NEW rD \in Low, NEW ea \in Word, NEW a \in {ea, WordAddr(ea)},
         NEW n, NEW signed \in BOOLEAN, NEW v \in Word,
         Readable(a) => v = IF signed THEN Bytes!SignExtended(Found(ea, n), n) ELSE Found(ea, n),
         Loaded(rD, a, v)
  PROVE  Typed /\ (Bytes!LoadAt(rD, ea, n, signed) \/ Refused(ea))
<1>1. ea \in Nat /\ (ea \in Memory => WordAddr(ea) \in Memory)
  BY Addresses, Sizes DEF Word, Words
<1>2. CASE Readable(a)
  <2>1. /\ gpr' = [gpr EXCEPT ![rD] = IF signed THEN Bytes!SignExtended(Found(ea, n), n)
                                               ELSE Found(ea, n)]
        /\ gpr' = [gpr EXCEPT ![rD] = v]
        /\ UNCHANGED <<mem, exited>>
    BY <1>2 DEF Loaded
  <2>2. Bytes!LoadAt(rD, ea, n, signed)
    BY <2>1 DEF Bytes!LoadAt, Found
  <2> QED BY <2>1, <2>2 DEF TypeOK, Typed
<1>3. CASE ~Readable(a)
  BY <1>1, <1>3 DEF Loaded, Readable, sim_exit, TypeOK, Typed, Refused
<1> QED BY <1>2, <1>3

LEMMA Loads ==
  ASSUME TypeOK, NEW rD \in Low, NEW ea \in Word
  PROVE  /\ ldr(rD, ea) => Typed /\ (Bytes!LoadAt(rD, ea, 4, FALSE) \/ Refused(ea))
         /\ ldrb(rD, ea) => Typed /\ (Bytes!LoadAt(rD, ea, 1, FALSE) \/ Refused(ea))
         /\ ldrh(rD, ea) => Typed /\ (Bytes!LoadAt(rD, ea, 2, FALSE) \/ Refused(ea))
         /\ ldrsb(rD, ea) => Typed /\ (Bytes!LoadAt(rD, ea, 1, TRUE) \/ Refused(ea))
         /\ ldrsh(rD, ea) => Typed /\ (Bytes!LoadAt(rD, ea, 2, TRUE) \/ Refused(ea))
<1> DEFINE a == WordAddr(ea)
           whole == simLoadData(ea)
           w == simLoadData(a)
           byte == SelectByte(w, ea)
           half == SelectHalf(w, ea)
<1>1. ea \in Nat
  BY Sizes DEF Word
<1>2. /\ Readable(ea) => whole \in Word /\ whole = Found(ea, 4)
      /\ Readable(a) => byte = Found(ea, 1) /\ half = Found(ea, 2)
      /\ Found(ea, 1) \in 0 .. ByteMod - 1 /\ Found(ea, 2) \in 0 .. Weight(2) - 1
  BY <1>1, LoadsFind
<1>3. ByteMod - 1 \in Word /\ Weight(2) - 1 \in Word /\ ByteMod \in Nat /\ Weight(2) \in Nat
  <2>1. \A x, y \in Nat \ {0} : y <= x * y
    OBVIOUS
  <2> QED BY <2>1, Sizes DEF Word
<1>4. Found(ea, 1) \in Word /\ Found(ea, 2) \in Word
  BY <1>2, <1>3, Sizes DEF Word
<1>5. ASSUME ldr(rD, ea)
      PROVE  Typed /\ (Bytes!LoadAt(rD, ea, 4, FALSE) \/ Refused(ea))
  <2>1. CASE Readable(ea)
    <3>1. Loaded(rD, ea, whole) /\ whole \in Word
      BY <1>2, <1>5, <2>1 DEF ldr
    <3> QED BY <1>2, <2>1, <3>1, LoadedAs
  <2>2. CASE ~Readable(ea)
    <3>1. Loaded(rD, ea, 0) /\ 0 \in Word
      BY <1>5, <2>2, Sizes DEF ldr, Loaded, Word
    <3> QED BY <2>2, <3>1, LoadedAs
  <2> QED BY <2>1, <2>2
<1>6. ASSUME NEW v, Loaded(rD, a, v)
      PROVE  \A good \in Word : (Readable(a) => v = good) => Loaded(rD, a, good)
  BY <1>6 DEF Loaded
<1>7. ASSUME ldrb(rD, ea)
      PROVE  Typed /\ (Bytes!LoadAt(rD, ea, 1, FALSE) \/ Refused(ea))
  <2>1. Loaded(rD, a, Found(ea, 1))
    BY <1>2, <1>4, <1>6, <1>7 DEF ldrb
  <2> QED BY <1>4, <2>1, LoadedAs
<1>8. ASSUME ldrh(rD, ea)
      PROVE  Typed /\ (Bytes!LoadAt(rD, ea, 2, FALSE) \/ Refused(ea))
  <2>1. Loaded(rD, a, Found(ea, 2))
    BY <1>2, <1>4, <1>6, <1>8 DEF ldrh
  <2> QED BY <1>4, <2>1, LoadedAs
<1>9. ASSUME ldrsb(rD, ea)
      PROVE  Typed /\ (Bytes!LoadAt(rD, ea, 1, TRUE) \/ Refused(ea))
  <2>1. /\ Bytes!SignExtended(Found(ea, 1), 1) \in Word
        /\ Readable(a) => signExtend32(byte, ByteMod) = Bytes!SignExtended(Found(ea, 1), 1)
    BY <1>2, SignExtends
  <2>2. Loaded(rD, a, Bytes!SignExtended(Found(ea, 1), 1))
    BY <1>6, <1>9, <2>1 DEF ldrsb
  <2> QED BY <2>1, <2>2, LoadedAs
<1>10. ASSUME ldrsh(rD, ea)
       PROVE  Typed /\ (Bytes!LoadAt(rD, ea, 2, TRUE) \/ Refused(ea))
  <2>1. /\ Bytes!SignExtended(Found(ea, 2), 2) \in Word
        /\ Readable(a) => signExtend32(half, Weight(2)) = Bytes!SignExtended(Found(ea, 2), 2)
    BY <1>2, SignExtends
  <2>2. Loaded(rD, a, Bytes!SignExtended(Found(ea, 2), 2))
    BY <1>6, <1>10, <2>1 DEF ldrsh
  <2> QED BY <2>1, <2>2, LoadedAs
<1> QED BY <1>5, <1>7, <1>8, <1>9, <1>10

\* Rounding down to 1, 2 or 4, word by word.
Lane(k, n) == CASE n = 1 -> k [] n = 2 -> IF k >= 2 THEN 2 ELSE 0 [] OTHER -> 0

LEMMA Lanes ==
  ASSUME NEW x \in Nat, NEW n \in {1, 2, 4}
  PROVE  /\ Bytes!Aligned(x, n) = WordAddr(x) + Lane(x % 4, n)
         /\ Lane(x % 4, n) \in 0 .. 3
         /\ x % n = (x % 4) - Lane(x % 4, n)
<1>1. CASE n = 1
  BY <1>1, Instance, Addresses DEF Lane
<1>2. CASE n = 2
  <2>1. Lane(x % 4, 2) = HalfLane(x) /\ Lane(x % 4, 2) \in 0 .. 3
    BY DEF Lane, HalfLane
  <2>2. x % 2 = (x % 4) - Lane(x % 4, 2)
    BY DEF Lane
  <2> QED BY <1>2, <2>1, <2>2, Instance
<1>3. CASE n = 4
  <2>1. Lane(x % 4, 4) = 0 /\ WordAddr(x) \in Nat /\ x % 4 \in 0 .. 3
    BY Addresses DEF Lane
  <2> QED BY <1>3, <2>1, Instance
<1> QED BY <1>1, <1>2, <1>3

LEMMA SameLane ==
  ASSUME NEW x \in Nat, NEW y \in Nat, NEW n \in {1, 2, 4}
  PROVE  Bytes!Aligned(x, n) = Bytes!Aligned(y, n)
           <=> (WordAddr(x) = WordAddr(y) /\ Lane(x % 4, n) = Lane(y % 4, n))
<1>1. /\ WordAddr(x) \in Nat /\ WordAddr(y) \in Nat /\ WordAddr(x) % 4 = 0 /\ WordAddr(y) % 4 = 0
  BY Addresses
<1>2. \A a, b \in Nat : \A i, j \in 0 .. 3 :
        a % 4 = 0 /\ b % 4 = 0 /\ a + i = b + j => a = b /\ i = j
  OBVIOUS
<1>3. /\ Lane(x % 4, n) \in 0 .. 3 /\ Lane(y % 4, n) \in 0 .. 3
      /\ Bytes!Aligned(x, n) = WordAddr(x) + Lane(x % 4, n)
      /\ Bytes!Aligned(y, n) = WordAddr(y) + Lane(y % 4, n)
  BY Lanes
<1> DEFINE a == WordAddr(x)
           b == WordAddr(y)
           i == Lane(x % 4, n)
           j == Lane(y % 4, n)
<1>4. a \in Nat /\ b \in Nat /\ a % 4 = 0 /\ b % 4 = 0 /\ i \in 0 .. 3 /\ j \in 0 .. 3
  BY <1>1, <1>3
<1> HIDE DEF a, b, i, j
<1>5. a + i = b + j <=> (a = b /\ i = j)
  BY <1>2, <1>4
<1> QED BY <1>3, <1>5, Zenon DEF a, b, i, j

\* Storing one word changes its four bytes and no other.
LEMMA StoredAs ==
  ASSUME TypeOK, NEW rD \in Low, NEW ea \in Word, NEW a \in {ea, WordAddr(ea)},
         NEW n \in {1, 2, 4}, NEW v \in Word,
         WordAddr(ea) \in Words =>
           \A k \in 0 .. 3 : ByteAt(v, k) = IF Lane(k, n) = Lane(ea % 4, n)
                                            THEN ByteAt(gpr[rD], k - Lane(k, n))
                                            ELSE ByteAt(mem[WordAddr(ea)], k),
         Stored(a, v)
  PROVE  Typed /\ (Bytes!StoreAt(rD, ea, n) \/ Refused(ea))
<1>1. /\ ea \in Nat /\ (ea \in Memory => WordAddr(ea) \in Words)
      /\ (WordAddr(ea) \in Memory => ea \in Memory)
      /\ WordAddr(a) = WordAddr(ea) /\ (a \in Memory <=> ea \in Memory)
  <2>1. ea \in Nat
    BY Sizes DEF Word
  <2>2. /\ ea \in Memory => WordAddr(ea) \in Words
        /\ WordAddr(ea) \in Memory => ea \in Memory
        /\ WordAddr(WordAddr(ea)) = WordAddr(ea)
    BY <2>1, Addresses
  <2>3. WordAddr(ea) \in Words => WordAddr(ea) \in Memory
    BY DEF Words
  <2> QED BY <2>1, <2>2, <2>3
<1>2. CASE Writable(a)
  <2>1. simStoreData([x \in {a} |-> v]) /\ UNCHANGED <<gpr, exited>>
    BY <1>2 DEF Stored
  <2>2. mem' = [w \in Words |-> IF a # UART /\ WordAddr(ea) = w THEN v ELSE mem[w]]
    <3> DEFINE Hits(w) == {x \in {a} : x # UART /\ WordAddr(x) = w}
    <3>1. mem' = [w \in Words |-> IF Hits(w) = {} THEN mem[w]
                                  ELSE [x \in {a} |-> v][CHOOSE x \in Hits(w) : TRUE]]
      BY <2>1 DEF simStoreData
    <3>2. ASSUME NEW w \in Words
          PROVE  (IF Hits(w) = {} THEN mem[w]
                  ELSE [x \in {a} |-> v][CHOOSE x \in Hits(w) : TRUE])
                   = IF a # UART /\ WordAddr(ea) = w THEN v ELSE mem[w]
      <4>1. CASE a # UART /\ WordAddr(ea) = w
        <5>1. Hits(w) = {a}
          BY <1>1, <4>1
        <5> QED BY <4>1, <5>1
      <4>2. CASE ~(a # UART /\ WordAddr(ea) = w)
        <5>1. Hits(w) = {}
          BY <1>1, <4>2
        <5> QED BY <4>2, <5>1
      <4> QED BY <4>1, <4>2
    <3> QED BY <3>1, <3>2
  <2>3. Typed
    BY <2>1, <2>2 DEF TypeOK, Typed
  <2>4. a # UART <=> ea \in Memory
    BY <1>1, <1>2, Addresses DEF Writable
  <2>5. ASSUME NEW x \in Memory
        PROVE  ByteAt(mem'[WordAddr(x)], x % 4)
                 = IF ea \in Memory /\ Bytes!Aligned(x, n) = Bytes!Aligned(ea, n)
                   THEN Bytes!Byte(gpr[rD], x % n) ELSE Seen[x]
    <3>1. /\ x \in Nat /\ WordAddr(x) \in Words /\ x % 4 \in 0 .. 3
          /\ Seen[x] = ByteAt(mem[WordAddr(x)], x % 4)
      BY Addresses, Sizes, SeenBytes DEF Word
    <3>2. mem'[WordAddr(x)]
            = IF ea \in Memory /\ WordAddr(ea) = WordAddr(x) THEN v ELSE mem[WordAddr(x)]
      BY <2>2, <2>4, <3>1
    <3>3. Bytes!Byte(gpr[rD], x % n) = ByteAt(gpr[rD], (x % 4) - Lane(x % 4, n))
      BY <3>1, Lanes, Instance
    <3>4. Bytes!Aligned(x, n) = Bytes!Aligned(ea, n)
            <=> (WordAddr(x) = WordAddr(ea) /\ Lane(x % 4, n) = Lane(ea % 4, n))
      BY <1>1, <3>1, SameLane
    <3>5. CASE ea \in Memory /\ WordAddr(ea) = WordAddr(x)
      BY <1>1, <3>1, <3>2, <3>3, <3>4, <3>5
    <3>6. CASE ~(ea \in Memory /\ WordAddr(ea) = WordAddr(x))
      BY <3>1, <3>2, <3>4, <3>6
    <3> QED BY <3>5, <3>6
  <2>6. Seen' = [x \in Memory |-> IF ea \in Memory /\ Bytes!Aligned(x, n) = Bytes!Aligned(ea, n)
                                  THEN Bytes!Byte(gpr[rD], x % n) ELSE Seen[x]]
    BY <2>5 DEF Seen, ByteAt
  <2>7. Bytes!StoreAt(rD, ea, n)
    BY <2>1, <2>6 DEF Bytes!StoreAt, Seen
  <2> QED BY <2>3, <2>7
<1>3. CASE ~Writable(a)
  BY <1>1, <1>3 DEF Stored, Writable, sim_exit, TypeOK, Typed, Refused
<1> QED BY <1>2, <1>3

LEMMA Stores ==
  ASSUME TypeOK, NEW rD \in Low, NEW ea \in Word
  PROVE  /\ str(rD, ea) => Typed /\ (Bytes!StoreAt(rD, ea, 4) \/ Refused(ea))
         /\ strb(rD, ea) => Typed /\ (Bytes!StoreAt(rD, ea, 1) \/ Refused(ea))
         /\ strh(rD, ea) => Typed /\ (Bytes!StoreAt(rD, ea, 2) \/ Refused(ea))
<1> DEFINE a == WordAddr(ea)
           w == simLoadData(a)
<1>1. /\ ea \in Nat /\ gpr[rD] \in Word /\ ea % 4 \in 0 .. 3
      /\ a \in Words => w = mem[a]
      /\ Readable(a) => w \in Word
      /\ ea \in Memory => Readable(a)
      /\ a \in Memory => ea \in Memory
  <2>1. ea \in Nat /\ gpr[rD] \in Word
    BY Sizes DEF Word, TypeOK
  <2>2. a \in Words => w = mem[a]
    BY <2>1, Addresses DEF simLoadData, Words
  <2>3. Readable(a) => w \in Word
    BY <2>1, LoadsFind
  <2>4. ea % 4 \in 0 .. 3 /\ (ea \in Memory => a \in Memory) /\ (a \in Memory => ea \in Memory)
    BY <2>1, Addresses DEF Words
  <2> QED BY <2>1, <2>2, <2>3, <2>4 DEF Readable
<1>2. ASSUME str(rD, ea)
      PROVE  Typed /\ (Bytes!StoreAt(rD, ea, 4) \/ Refused(ea))
  <2>1. \A k \in 0 .. 3 : Lane(k, 4) = 0 /\ k - Lane(k, 4) = k
    BY DEF Lane
  <2> QED BY <1>1, <1>2, <2>1, StoredAs DEF str
<1>3. ASSUME ~Readable(a), sim_exit("range")
      PROVE  Typed /\ Refused(ea)
  BY <1>1, <1>3 DEF sim_exit, TypeOK, Typed, Refused
<1>4. ASSUME strb(rD, ea)
      PROVE  Typed /\ (Bytes!StoreAt(rD, ea, 1) \/ Refused(ea))
  <2>1. CASE Readable(a)
    <3>1. Stored(a, MergeByte(w, ea, gpr[rD]))
      BY <1>4, <2>1 DEF strb
    <3>2. \A k \in 0 .. 3 : Lane(k, 1) = k /\ k - Lane(k, 1) = 0
      BY DEF Lane
    <3> DEFINE m == MergeByte(w, ea, gpr[rD])
    <3>3. m \in Word /\ \A k \in 0 .. 3 : ByteAt(m, k) = IF k = ea % 4 THEN ByteAt(gpr[rD], 0)
                                                                     ELSE ByteAt(w, k)
      BY <1>1, <2>1, MergedByte, ZenonT(60)
    <3> HIDE DEF m
    <3>4. a \in Words => \A k \in 0 .. 3 :
            ByteAt(m, k) = IF Lane(k, 1) = Lane(ea % 4, 1) THEN ByteAt(gpr[rD], k - Lane(k, 1))
                                                           ELSE ByteAt(mem[a], k)
      BY <1>1, <3>2, <3>3
    <3>5. Stored(a, m)
      BY <3>1 DEF m
    <3> QED BY <3>3, <3>4, <3>5, StoredAs
  <2> QED BY <1>3, <1>4, <2>1 DEF strb
<1>5. ASSUME strh(rD, ea)
      PROVE  Typed /\ (Bytes!StoreAt(rD, ea, 2) \/ Refused(ea))
  <2>1. CASE Readable(a)
    <3>1. Stored(a, MergeHalf(w, ea, gpr[rD]))
      BY <1>5, <2>1 DEF strh
    <3>2. /\ Lane(ea % 4, 2) = HalfLane(ea)
          /\ \A k \in 0 .. 3 : /\ k \in HalfLane(ea) .. HalfLane(ea) + 1
                                   <=> Lane(k, 2) = HalfLane(ea)
      BY <1>1 DEF Lane, HalfLane
    <3> DEFINE m == MergeHalf(w, ea, gpr[rD])
    <3>3. m \in Word /\ \A k \in 0 .. 3 :
            ByteAt(m, k) = IF k \in HalfLane(ea) .. HalfLane(ea) + 1
                           THEN ByteAt(gpr[rD], k - HalfLane(ea)) ELSE ByteAt(w, k)
      BY <1>1, <2>1, MergedHalf
    <3> HIDE DEF m
    <3>4. a \in Words => \A k \in 0 .. 3 :
            ByteAt(m, k) = IF Lane(k, 2) = Lane(ea % 4, 2) THEN ByteAt(gpr[rD], k - Lane(k, 2))
                                                           ELSE ByteAt(mem[a], k)
      BY <1>1, <3>2, <3>3
    <3>5. Stored(a, m)
      BY <3>1 DEF m
    <3> QED BY <3>3, <3>4, <3>5, StoredAs
  <2> QED BY <1>3, <1>5, <2>1 DEF strh
<1> QED BY <1>2, <1>4, <1>5

-----------------------------------------------------------------------------
(***************************************************************************)
(* The block transfers.  The registers of a list go to different words.    *)
(***************************************************************************)
Below(list, r) == {q \in list : q < r}

LEMMA Positions ==
  ASSUME NEW list \in SUBSET Low, NEW r \in Low
  PROVE  /\ IsFiniteSet(list) /\ Cardinality(list) \in Nat
         /\ Cardinality(Below(list, r)) \in Nat /\ 4 * Cardinality(Below(list, r)) < WordMod
         /\ \A q \in list : q < r => Cardinality(Below(list, q)) < Cardinality(Below(list, r))
<1>1. list \subseteq 0 .. 7 /\ r \in 0 .. 7 /\ 4 * r < WordMod /\ WordMod \in Nat
  BY MemBusAssumption, Sizes
<1>2. IsFiniteSet(list) /\ IsFiniteSet(0 .. r - 1) /\ IsFiniteSet(Below(list, r))
  <2>1. IsFiniteSet(0 .. 7) /\ IsFiniteSet(0 .. r - 1)
    <3>1. 0 \in Int /\ 7 \in Int /\ r - 1 \in Int
      BY <1>1
    <3> QED BY ONLY <3>1, FS_Interval, Zenon
  <2>2. IsFiniteSet(list)
    BY <1>1, <2>1, FS_Subset
  <2> QED BY <2>1, <2>2, FS_Subset DEF Below
<1>3. Cardinality(list) \in Nat /\ Cardinality(Below(list, r)) \in Nat
  BY <1>2, FS_CardinalityType
<1>4. Cardinality(Below(list, r)) <= r
  <2>1. Below(list, r) \subseteq 0 .. r - 1
    <3>1. \A q \in list : q \in Nat /\ r \in Nat
      BY <1>1
    <3> QED BY <3>1 DEF Below
  <2>2. Cardinality(0 .. r - 1) = r
    <3>1. 0 \in Int /\ r - 1 \in Int
      BY <1>1
    <3>2. Cardinality(0 .. r - 1) = (IF 0 > r - 1 THEN 0 ELSE (r - 1) - 0 + 1)
      BY ONLY <3>1, FS_Interval, Zenon
    <3> QED BY <1>1, <3>2
  <2> QED BY <1>2, <2>1, <2>2, FS_Subset
<1>5. ASSUME NEW q \in list, q < r
      PROVE  Cardinality(Below(list, q)) < Cardinality(Below(list, r))
  <2>1. Below(list, q) \subseteq Below(list, r) /\ q \in Below(list, r) /\ q \notin Below(list, q)
    <3>1. r \in Int /\ \A p \in list : p \in Int
      BY <1>1
    <3>2. \A p \in list : p < q => p < r
      BY <1>5, <3>1
    <3>3. ~(q < q)
      BY <3>1
    <3> QED BY <1>5, <3>2, <3>3, Zenon DEF Below
  <2>2. IsFiniteSet(Below(list, q))
    BY <1>2, <2>1, FS_Subset
  <2>3. /\ Cardinality(Below(list, q)) <= Cardinality(Below(list, r))
        /\ Cardinality(Below(list, r)) = Cardinality(Below(list, q))
             => Below(list, r) = Below(list, q)
    <3>1. Below(list, q) \in SUBSET Below(list, r)
      BY <2>1
    <3> QED BY ONLY <1>2, <3>1, FS_Subset, Zenon
  <2>4. Cardinality(Below(list, q)) \in Nat
    BY <2>2, FS_CardinalityType
  <2> QED BY <1>3, <2>1, <2>3, <2>4
<1> QED BY <1>1, <1>2, <1>3, <1>4, <1>5

LEMMA WordsApart ==
  ASSUME NEW base \in Word, NEW m \in Nat, NEW n \in Nat, m < n, 4 * n < WordMod
  PROVE  WordAddr(Wrap(base + 4 * m)) # WordAddr(Wrap(base + 4 * n))
<1> DEFINE W == WordMod
<1>1. W \in Nat /\ W % 4 = 0 /\ 4 * n <= W - 4 /\ base \in 0 .. W - 1
  BY Sizes DEF Word
<1>2. \A x \in 0 .. 2 * W - 1 : x % W = IF x < W THEN x ELSE x - W
  <2> SUFFICES ASSUME NEW x \in 0 .. 2 * W - 1
               PROVE  x % W = IF x < W THEN x ELSE x - W
    OBVIOUS
  <2>1. CASE x < W
    BY <1>1, <2>1
  <2>2. CASE x >= W
    <3>1. x = W * 1 + (x - W) /\ x - W \in 0 .. W - 1 /\ W \in Nat \ {0}
      BY <1>1, <2>2
    <3>2. (W * 1 + (x - W)) % W = x - W
      BY <3>1, Divides
    <3> QED BY <2>2, <3>1, <3>2
  <2> QED BY <1>1, <2>1, <2>2
<1>3. /\ Wrap(base + 4 * m) = IF base + 4 * m < W THEN base + 4 * m ELSE base + 4 * m - W
      /\ Wrap(base + 4 * n) = IF base + 4 * n < W THEN base + 4 * n ELSE base + 4 * n - W
  BY <1>1, <1>2, SMTT(60) DEF Wrap
<1> HIDE DEF W
<1> QED BY <1>1, <1>3 DEF WordAddr

LEMMA Slots ==
  ASSUME NEW base \in Word, NEW list \in SUBSET Low
  PROVE  /\ \A r \in list : Slot(base, list, r) \in Word
         /\ After(base, list) \in Word
         /\ \A q, r \in list : WordAddr(Slot(base, list, q)) = WordAddr(Slot(base, list, r)) => q = r
<1>1. \A r \in list : r \in Low /\ r \in Int
  BY MemBusAssumption
<1>2. \A x \in Nat : Wrap(x) \in Word
  BY Sizes DEF Wrap, Word
<1>3. \A r \in Low : Slot(base, list, r) = Wrap(base + 4 * Cardinality(Below(list, r)))
  BY DEF Slot, Below
<1>4. base \in Nat
  BY Sizes DEF Word
<1>5. \A r \in list : Slot(base, list, r) \in Word
  BY <1>1, <1>2, <1>3, <1>4, Positions
<1>6. After(base, list) \in Word
  <2>1. CASE list = {}
    <3>1. Cardinality(list) = 0
      BY <2>1, FS_EmptySet
    <3> QED BY <1>2, <1>4, <3>1 DEF After
  <2>2. CASE list # {}
    <3>1. Cardinality(list) \in Nat
      BY <1>1, <2>2, Positions
    <3> QED BY <1>2, <1>4, <3>1 DEF After
  <2> QED BY <2>1, <2>2
<1>7. ASSUME NEW q \in list, NEW r \in list, q < r
      PROVE  WordAddr(Slot(base, list, q)) # WordAddr(Slot(base, list, r))
  <2>1. /\ Cardinality(Below(list, q)) \in Nat /\ Cardinality(Below(list, r)) \in Nat
        /\ Cardinality(Below(list, q)) < Cardinality(Below(list, r))
        /\ 4 * Cardinality(Below(list, r)) < WordMod
    BY <1>1, <1>7, Positions
  <2> QED BY <1>1, <1>3, <2>1, WordsApart
<1> QED BY <1>1, <1>5, <1>6, <1>7

LEMMA BlockLoads ==
  ASSUME TypeOK, NEW rN \in Low, NEW list \in SUBSET Low, ldm(rN, list)
  PROVE  /\ Typed
         /\ \/ Bytes!LoadMany
            \/ \E r \in list : Refused(Slot(gpr[rN], list, r))
<1> DEFINE At(r) == Slot(gpr[rN], list, r)
<1>1. gpr[rN] \in Word
  BY DEF TypeOK
<1>2. After(gpr[rN], list) \in Word /\ \A r \in list : At(r) \in Word /\ At(r) \in Nat
  BY <1>1, Slots, Sizes DEF Word
<1>3. CASE \A r \in list : Readable(At(r))
  <2>1. /\ gpr' = [r \in Low |-> CASE r \in list               -> simLoadData(At(r))
                                   [] r = rN /\ rN \notin list -> After(gpr[rN], list)
                                   [] OTHER                    -> gpr[r]]
        /\ UNCHANGED <<mem, exited>>
    BY <1>3 DEF ldm
  <2>2. \A r \in list : simLoadData(At(r)) = Found(At(r), 4) /\ Found(At(r), 4) \in Word
    BY <1>2, <1>3, LoadsFind
  <2>3. Typed
    BY <1>2, <2>1, <2>2 DEF TypeOK, Typed
  <2>4. \A r : Bytes!Slot(gpr[rN], list, r) = At(r)
    BY Instance, BlockInstance
  <2>5. Bytes!After(gpr[rN], list) = After(gpr[rN], list)
    BY BlockInstance
  <2> HIDE DEF At
  <2>6. gpr' = [r \in Low |->
                  CASE r \in list /\ At(r) \in Memory    -> Bytes!Value(Bytes!Aligned(At(r), 4), 4)
                    [] r \in list /\ At(r) \notin Memory -> 0
                    [] r \notin list /\ r = rN           -> After(gpr[rN], list)
                    [] OTHER                             -> gpr[r]]
    <3> SUFFICES ASSUME NEW r \in Low
                 PROVE  (CASE r \in list               -> simLoadData(At(r))
                           [] r = rN /\ rN \notin list -> After(gpr[rN], list)
                           [] OTHER                    -> gpr[r])
                        = (CASE r \in list /\ At(r) \in Memory    -> Bytes!Value(Bytes!Aligned(At(r), 4), 4)
                             [] r \in list /\ At(r) \notin Memory -> 0
                             [] r \notin list /\ r = rN           -> After(gpr[rN], list)
                             [] OTHER                             -> gpr[r])
      BY <2>1
    <3>1. CASE r \in list
      BY <2>2, <3>1 DEF Found
    <3>2. CASE r \notin list
      BY <3>2
    <3> QED BY <3>1, <3>2
  <2>7. UNCHANGED Seen
    BY <2>1 DEF Seen
  <2>8. Bytes!LoadMany
    BY <2>1, <2>4, <2>5, <2>6, <2>7 DEF Bytes!LoadMany, Seen
  <2> QED BY <2>3, <2>8
<1>4. CASE \E r \in list : ~Readable(At(r))
  <2>1. sim_exit("range")
    BY <1>4 DEF ldm
  <2> QED BY <1>4, <2>1 DEF Readable, sim_exit, TypeOK, Typed, Refused
<1> QED BY <1>3, <1>4

LEMMA BlockStores ==
  ASSUME TypeOK, NEW rN \in Low, NEW list \in SUBSET Low, stm(rN, list)
  PROVE  /\ Typed
         /\ \/ Bytes!StoreMany
            \/ exited' = "malformed" /\ UNCHANGED <<gpr, mem>>
            \/ \E r \in list : Refused(Slot(gpr[rN], list, r))
<1> DEFINE At(r) == Slot(gpr[rN], list, r)
<1>1. gpr[rN] \in Word /\ \A r \in list : gpr[r] \in Word
  BY DEF TypeOK
<1>2. /\ After(gpr[rN], list) \in Word
      /\ \A r \in list : At(r) \in Word /\ At(r) \in Nat
      /\ \A q, r \in list : WordAddr(At(q)) = WordAddr(At(r)) => q = r
  BY <1>1, Slots, Sizes DEF Word
<1>3. CASE Malformed(rN, list)
  BY <1>3 DEF stm, sim_exit, TypeOK, Typed
<1>4. CASE ~Malformed(rN, list) /\ \A r \in list : Writable(At(r))
  <2> DEFINE put == [a \in {At(r) : r \in list} |-> gpr[CHOOSE r \in list : At(r) = a]]
             Put(w) == {r \in list : WordAddr(At(r)) = w}
             Hits(w) == {a \in DOMAIN put : a # UART /\ WordAddr(a) = w}
  <2>1. /\ simStoreData(put)
        /\ gpr' = [gpr EXCEPT ![rN] = After(@, list)]
        /\ UNCHANGED exited
    BY <1>4 DEF stm
  <2>2. mem' = [w \in Words |-> IF Hits(w) = {} THEN mem[w] ELSE put[CHOOSE a \in Hits(w) : TRUE]]
    BY <2>1 DEF simStoreData
  <2>3. ASSUME NEW w \in Words
        PROVE  (IF Hits(w) = {} THEN mem[w] ELSE put[CHOOSE a \in Hits(w) : TRUE])
                 = IF Put(w) = {} THEN mem[w] ELSE gpr[CHOOSE r \in Put(w) : TRUE]
    <3>1. w \in Memory /\ w # UART /\ WordAddr(UART) = UART
      BY Addresses DEF Words
    <3>2. Hits(w) = {At(r) : r \in Put(w)}
      BY <3>1
    <3>3. CASE Put(w) = {}
      BY <3>2, <3>3
    <3>4. CASE Put(w) # {}
      <4>1. PICK r \in list : WordAddr(At(r)) = w
        BY <3>4
      <4>2. Put(w) = {r}
        BY <1>2, <4>1
      <4>3. Hits(w) = {At(r)}
        BY <3>2, <4>2
      <4>4. {q \in list : At(q) = At(r)} = {r}
        BY <1>2
      <4>5. (CHOOSE q \in list : At(q) = At(r)) = r
        BY <4>4
      <4>6. put[At(r)] = gpr[r]
        BY <4>5
      <4> HIDE DEF put, Hits, Put
      <4> QED BY <4>2, <4>3, <4>6
    <3> QED BY <3>3, <3>4
  <2> HIDE DEF put, Hits
  <2>4. mem' = [w \in Words |-> IF Put(w) = {} THEN mem[w] ELSE gpr[CHOOSE r \in Put(w) : TRUE]]
    BY <2>2, <2>3
  <2>5. ASSUME NEW w
        PROVE  Put(w) # {} => gpr[CHOOSE r \in Put(w) : TRUE] \in Word
    BY <1>1
  <2>6. Typed
    BY <1>2, <2>1, <2>4, <2>5 DEF TypeOK, Typed
  <2>7. Seen' = [x \in Memory |-> IF Put(WordAddr(x)) = {} THEN Seen[x]
                                  ELSE ByteAt(gpr[CHOOSE r \in Put(WordAddr(x)) : TRUE], x % 4)]
    <3> HIDE DEF Put
    <3>1. ASSUME NEW x \in Memory
          PROVE  ByteAt(mem'[WordAddr(x)], x % 4)
                   = IF Put(WordAddr(x)) = {} THEN Seen[x]
                     ELSE ByteAt(gpr[CHOOSE r \in Put(WordAddr(x)) : TRUE], x % 4)
      <4>1. WordAddr(x) \in Words /\ Seen[x] = ByteAt(mem[WordAddr(x)], x % 4)
        BY Addresses, Sizes, SeenBytes DEF Word
      <4> QED BY <2>4, <4>1
    <3> QED BY <3>1 DEF Seen, ByteAt
  <2>8. \A r, x : Bytes!Slot(gpr[rN], list, r) = At(r) /\ Bytes!Aligned(x, 4) = WordAddr(x)
    BY Instance, BlockInstance
  <2>9. Bytes!After(gpr[rN], list) = After(gpr[rN], list)
    BY BlockInstance
  <2> HIDE DEF At
  <2>10. \A x : {r \in list : Bytes!Aligned(Bytes!Slot(gpr[rN], list, r), 4) = Bytes!Aligned(x, 4)}
                  = Put(WordAddr(x))
    BY <2>8
  <2>11. gpr' = [gpr EXCEPT ![rN] = Bytes!After(@, list)]
    BY <2>1, <2>9
  <2>12. \A w, k : Bytes!Byte(w, k) = ByteAt(w, k)
    BY Instance
  <2> HIDE DEF Put
  <2> DEFINE Puts(x) == {r \in list :
                           Bytes!Aligned(Bytes!Slot(gpr[rN], list, r), 4) = Bytes!Aligned(x, 4)}
  <2>13. Seen' = [x \in Memory |-> IF Puts(x) = {} THEN Seen[x]
                                   ELSE Bytes!Byte(gpr[CHOOSE r \in Puts(x) : TRUE], x % 4)]
    <3>1. \A x : Puts(x) = Put(WordAddr(x))
      BY <2>10
    <3> HIDE DEF Puts
    <3> QED BY <2>7, <2>12, <3>1
  <2>14. Bytes!StoreMany
    BY <2>1, <2>11, <2>13 DEF Bytes!StoreMany, Seen
  <2> QED BY <2>6, <2>14
<1>5. CASE ~Malformed(rN, list) /\ \E r \in list : ~Writable(At(r))
  <2>1. sim_exit("range")
    BY <1>5 DEF stm
  <2> QED BY <1>5, <2>1 DEF Writable, sim_exit, TypeOK, Typed, Refused
<1> QED BY <1>3, <1>4, <1>5

-----------------------------------------------------------------------------
(***************************************************************************)
(* The instructions, one lemma for each form.                              *)
(***************************************************************************)
Implements ==
  Typed /\ (Bytes!Load \/ Bytes!Store \/ Bytes!LoadMany \/ Bytes!StoreMany \/ Bytes!Fail)

LEMMA Refusal ==
  ASSUME NEW ea, ea \in Bytes!Accessed, Refused(ea), Typed
  PROVE  Implements
<1>1. UNCHANGED Seen
  BY DEF Refused, Seen
<1> QED BY <1>1 DEF Refused, Bytes!Fail, Implements, Seen

LEMMA MalformedRefusal ==
  ASSUME exited' = "malformed", UNCHANGED <<gpr, mem>>, Typed
  PROVE  Implements
<1>1. UNCHANGED Seen
  BY DEF Seen
<1> QED BY <1>1 DEF Bytes!Fail, Implements, Seen

LEMMA EffectiveAddresses ==
  ASSUME TypeOK, NEW rN \in Low, NEW rM \in Low, NEW imm \in Imm
  PROVE  /\ \A scale \in {1, 2, 4} : /\ EA_i(rN, imm, scale) \in Word
                                     /\ EA_i(rN, imm, scale) \in Bytes!Indexed(scale)
         /\ EA_r(rN, rM) \in Word /\ EA_r(rN, rM) \in Bytes!Sums
         /\ EA_sp(imm) \in Word /\ EA_sp(imm) \in Bytes!Based(SP)
         /\ EA_lit(imm) \in Word /\ EA_lit(imm) \in Bytes!Based(Bytes!Aligned(PC, 4))
<1>1. gpr[rN] \in Nat /\ gpr[rM] \in Nat /\ imm \in Nat /\ imm \in 0 .. MaxImm /\ SP \in Nat /\ PC \in Nat
  BY MemBusAssumption, Sizes DEF TypeOK, Word, Imm
<1>2. \A x \in Nat : Wrap(x) \in Word
  BY Sizes DEF Wrap, Word
<1>3. WordAddr(PC) \in Nat
  BY <1>1, Addresses
<1>4. \A scale \in {1, 2, 4} : EA_i(rN, imm, scale) \in Word
  BY <1>1, <1>2 DEF EA_i
<1>5. EA_r(rN, rM) \in Word /\ EA_sp(imm) \in Word /\ EA_lit(imm) \in Word
  BY <1>1, <1>2, <1>3 DEF EA_r, EA_sp, EA_lit
<1>6. \A x : Bytes!Wrap(x) = Wrap(x) /\ Bytes!Aligned(x, 4) = WordAddr(x)
  BY Instance
<1>7. /\ \A scale \in {1, 2, 4} : EA_i(rN, imm, scale) \in Bytes!Indexed(scale)
      /\ EA_r(rN, rM) \in Bytes!Sums
      /\ EA_sp(imm) \in Bytes!Based(SP)
      /\ EA_lit(imm) \in Bytes!Based(Bytes!Aligned(PC, 4))
  BY <1>1, <1>6 DEF EA_i, EA_r, EA_sp, EA_lit, Bytes!Indexed, Bytes!Sums, Bytes!Based
<1> QED BY <1>4, <1>5, <1>7

LEMMA Accesses ==
  /\ \A scale \in {1, 2, 4} : Bytes!Indexed(scale) \subseteq Bytes!Accessed
  /\ Bytes!Sums \subseteq Bytes!Accessed /\ Bytes!Based(SP) \subseteq Bytes!Accessed
  /\ Bytes!Based(Bytes!Aligned(PC, 4)) \subseteq Bytes!Accessed
  /\ \A rN \in Low : \A list \in SUBSET Low : \A r \in list :
       Slot(gpr[rN], list, r) \in Bytes!Accessed
<1> DEFINE blocks == {{Bytes!Slot(gpr[base], list, r) : r \in list}
                        : base \in Low, list \in SUBSET Low}
           indexed == {Bytes!Indexed(n) : n \in {1, 2, 4}}
<1>0. Bytes!Accessed = (UNION indexed) \cup Bytes!Sums \cup Bytes!Based(SP)
                        \cup Bytes!Based(Bytes!Aligned(PC, 4)) \cup (UNION blocks)
  BY DEF Bytes!Accessed
<1>1. ASSUME NEW rN \in Low, NEW list \in SUBSET Low, NEW r \in list
      PROVE  Slot(gpr[rN], list, r) \in (UNION blocks)
  <2> DEFINE slots == {Bytes!Slot(gpr[rN], list, q) : q \in list}
  <2>1. Slot(gpr[rN], list, r) \in slots
    BY BlockInstance
  <2>2. slots \in blocks
    <3>1. \E b \in Low, l \in SUBSET Low : slots = {Bytes!Slot(gpr[b], l, q) : q \in l}
      OBVIOUS
    <3> HIDE DEF slots
    <3> QED BY <3>1
  <2> HIDE DEF slots, blocks
  <2> QED BY <2>1, <2>2
<1>2. \A scale \in {1, 2, 4} : Bytes!Indexed(scale) \in indexed
  OBVIOUS
<1> HIDE DEF blocks, indexed
<1> QED BY <1>0, <1>1, <1>2

LEMMA Immediate == TypeOK /\ ImmediateForm => Implements
<1> SUFFICES ASSUME TypeOK, NEW rD \in Low, NEW rN \in Low, NEW imm \in Imm,
                    \/ ldr_i(rD, rN, imm) \/ ldrb_i(rD, rN, imm) \/ ldrh_i(rD, rN, imm)
                    \/ str_i(rD, rN, imm) \/ strb_i(rD, rN, imm) \/ strh_i(rD, rN, imm)
             PROVE  Implements
  BY DEF ImmediateForm
<1> DEFINE ea(n) == EA_i(rN, imm, n)
<1>1. \A n \in {1, 2, 4} : /\ ea(n) \in Word /\ ea(n) \in Bytes!Indexed(n)
                           /\ ea(n) \in Bytes!Accessed
  BY EffectiveAddresses, Accesses
<1>2. PICK n \in {1, 2, 4} :
        Typed /\ \/ Bytes!LoadAt(rD, ea(n), n, FALSE)
                 \/ Bytes!StoreAt(rD, ea(n), n)
                 \/ Refused(ea(n))
  <2>1. CASE ldr_i(rD, rN, imm) BY <1>1, <2>1, Loads DEF ldr_i
  <2>2. CASE ldrb_i(rD, rN, imm) BY <1>1, <2>2, Loads DEF ldrb_i
  <2>3. CASE ldrh_i(rD, rN, imm) BY <1>1, <2>3, Loads DEF ldrh_i
  <2>4. CASE str_i(rD, rN, imm) BY <1>1, <2>4, Stores DEF str_i
  <2>5. CASE strb_i(rD, rN, imm) BY <1>1, <2>5, Stores DEF strb_i
  <2>6. CASE strh_i(rD, rN, imm) BY <1>1, <2>6, Stores DEF strh_i
  <2> QED BY <2>1, <2>2, <2>3, <2>4, <2>5, <2>6
<1> HIDE DEF ea
<1>3. CASE Bytes!LoadAt(rD, ea(n), n, FALSE)
  BY <1>1, <1>2, <1>3 DEF Implements, Bytes!Load
<1>4. CASE Bytes!StoreAt(rD, ea(n), n)
  BY <1>1, <1>2, <1>4 DEF Implements, Bytes!Store
<1> QED BY <1>1, <1>2, <1>3, <1>4, Refusal

LEMMA Register == TypeOK /\ RegisterForm => Implements
<1> SUFFICES ASSUME TypeOK, NEW rD \in Low, NEW rN \in Low, NEW rM \in Low,
                    \/ ldr_r(rD, rN, rM)   \/ ldrb_r(rD, rN, rM)  \/ ldrh_r(rD, rN, rM)
                    \/ ldrsb_r(rD, rN, rM) \/ ldrsh_r(rD, rN, rM)
                    \/ str_r(rD, rN, rM)   \/ strb_r(rD, rN, rM)  \/ strh_r(rD, rN, rM)
             PROVE  Implements
  BY DEF RegisterForm
<1> DEFINE ea == EA_r(rN, rM)
<1>1. ea \in Word /\ ea \in Bytes!Sums /\ ea \in Bytes!Accessed
  <2>1. 0 \in Imm
    BY MemBusAssumption DEF Imm
  <2> QED BY <2>1, EffectiveAddresses, Accesses
<1>2. Typed /\ \/ \E n \in {1, 2, 4} : Bytes!LoadAt(rD, ea, n, FALSE)
               \/ \E n \in {1, 2} : Bytes!LoadAt(rD, ea, n, TRUE)
               \/ \E n \in {1, 2, 4} : Bytes!StoreAt(rD, ea, n)
               \/ Refused(ea)
  <2>1. CASE ldr_r(rD, rN, rM) BY <1>1, <2>1, Loads DEF ldr_r
  <2>2. CASE ldrb_r(rD, rN, rM) BY <1>1, <2>2, Loads DEF ldrb_r
  <2>3. CASE ldrh_r(rD, rN, rM) BY <1>1, <2>3, Loads DEF ldrh_r
  <2>4. CASE ldrsb_r(rD, rN, rM) BY <1>1, <2>4, Loads DEF ldrsb_r
  <2>5. CASE ldrsh_r(rD, rN, rM) BY <1>1, <2>5, Loads DEF ldrsh_r
  <2>6. CASE str_r(rD, rN, rM) BY <1>1, <2>6, Stores DEF str_r
  <2>7. CASE strb_r(rD, rN, rM) BY <1>1, <2>7, Stores DEF strb_r
  <2>8. CASE strh_r(rD, rN, rM) BY <1>1, <2>8, Stores DEF strh_r
  <2> QED BY <2>1, <2>2, <2>3, <2>4, <2>5, <2>6, <2>7, <2>8
<1> HIDE DEF ea
<1>3. ASSUME NEW n \in {1, 2, 4}, Bytes!LoadAt(rD, ea, n, FALSE)
      PROVE  Implements
  BY <1>1, <1>2, <1>3 DEF Implements, Bytes!Load
<1>4. ASSUME NEW n \in {1, 2}, Bytes!LoadAt(rD, ea, n, TRUE)
      PROVE  Implements
  BY <1>1, <1>2, <1>4 DEF Implements, Bytes!Load
<1>5. ASSUME NEW n \in {1, 2, 4}, Bytes!StoreAt(rD, ea, n)
      PROVE  Implements
  BY <1>1, <1>2, <1>5 DEF Implements, Bytes!Store
<1> QED BY <1>1, <1>2, <1>3, <1>4, <1>5, Refusal

LEMMA Relative == TypeOK /\ RelativeForm => Implements
<1> SUFFICES ASSUME TypeOK, NEW rD \in Low, NEW imm \in Imm,
                    ldr_sp(rD, imm) \/ ldr_lit(rD, imm) \/ str_sp(rD, imm)
             PROVE  Implements
  BY DEF RelativeForm
<1> DEFINE sp  == EA_sp(imm)
           lit == EA_lit(imm)
<1>1. /\ sp \in Word /\ sp \in Bytes!Based(SP) /\ sp \in Bytes!Accessed
      /\ lit \in Word /\ lit \in Bytes!Based(Bytes!Aligned(PC, 4)) /\ lit \in Bytes!Accessed
  BY EffectiveAddresses, Accesses
<1>2. Typed /\ \/ Bytes!LoadAt(rD, sp, 4, FALSE) \/ Refused(sp)
               \/ Bytes!LoadAt(rD, lit, 4, FALSE) \/ Refused(lit)
               \/ Bytes!StoreAt(rD, sp, 4)
  <2>1. CASE ldr_sp(rD, imm) BY <1>1, <2>1, Loads DEF ldr_sp
  <2>2. CASE ldr_lit(rD, imm) BY <1>1, <2>2, Loads DEF ldr_lit
  <2>3. CASE str_sp(rD, imm) BY <1>1, <2>3, Stores DEF str_sp
  <2> QED BY <2>1, <2>2, <2>3
<1> HIDE DEF sp, lit
<1>3. CASE Bytes!LoadAt(rD, sp, 4, FALSE)
  BY <1>1, <1>2, <1>3 DEF Implements, Bytes!Load
<1>4. CASE Bytes!LoadAt(rD, lit, 4, FALSE)
  BY <1>1, <1>2, <1>4 DEF Implements, Bytes!Load
<1>5. CASE Bytes!StoreAt(rD, sp, 4)
  BY <1>1, <1>2, <1>5 DEF Implements, Bytes!Store
<1> QED BY <1>1, <1>2, <1>3, <1>4, <1>5, Refusal

LEMMA Block == TypeOK /\ BlockForm => Implements
<1> SUFFICES ASSUME TypeOK, NEW rN \in Low, NEW list \in SUBSET Low,
                    ldm(rN, list) \/ stm(rN, list)
             PROVE  Implements
  BY DEF BlockForm
<1>1. CASE ldm(rN, list)
  BY <1>1, BlockLoads, Accesses, Refusal DEF Implements
<1>2. CASE stm(rN, list)
  BY <1>2, BlockStores, Accesses, Refusal, MalformedRefusal DEF Implements
<1> QED BY <1>1, <1>2

LEMMA EveryStep == TypeOK /\ Next => Implements /\ steps' \in 0 .. MaxSteps
<1>1. TypeOK /\ Next => steps' \in 0 .. MaxSteps
  BY MemBusAssumption DEF TypeOK, Next
<1> QED BY <1>1, Immediate, Register, Relative, Block DEF Next

LEMMA InitTyped == Init => TypeOK
  BY MemBusAssumption DEF Init, TypeOK

LEMMA StaysTyped == TypeOK /\ [Next]_vars => TypeOK'
<1>1. TypeOK /\ Next => TypeOK'
  BY EveryStep DEF Implements, Typed, TypeOK
<1>2. TypeOK /\ UNCHANGED vars => TypeOK'
  BY DEF TypeOK, vars
<1> QED BY <1>1, <1>2

-----------------------------------------------------------------------------
\* Registers and words of memory stay words: no merge of a byte into a word, no
\* sign extension and no address that is written back leaves the width.
THEOREM MemBusTypes == Spec => []TypeOK
  BY InitTyped, StaysTyped, PTL DEF Spec

\* The loads and stores of exmemwb_mem.c over the word-wide bus implement a
\* memory of bytes, for every size of flash and RAM, every register contents,
\* every address and every register list.
THEOREM ImplementsBytes == Spec => ActsAsBytes
<1>1. Init => Bytes!Init
  <2> SUFFICES ASSUME Init
               PROVE  Bytes!Init
    OBVIOUS
  <2>1. Seen \in [Memory -> 0 .. ByteMod - 1]
    <3>1. ASSUME NEW x \in Memory
          PROVE  Seen[x] \in Byte
      <4>1. x \in Nat /\ WordAddr(x) \in Words /\ x % 4 \in 0 .. 3
        BY Addresses, Sizes DEF Word
      <4> QED BY <4>1, InitTyped, SeenBytes, HasBytes
    <3> QED BY <3>1 DEF Byte, Seen
  <2> QED BY <2>1, Instance DEF Init, Bytes!Init, Seen
<1>2. TypeOK /\ [Next]_vars => [Bytes!Next]_(Bytes!vars)
  <2>1. TypeOK /\ Next => Bytes!Next
    BY EveryStep DEF Implements, Bytes!Next, Next
  <2>2. UNCHANGED vars => UNCHANGED Bytes!vars
    <3>1. UNCHANGED vars => UNCHANGED Seen
      BY DEF vars, Seen
    <3> QED BY <3>1 DEF vars, Bytes!vars, Seen
  <2> QED BY <2>1, <2>2
<1> QED BY <1>1, <1>2, MemBusTypes, PTL DEF Spec, ActsAsBytes, Bytes!Spec
=============================================================================
