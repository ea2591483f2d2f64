---------------------------- MODULE SysTickProofs ----------------------------
(***************************************************************************)
(* The timer keeps time for every width of a byte, every set of stored     *)
(* words and every mix of instructions.  KeepsTime becomes inductive with  *)
(* what the counter is before it first reaches zero.                       *)
(***************************************************************************)
EXTENDS SysTick, TLAPS

TimerType == [control : 0 .. 2 * COUNTFLAG - 1, reload : 0 .. Weight(3) - 1, value : Word]
ClockType == [valid : BOOLEAN, read : Word, flag : BOOLEAN, reload : 0 .. Weight(3) - 1,
              ticks : Nat]

\* What a clock c says of a timer in state s.  The last two conjuncts are not in
\* KeepsTime: the period exceeds every instruction, and until the ticks since
\* the load have used up what was read, the counter is the difference.
Tells(s, c) ==
  c.valid =>
    /\ Enabled(s.control) /\ s.reload = c.reload
    /\ \E n \in 0 .. c.ticks : s.value + c.ticks = c.read + n * c.reload
    /\ c.read > 0 => (Counted(s.control) <=> c.flag \/ c.ticks >= c.read)
    /\ c.ticks >= c.read => s.value \in 0 .. c.reload
    /\ c.reload > Longest
    /\ c.ticks < c.read => s.value = c.read - c.ticks

TimeInv == TypeOK /\ Tells(systick, clock)

-----------------------------------------------------------------------------
(***************************************************************************)
(* Arithmetic.                                                             *)
(***************************************************************************)
LEMMA Weights ==
  /\ Weight(0) = 1 /\ Weight(1) = ByteMod /\ Weight(2) = ByteMod * ByteMod
  /\ Weight(3) = ByteMod * ByteMod * ByteMod
BY DEF Weight

\* The upper weights are multiples of eight, and far apart.
LEMMA Eights ==
  /\ COUNTFLAG \in Nat /\ COUNTFLAG >= 8 /\ COUNTFLAG % 8 = 0 /\ COUNTFLAG % 2 = 0
  /\ Weight(3) \in Nat /\ Weight(3) >= 2 * COUNTFLAG
  /\ WordMod \in Nat /\ WordMod >= Weight(3)
<1> DEFINE q == ByteMod \div 8
<1>1. ByteMod \in Nat /\ ByteMod >= 8 /\ q \in Nat /\ ByteMod = 8 * q
  BY SysTickAssumption
<1>2. COUNTFLAG = ByteMod * ByteMod /\ Weight(3) = COUNTFLAG * ByteMod
      /\ WordMod = ByteMod * Weight(3)
  BY Weights DEF COUNTFLAG, WordMod
<1>3. ByteMod * ByteMod \in Nat /\ ByteMod * ByteMod >= 8 * ByteMod
  BY <1>1
<1>4. \A x \in Nat : x >= 1 => ByteMod * x \in Nat /\ ByteMod * x >= 8 * x
  BY <1>1
<1>5. \A x \in Nat : (8 * x) % 8 = 0 /\ (8 * x) % 2 = 0
  OBVIOUS
<1>6. COUNTFLAG = 8 * (q * ByteMod) /\ q * ByteMod \in Nat
  BY <1>1, <1>2
<1>7. COUNTFLAG % 8 = 0 /\ COUNTFLAG % 2 = 0
  BY <1>5, <1>6
<1> QED BY <1>1, <1>2, <1>3, <1>4, <1>7

LEMMA Even == \A x, y \in Int : (2 * x + y) % 2 = y % 2
OBVIOUS

\* Division of what was multiplied.
LEMMA Divides ==
  \A b \in Nat \ {0} : \A q \in Int : \A r \in 0 .. b - 1 :
    (b * q + r) \div b = q /\ (b * q + r) % b = r
OBVIOUS

\* Clearing bit 1 and setting bit 2 stays in a multiple of eight, and bit 0
\* stays.
LEMMA LowBits ==
  ASSUME NEW m \in Nat, m % 8 = 0, NEW low \in 0 .. m - 1,
         NEW new, new = low - 2 * ((low \div 2) % 2) + 4 * (1 - ((low \div 4) % 2))
  PROVE  new \in 0 .. m - 1 /\ new % 2 = low % 2
<1> DEFINE q == low \div 8
           r == low % 8
<1>1. q \in Nat /\ r \in 0 .. 7 /\ low = 8 * q + r
  OBVIOUS
<1>2. 8 * q + 7 <= m - 1
  OBVIOUS
<1> HIDE DEF q, r
<1>3. (low \div 2) % 2 = (r \div 2) % 2 /\ (low \div 4) % 2 = (r \div 4) % 2
      /\ low % 2 = r % 2
  BY <1>1
<1>4. r - 2 * ((r \div 2) % 2) + 4 * (1 - ((r \div 4) % 2)) \in 0 .. 7
  BY <1>1
<1>5. (r - 2 * ((r \div 2) % 2) + 4 * (1 - ((r \div 4) % 2))) % 2 = r % 2
  BY <1>1
<1>6. \A x \in 0 .. 7 : (8 * q + x) % 2 = x % 2
  BY <1>1
<1> QED BY <1>1, <1>2, <1>3, <1>4, <1>5, <1>6

\* What a store of the control word leaves.
LEMMA ControlStored ==
  ASSUME NEW word \in Int
  PROVE  /\ StoredControl(word) \in 0 .. 2 * COUNTFLAG - 1
         /\ StoredControl(word) % 2 = word % 2
<1> DEFINE m == 2 * COUNTFLAG
           low == word % m
<1>1. m \in Nat /\ m > 0 /\ m % 8 = 0 /\ m % 2 = 0
  BY Eights
<1>2. low \in 0 .. m - 1
  BY <1>1
<1>3. low % 2 = word % 2
  <2>1. word = 2 * (COUNTFLAG * (word \div m)) + low
    BY Eights
  <2>2. COUNTFLAG * (word \div m) \in Int /\ low \in Int
    BY Eights
  <2> HIDE DEF low, m
  <2> QED BY <2>1, <2>2, Even
<1>4. StoredControl(word) = low - 2 * ((low \div 2) % 2) + 4 * (1 - ((low \div 4) % 2))
  BY DEF StoredControl, CLKSOURCE
<1> HIDE DEF low, m
<1>5. StoredControl(word) \in 0 .. m - 1 /\ StoredControl(word) % 2 = low % 2
  BY <1>1, <1>2, <1>4, LowBits
<1> QED BY <1>3, <1>5 DEF m

\* A word of three bytes is its lanes.
LEMMA Lanes ==
  ASSUME NEW a \in 0 .. ByteMod - 1, NEW b \in 0 .. ByteMod - 1, NEW c \in 0 .. ByteMod - 1,
         NEW w, w = a + ByteMod * b + ByteMod * ByteMod * c
  PROVE  /\ w \in 0 .. Weight(3) - 1
         /\ Lane(w, 0) = a /\ Lane(w, 1) = b /\ Lane(w, 2) = c
<1>1. ByteMod \in Nat \ {0} /\ ByteMod * ByteMod \in Nat
  BY SysTickAssumption
<1>2. a + ByteMod * b \in 0 .. ByteMod * ByteMod - 1
  <2>1. ByteMod * b \in Nat /\ ByteMod * b <= ByteMod * ByteMod - ByteMod
    BY <1>1
  <2> QED BY <1>1, <2>1
<1>3. w = ByteMod * (b + ByteMod * c) + a /\ b + ByteMod * c \in Int
  BY <1>1
<1>4. w \div ByteMod = b + ByteMod * c /\ w % ByteMod = a
  BY <1>1, <1>3, Divides
<1>5. (b + ByteMod * c) % ByteMod = b
  BY <1>1, Divides
<1>6. (ByteMod * ByteMod) * c + (a + ByteMod * b) = w
  BY <1>1
<1>7. w \div (ByteMod * ByteMod) = c
  <2>1. ByteMod * ByteMod \in Nat \ {0} BY <1>1
  <2> DEFINE s == ByteMod * ByteMod
             r == a + ByteMod * b
  <2>2. s \in Nat \ {0} /\ r \in 0 .. s - 1 /\ c \in Int BY <1>2, <2>1
  <2>3. s * c + r = w BY <1>6
  <2> HIDE DEF s, r
  <2>4. (s * c + r) \div s = c BY <2>2, Divides, ZenonT(60)
  <2> QED BY <2>3, <2>4 DEF s
<1>8. c % ByteMod = c
  BY <1>1
<1>9. Lane(w, 0) = (w \div 1) % ByteMod /\ Lane(w, 1) = (w \div ByteMod) % ByteMod
      /\ Lane(w, 2) = (w \div (ByteMod * ByteMod)) % ByteMod
  BY Weights DEF Lane
<1>10. w \in Int /\ w >= 0
  BY <1>1, <1>2, <1>6
<1>11. w < Weight(3)
  <2>1. (ByteMod * ByteMod) * c <= (ByteMod * ByteMod) * (ByteMod - 1)
    BY <1>1
  <2>2. (ByteMod * ByteMod) * (ByteMod - 1) = Weight(3) - ByteMod * ByteMod
    BY <1>1, Weights
  <2>3. Weight(3) \in Int BY <1>1, Weights
  <2> QED BY <1>1, <1>2, <1>6, <2>1, <2>2, <2>3
<1>12. w \in 0 .. Weight(3) - 1
  BY <1>10, <1>11, Weights, <1>1
<1>13. w \div 1 = w
  BY <1>10
<1> QED BY <1>4, <1>5, <1>7, <1>8, <1>9, <1>12, <1>13

LEMMA HasLanes ==
  ASSUME NEW w \in 0 .. Weight(3) - 1
  PROVE  \E a, b, c \in 0 .. ByteMod - 1 : w = a + ByteMod * b + ByteMod * ByteMod * c
<1> DEFINE a == w % ByteMod
           v == w \div ByteMod
           b == v % ByteMod
           c == v \div ByteMod
<1>1. ByteMod \in Nat \ {0} BY SysTickAssumption
<1>2. w \in Nat /\ w < ByteMod * (ByteMod * ByteMod)
  BY <1>1, Weights
<1>3. a \in 0 .. ByteMod - 1 /\ v \in Nat /\ w = ByteMod * v + a
  BY <1>1, <1>2
<1>4. v < ByteMod * ByteMod
  <2> HIDE DEF a, v
  <2>1. ByteMod * v < ByteMod * (ByteMod * ByteMod) BY <1>1, <1>2, <1>3
  <2>2. ByteMod * ByteMod \in Nat BY <1>1
  <2> QED BY <1>1, <1>3, <2>1, <2>2
<1> HIDE DEF a, v
<1>5. b \in 0 .. ByteMod - 1 /\ c \in Nat /\ v = ByteMod * c + b
  BY <1>1, <1>3
<1>6. c < ByteMod
  <2> HIDE DEF b, c
  <2>1. ByteMod * c < ByteMod * ByteMod BY <1>1, <1>3, <1>4, <1>5
  <2> QED BY <1>1, <1>5, <2>1
<1> HIDE DEF b, c
<1>7. c \in 0 .. ByteMod - 1
  BY <1>1, <1>5, <1>6
<1>8. w = a + ByteMod * b + ByteMod * ByteMod * c
  BY <1>1, <1>3, <1>5, <1>7
<1> QED BY <1>3, <1>5, <1>7, <1>8

\* A byte merged into another lane leaves bit 0.
LEMMA MergeKeepsBit0 ==
  ASSUME NEW w \in Int, NEW k \in 1 .. 3, NEW data \in Int
  PROVE  MergeByte(w, k, data) \in Int /\ MergeByte(w, k, data) % 2 = w % 2
<1> DEFINE half == Weight(k) \div 2
           x    == (data % ByteMod) - Lane(w, k)
<1>1. ByteMod \in Nat \ {0} /\ ByteMod % 2 = 0
  BY SysTickAssumption
<1>2. PICK h \in Nat : ByteMod = 2 * h
  <2>1. ByteMod = 2 * (ByteMod \div 2) /\ ByteMod \div 2 \in Nat
    BY <1>1
  <2> QED BY <2>1
<1>3. Weight(k) = 2 * half /\ half \in Nat /\ Weight(k) \in Nat \ {0}
  <2>1. CASE k = 1 BY <1>1, <2>1, Weights
  <2>2. CASE k = 2 BY Eights, <2>2 DEF COUNTFLAG
  <2>3. CASE k = 3
    <3>1. Weight(3) = 2 * (h * (ByteMod * ByteMod)) /\ h * (ByteMod * ByteMod) \in Nat
      BY <1>1, <1>2, Weights
    <3>2. Weight(3) # 0 BY Eights
    <3> QED BY <2>3, <3>1, <3>2
  <2> QED BY <2>1, <2>2, <2>3
<1>4. x \in Int
  BY <1>1, <1>3 DEF Lane
<1>5. MergeByte(w, k, data) = w + x * Weight(k)
  <2>1. \A v, l, d, m \in Int : v - l * m + d * m = v + (d - l) * m
    OBVIOUS
  <2>2. Lane(w, k) \in Int /\ data % ByteMod \in Int
    BY <1>1, <1>3 DEF Lane
  <2>3. MergeByte(w, k, data) = w - Lane(w, k) * Weight(k) + (data % ByteMod) * Weight(k)
    BY DEF MergeByte
  <2> QED BY <1>3, <2>1, <2>2, <2>3
<1> HIDE DEF half, x
<1>6. MergeByte(w, k, data) = 2 * (x * half) + w /\ x * half \in Int
  BY <1>3, <1>4, <1>5
<1> QED BY <1>6, Even

\* A byte merged into a word of three bytes, and cut to three bytes again,
\* leaves the other lanes.
LEMMA MergeKeepsLanes ==
  ASSUME NEW w \in 0 .. Weight(3) - 1, NEW k \in 1 .. 3, NEW data \in Int,
         NEW j \in 0 .. 2, j # k
  PROVE  Lane(MergeByte(w, k, data) % Weight(3), j) = Lane(w, j)
<1>1. PICK a, b, c \in 0 .. ByteMod - 1 : w = a + ByteMod * b + ByteMod * ByteMod * c
  BY HasLanes
<1>2. Lane(w, 0) = a /\ Lane(w, 1) = b /\ Lane(w, 2) = c
  BY <1>1, Lanes
<1>3. ByteMod \in Nat \ {0} /\ Weight(3) \in Nat \ {0} /\ w \in Nat
  BY SysTickAssumption, Eights
<1> DEFINE d == data % ByteMod
<1>4. d \in 0 .. ByteMod - 1
  BY <1>3
<1>5. \A x \in 0 .. Weight(3) - 1 : x % Weight(3) = x
  BY <1>3
<1> HIDE DEF d
<1>6. CASE k = 1
  <2>1. MergeByte(w, 1, data) = w - b * ByteMod + d * ByteMod
    BY <1>2, Weights DEF MergeByte, d
  <2>2. MergeByte(w, 1, data) = a + ByteMod * d + ByteMod * ByteMod * c
    BY <1>1, <1>3, <1>4, <2>1
  <2>3. /\ MergeByte(w, 1, data) \in 0 .. Weight(3) - 1
        /\ Lane(MergeByte(w, 1, data), 0) = a /\ Lane(MergeByte(w, 1, data), 2) = c
    BY <1>1, <1>4, <2>2, Lanes
  <2> QED BY <1>2, <1>5, <1>6, <2>3
<1>7. CASE k = 2
  <2>1. MergeByte(w, 2, data) = w - c * (ByteMod * ByteMod) + d * (ByteMod * ByteMod)
    BY <1>2, Weights DEF MergeByte, d
  <2>2. MergeByte(w, 2, data) = a + ByteMod * b + ByteMod * ByteMod * d
    BY <1>1, <1>3, <1>4, <2>1
  <2>3. /\ MergeByte(w, 2, data) \in 0 .. Weight(3) - 1
        /\ Lane(MergeByte(w, 2, data), 0) = a /\ Lane(MergeByte(w, 2, data), 1) = b
    BY <1>1, <1>4, <2>2, Lanes
  <2> QED BY <1>2, <1>5, <1>7, <2>3
<1>8. CASE k = 3
  <2>1. Lane(w, 3) = 0
    <3>1. w \div Weight(3) = 0 BY <1>3
    <3> QED BY <1>3, <3>1 DEF Lane
  <2>2. MergeByte(w, 3, data) = Weight(3) * d + w
    BY <1>3, <1>4, <2>1 DEF MergeByte, d
  <2>3. MergeByte(w, 3, data) % Weight(3) = w
    BY <1>3, <1>4, <2>2, Divides
  <2> QED BY <1>8, <2>3
<1> QED BY <1>6, <1>7, <1>8

-----------------------------------------------------------------------------
(***************************************************************************)
(* The timer.                                                              *)
(***************************************************************************)
\* COUNTFLAG is the upper half of the control word.
LEMMA Flag ==
  ASSUME NEW control \in 0 .. 2 * COUNTFLAG - 1
  PROVE  /\ Counted(control) <=> control >= COUNTFLAG
         /\ ~Counted(control) => /\ control + COUNTFLAG \in 0 .. 2 * COUNTFLAG - 1
                                 /\ Counted(control + COUNTFLAG)
                                 /\ Enabled(control + COUNTFLAG) = Enabled(control)
<1>1. COUNTFLAG \in Nat \ {0} /\ COUNTFLAG % 2 = 0 /\ ByteMod \in Nat /\ ByteMod >= 8
  BY Eights, SysTickAssumption
<1>2. \A x \in 0 .. 2 * COUNTFLAG - 1 : Counted(x) <=> x >= COUNTFLAG
  <2>1. SUFFICES ASSUME NEW x \in 0 .. 2 * COUNTFLAG - 1
                 PROVE  ((x \div COUNTFLAG) % ByteMod) % 2 = 1 <=> x >= COUNTFLAG
    BY DEF Counted, Lane, COUNTFLAG
  <2>2. CASE x < COUNTFLAG
    <3>1. x \div COUNTFLAG = 0 BY <1>1, <2>2
    <3> QED BY <1>1, <2>2, <3>1
  <2>3. CASE x >= COUNTFLAG
    <3>1. x \div COUNTFLAG = 1 BY <1>1, <2>3
    <3>2. 1 % ByteMod = 1 BY <1>1
    <3> QED BY <1>1, <2>3, <3>1, <3>2
  <2> QED BY <1>1, <2>2, <2>3
<1>3. (control + COUNTFLAG) % 2 = control % 2
  BY <1>1
<1> QED BY <1>1, <1>2, <1>3 DEF Enabled

\* What t ticks do to a timer.
LEMMA Ticked ==
  ASSUME NEW s \in TimerType, NEW t \in 1 .. Longest
  PROVE  /\ Tick(s, t) \in TimerType
         /\ Tick(s, t).reload = s.reload
         /\ Enabled(Tick(s, t).control) = Enabled(s.control)
         /\ Enabled(s.control) =>
              /\ t < s.value => /\ Tick(s, t).value = s.value - t
                                /\ Counted(Tick(s, t).control) = Counted(s.control)
              /\ t >= s.value /\ s.reload > Longest =>
                   /\ Tick(s, t).value = s.reload - t + s.value
                   /\ Counted(Tick(s, t).control) <=> s.value > 0 \/ Counted(s.control)
<1>1. /\ WordMod \in Nat \ {0} /\ COUNTFLAG \in Nat /\ Weight(3) \in Nat /\ WordMod >= Weight(3)
      /\ Longest \in Nat /\ Word = 0 .. WordMod - 1
  BY Eights, SysTickAssumption DEF Word
<1>2. /\ s = [control |-> s.control, reload |-> s.reload, value |-> s.value]
      /\ s.control \in 0 .. 2 * COUNTFLAG - 1
      /\ s.reload \in 0 .. Weight(3) - 1 /\ s.value \in Word
  BY DEF TimerType
<1>3. CASE ~Enabled(s.control)
  <2>1. Tick(s, t) = s BY <1>3 DEF Tick
  <2> QED BY <1>3, <2>1
<1>4. CASE Enabled(s.control) /\ t < s.value
  <2>1. ~(t >= s.value) BY <1>1, <1>2, <1>4
  <2>2. Tick(s, t) = [s EXCEPT !.value = s.value - t] BY <1>4, <2>1 DEF Tick
  <2>3. s.value - t \in Word BY <1>1, <1>2, <1>4
  <2> QED BY <1>2, <1>4, <2>1, <2>2, <2>3 DEF TimerType
<1>5. CASE Enabled(s.control) /\ t >= s.value
  <2> DEFINE c == IF s.value > 0 /\ ~Counted(s.control) THEN s.control + COUNTFLAG ELSE s.control
             v == (s.reload - t + s.value) % WordMod
  <2>1. Tick(s, t) = [control |-> c, reload |-> s.reload, value |-> v]
    <3>1. Tick(s, t) = [s EXCEPT !.control = c, !.value = v] BY <1>5 DEF Tick
    <3> QED BY <1>2, <3>1
  <2>2. c \in 0 .. 2 * COUNTFLAG - 1 BY <1>2, Flag
  <2>3. Enabled(c) = Enabled(s.control) BY <1>2, Flag
  <2>4. Counted(c) <=> s.value > 0 \/ Counted(s.control)
    <3>1. CASE s.value > 0 /\ ~Counted(s.control)
      <4>1. c = s.control + COUNTFLAG BY <3>1
      <4> QED BY <1>2, <3>1, <4>1, Flag
    <3>2. CASE ~(s.value > 0 /\ ~Counted(s.control))
      <4>1. c = s.control BY <3>2
      <4>2. s.value > 0 => Counted(s.control) BY <3>2
      <4> HIDE DEF c
      <4> QED BY <4>1, <4>2
    <3> QED BY <3>1, <3>2
  <2>5. v \in Word BY <1>1, <1>2, SMTT(60)
  <2>6. s.reload > Longest => v = s.reload - t + s.value
    <3>1. HAVE s.reload > Longest
    <3>2. s.reload - t + s.value \in 0 .. WordMod - 1 BY <1>1, <1>2, <1>5, <3>1, SMTT(60)
    <3> QED BY <1>1, <3>2
  <2>7. ~(t < s.value) BY <1>1, <1>2, <1>5
  <2> HIDE DEF c, v
  <2> QED BY <1>2, <1>5, <2>1, <2>2, <2>3, <2>4, <2>5, <2>6, <2>7 DEF TimerType
<1>6. t < s.value \/ t >= s.value BY <1>1, <1>2
<1> QED BY <1>3, <1>4, <1>5, <1>6

\* A clock that tells the time before t ticks tells it after them.
LEMMA TellsOn ==
  ASSUME NEW s \in TimerType, NEW c \in ClockType, NEW t \in 1 .. Longest,
         c.valid, Tells(s, c)
  PROVE  Tells(Tick(s, t), [c EXCEPT !.ticks = @ + t])
<1> DEFINE z == Tick(s, t)
           d == [c EXCEPT !.ticks = @ + t]
<1>1. /\ d.valid /\ d.read = c.read /\ d.flag = c.flag /\ d.reload = c.reload
      /\ d.ticks = c.ticks + t
  BY DEF ClockType
<1>2. /\ Enabled(s.control) /\ s.reload = c.reload /\ c.reload > Longest
      /\ c.read > 0 => (Counted(s.control) <=> c.flag \/ c.ticks >= c.read)
      /\ c.ticks >= c.read => s.value \in 0 .. c.reload
      /\ c.ticks < c.read => s.value = c.read - c.ticks
  BY DEF Tells
<1>3. PICK n \in 0 .. c.ticks : s.value + c.ticks = c.read + n * c.reload
  BY DEF Tells
<1>4. /\ c.ticks \in Nat /\ c.read \in Nat /\ s.value \in Nat /\ c.reload \in Nat
      /\ Longest \in Nat
  BY SysTickAssumption, Eights DEF ClockType, TimerType, Word
<1>5. Enabled(z.control) /\ z.reload = s.reload
  BY <1>2, Ticked
<1>6. t < s.value => z.value = s.value - t /\ (Counted(z.control) <=> Counted(s.control))
  BY <1>2, Ticked
<1>7. t >= s.value => /\ z.value = c.reload - t + s.value
                      /\ Counted(z.control) <=> s.value > 0 \/ Counted(s.control)
  BY <1>2, Ticked
<1> HIDE DEF z, d
<1>8. \E m \in 0 .. d.ticks : z.value + d.ticks = c.read + m * c.reload
  <2> DEFINE p == n * c.reload
  <2>1. p \in Int /\ (n + 1) * c.reload = p + c.reload BY <1>4
  <2>2. s.value + c.ticks = c.read + p BY <1>3
  <2> HIDE DEF p
  <2>3. CASE t < s.value
    <3>1. z.value = s.value - t BY <1>6, <2>3
    <3>2. z.value + d.ticks = c.read + p BY <1>1, <1>4, <2>1, <2>2, <3>1
    <3>3. n \in 0 .. d.ticks BY <1>1, <1>4
    <3> QED BY <3>2, <3>3 DEF p
  <2>4. CASE t >= s.value
    <3>1. z.value = c.reload - t + s.value BY <1>7, <2>4
    <3>2. z.value + d.ticks = c.read + (p + c.reload) BY <1>1, <1>4, <2>1, <2>2, <3>1
    <3>3. n + 1 \in 0 .. d.ticks BY <1>1, <1>4
    <3> QED BY <2>1, <3>2, <3>3
  <2> QED BY <1>4, <2>3, <2>4
<1>9. c.read > 0 => (Counted(z.control) <=> c.flag \/ d.ticks >= c.read)
  <2>1. SUFFICES ASSUME c.read > 0 PROVE Counted(z.control) <=> c.flag \/ d.ticks >= c.read
    OBVIOUS
  <2>2. CASE c.ticks >= c.read
    <3>1. Counted(s.control) BY <1>2, <2>1, <2>2
    <3>2. Counted(z.control) BY <1>4, <1>6, <1>7, <3>1
    <3>3. d.ticks >= c.read BY <1>1, <1>4, <2>2
    <3> QED BY <3>2, <3>3
  <2>3. CASE c.ticks < c.read
    <3>1. Counted(s.control) <=> c.flag BY <1>2, <1>4, <2>1, <2>3
    <3>2. s.value = c.read - c.ticks BY <1>2, <2>3
    <3>3. CASE t < s.value
      <4>1. ~(d.ticks >= c.read) BY <1>1, <1>4, <3>2, <3>3
      <4> QED BY <1>6, <3>1, <3>3, <4>1
    <3>4. CASE t >= s.value
      <4>1. d.ticks >= c.read BY <1>1, <1>4, <3>2, <3>4
      <4>2. s.value > 0 BY <1>4, <2>3, <3>2
      <4> QED BY <1>7, <3>4, <4>1, <4>2
    <3> QED BY <1>4, <3>3, <3>4
  <2> QED BY <1>4, <2>2, <2>3
<1>10. d.ticks >= c.read => z.value \in 0 .. c.reload
  <2>1. CASE t < s.value
    <3>1. c.ticks < c.read => d.ticks < c.read BY <1>1, <1>2, <1>4, <2>1
    <3> QED BY <1>1, <1>2, <1>4, <1>6, <2>1, <3>1
  <2>2. CASE t >= s.value BY <1>2, <1>4, <1>7, <2>2
  <2> QED BY <1>4, <2>1, <2>2
<1>11. d.ticks < c.read => z.value = c.read - d.ticks
  BY <1>1, <1>2, <1>4, <1>6
<1> QED BY <1>1, <1>2, <1>5, <1>8, <1>9, <1>10, <1>11 DEF Tells, z, d

\* An instruction that leaves a timer s and a clock that tells its time.
LEMMA ExecutedTells ==
  ASSUME NEW s \in TimerType, NEW c \in ClockType, NEW t \in 1 .. Longest,
         Tells(s, c), exited \in BOOLEAN, Executed(s, c, t)
  PROVE  /\ systick' \in TimerType /\ clock' \in ClockType /\ exited' \in BOOLEAN
         /\ Tells(systick', clock')
<1>1. systick' = Tick(s, t) /\ exited' = exited
  BY DEF Executed
<1>2. Tick(s, t) \in TimerType
  BY Ticked
<1>3. CASE c.valid
  <2>1. clock' = [c EXCEPT !.ticks = @ + t] BY <1>3 DEF Executed
  <2>2. t \in Nat BY SysTickAssumption
  <2>3. [c EXCEPT !.ticks = @ + t] \in ClockType BY <2>2 DEF ClockType
  <2>4. Tells(Tick(s, t), [c EXCEPT !.ticks = @ + t]) BY <1>3, TellsOn
  <2> QED BY <1>1, <1>2, <2>1, <2>3, <2>4
<1>4. CASE ~c.valid
  <2>1. clock' = c BY <1>4 DEF Executed
  <2> QED BY <1>1, <1>2, <1>4, <2>1 DEF Tells
<1> QED BY <1>3, <1>4

\* No clock, and a load of the counter.
LEMMA NoClockTells == NoClock \in ClockType /\ \A s : Tells(s, NoClock)
<1>1. 0 \in Word /\ 0 \in 0 .. Weight(3) - 1
  BY Eights DEF Word
<1> QED BY <1>1 DEF NoClock, ClockType, Tells

LEMMA ReadingTells ==
  ASSUME systick \in TimerType
  PROVE  Reading \in ClockType /\ Tells(systick, Reading)
<1>1. CASE Enabled(systick.control) /\ systick.reload > Longest
  <2> DEFINE r == [valid |-> TRUE, read |-> systick.value, flag |-> Counted(systick.control),
                   reload |-> systick.reload, ticks |-> 0]
  <2>1. Reading = r BY <1>1 DEF Reading
  <2>2. systick.value \in Word /\ systick.value \in Nat /\ systick.reload \in 0 .. Weight(3) - 1
    BY Eights DEF TimerType, Word
  <2>3. systick.reload \in Nat BY <2>2, Eights
  <2>4. Counted(systick.control) \in BOOLEAN BY DEF Counted
  <2>5. r \in ClockType BY <2>2, <2>4 DEF ClockType
  <2>6. systick.value + 0 = systick.value + 0 * systick.reload BY <2>2, <2>3
  <2>7. \E n \in 0 .. 0 : systick.value + 0 = systick.value + n * systick.reload
    BY <2>6
  <2>8. systick.value > 0 =>
          (Counted(systick.control) <=> Counted(systick.control) \/ 0 >= systick.value)
    BY <2>2
  <2>9. 0 >= systick.value => systick.value \in 0 .. systick.reload
    BY <2>2, <2>3
  <2>10. 0 < systick.value => systick.value = systick.value - 0
    BY <2>2
  <2>11. Tells(systick, r) BY <1>1, <2>7, <2>8, <2>9, <2>10 DEF Tells
  <2> QED BY <2>1, <2>5, <2>11
<1>2. CASE ~(Enabled(systick.control) /\ systick.reload > Longest)
  BY <1>2, NoClockTells DEF Reading
<1> QED BY <1>1, <1>2

\* Loads and stores leave a timer.
LEMMA AfterLoadType ==
  ASSUME systick \in TimerType, NEW o
  PROVE  AfterLoad(o) \in TimerType /\ (o # 0 => AfterLoad(o) = systick)
<1>1. COUNTFLAG \in 0 .. 2 * COUNTFLAG - 1 /\ 0 \in 0 .. 2 * COUNTFLAG - 1
  BY Eights
<1> QED BY <1>1 DEF AfterLoad, TimerType

LEMMA StoredType ==
  ASSUME NEW s \in TimerType, NEW o, NEW word \in Int
  PROVE  /\ Stored(s, o, word) \in TimerType
         /\ o \notin {0, 4, 8} => Stored(s, o, word) = s
<1>1. StoredControl(word) \in 0 .. 2 * COUNTFLAG - 1
  BY ControlStored
<1>2. word % Weight(3) \in 0 .. Weight(3) - 1 /\ 0 \in Word
  BY Eights DEF Word
<1>3. CASE o = 0 BY <1>1, <1>3 DEF Stored, TimerType
<1>4. CASE o = 4 BY <1>2, <1>4 DEF Stored, TimerType
<1>5. CASE o = 8 BY <1>2, <1>5 DEF Stored, TimerType
<1>6. CASE o \notin {0, 4, 8}
  <2>1. Stored(s, o, word) = s BY <1>6 DEF Stored
  <2> QED BY <2>1
<1> QED BY <1>3, <1>4, <1>5, <1>6

LEMMA MergedType ==
  ASSUME NEW w \in Int, NEW k \in 0 .. 3, NEW data \in Int
  PROVE  MergeByte(w, k, data) \in Int /\ MergeHalf(w, k, data) \in Int
<1>1. Weight(k) \in Nat \ {0} /\ Weight(2) \in Nat \ {0} /\ ByteMod \in Nat \ {0}
  <2>1. ByteMod \in Nat \ {0} BY SysTickAssumption
  <2>2. Weight(0) \in Nat \ {0} /\ Weight(1) \in Nat \ {0} BY <2>1, Weights
  <2>3. Weight(2) \in Nat \ {0} /\ Weight(3) \in Nat \ {0} BY Eights DEF COUNTFLAG
  <2> QED BY <2>1, <2>2, <2>3
<1>2. \A m \in Nat \ {0} : \A x \in Int : x % m \in Int /\ x \div m \in Int
  OBVIOUS
<1>3. \A x, y, z, m \in Int : x - y * m + z * m \in Int
  OBVIOUS
<1> DEFINE wk == Weight(k)
           w2 == Weight(2)
<1>4. MergeByte(w, k, data) = w - ((w \div wk) % ByteMod) * wk + (data % ByteMod) * wk
  BY DEF MergeByte, Lane
<1>5. MergeHalf(w, k, data) = w - ((w \div wk) % w2) * wk + (data % w2) * wk
  BY DEF MergeHalf
<1>6. wk \in Nat \ {0} /\ w2 \in Nat \ {0} BY <1>1
<1> HIDE DEF wk, w2
<1>7. (w \div wk) % ByteMod \in Int /\ data % ByteMod \in Int
  BY <1>1, <1>2, <1>6
<1>8. (w \div wk) % w2 \in Int /\ data % w2 \in Int
  BY <1>2, <1>6
<1> QED BY <1>3, <1>4, <1>5, <1>6, <1>7, <1>8

-----------------------------------------------------------------------------
(***************************************************************************)
(* The steps.                                                              *)
(***************************************************************************)
Typed == systick \in TimerType /\ clock \in ClockType /\ exited \in BOOLEAN

LEMMA Words ==
  /\ CALIB \in Int /\ Data \subseteq Int /\ Offsets \subseteq 0 .. 15
  /\ TIMING_MEM \in 1 .. Longest /\ Ticks \subseteq 1 .. Longest
BY SysTickAssumption, Eights DEF Word

LEMMA Addresses ==
  \A o \in 0 .. 15 : Aligned(o) \in {0, 4, 8, 12} /\ o % 4 \in 0 .. 3
BY DEF Aligned

LEMMA LoadedType == ASSUME Typed, NEW o PROVE Loaded(o) \in Int
<1>1. systick.control \in Int /\ systick.reload \in Int /\ systick.value \in Int
  BY Eights DEF Typed, TimerType, Word
<1> QED BY <1>1, Words DEF Loaded

LEMMA ExitTells ==
  ASSUME Typed, Tells(systick, clock), sim_exit
  PROVE  Typed' /\ Tells(systick', clock')
BY DEF Typed, sim_exit

LEMMA LdrTells ==
  ASSUME Typed, Tells(systick, clock), NEW o \in 0 .. 15, ldr(o)
  PROVE  Typed' /\ Tells(systick', clock')
<1>1. CASE o = 0
  <2>1. Executed(AfterLoad(o), NoClock, TIMING_MEM) BY <1>1 DEF ldr
  <2> QED BY <2>1, AfterLoadType, NoClockTells, ExecutedTells, Words DEF Typed
<1>2. CASE o # 0 /\ o \div 4 = 2
  <2>1. Executed(systick, Reading, TIMING_MEM) BY <1>2, AfterLoadType DEF ldr, Typed
  <2> QED BY <2>1, ReadingTells, ExecutedTells, Words DEF Typed
<1>3. CASE o # 0 /\ o \div 4 # 2
  <2>1. Executed(systick, clock, TIMING_MEM) BY <1>3, AfterLoadType DEF ldr, Typed
  <2> QED BY <2>1, ExecutedTells, Words DEF Typed
<1> QED BY <1>1, <1>2, <1>3

LEMMA StrTells ==
  ASSUME Typed, Tells(systick, clock), NEW o \in 0 .. 15, NEW word \in Int, str(o, word)
  PROVE  Typed' /\ Tells(systick', clock')
<1>1. CASE ~CanStore(o) BY <1>1, ExitTells DEF str
<1>2. CASE CanStore(o) /\ o % 4 = 0
  <2>1. Executed(Stored(systick, o, word), NoClock, TIMING_MEM) BY <1>2 DEF str
  <2>2. Stored(systick, o, word) \in TimerType BY StoredType DEF Typed
  <2> QED BY <2>1, <2>2, NoClockTells, ExecutedTells, Words DEF Typed
<1>3. CASE CanStore(o) /\ o % 4 # 0
  <2>1. o \notin {0, 4, 8} BY <1>3
  <2>2. Stored(systick, o, word) = systick BY <2>1, StoredType DEF Typed
  <2>3. Executed(systick, clock, TIMING_MEM) BY <1>3, <2>2 DEF str
  <2> QED BY <2>3, ExecutedTells, Words DEF Typed
<1> QED BY <1>1, <1>2, <1>3

LEMMA MergedTells ==
  ASSUME Typed, Tells(systick, clock), NEW o, NEW word \in Int, strMerged(o, word)
  PROVE  Typed' /\ Tells(systick', clock')
<1>1. CASE ~CanStore(o) BY <1>1, ExitTells DEF strMerged
<1>2. CASE CanStore(o)
  <2>1. Executed(Stored(AfterLoad(o), o, word), NoClock, TIMING_MEM) BY <1>2 DEF strMerged
  <2>2. Stored(AfterLoad(o), o, word) \in TimerType BY StoredType, AfterLoadType DEF Typed
  <2> QED BY <2>1, <2>2, NoClockTells, ExecutedTells, Words DEF Typed
<1> QED BY <1>1, <1>2

\* The type invariant in the two forms.
LEMMA TypeForms == TypeOK <=> Typed /\ steps \in 0 .. MaxSteps
BY DEF TypeOK, Typed, TimerType, ClockType

LEMMA ResetTells == ResetValues \in TimerType
<1>1. CLKSOURCE \in 0 .. 2 * COUNTFLAG - 1 /\ 0 \in 0 .. Weight(3) - 1 /\ 0 \in Word
  BY Eights DEF CLKSOURCE, Word
<1> QED BY <1>1 DEF ResetValues, TimerType

LEMMA InitInv == Init => TimeInv
<1>1. 0 \in 0 .. MaxSteps BY SysTickAssumption
<1> QED BY <1>1, TypeForms, ResetTells, NoClockTells DEF Init, TimeInv, Typed

LEMMA StepInv == TimeInv /\ [Next]_vars => TimeInv'
<1> SUFFICES ASSUME TimeInv, [Next]_vars PROVE TimeInv'
  OBVIOUS
<1>1. Typed /\ Tells(systick, clock) /\ steps \in 0 .. MaxSteps
  BY TypeForms DEF TimeInv
<1>2. SUFFICES Typed' /\ Tells(systick', clock') /\ steps' \in 0 .. MaxSteps
  BY TypeForms DEF TimeInv, TypeOK, Typed, TimerType, ClockType
<1>3. CASE UNCHANGED vars BY <1>1, <1>3 DEF vars, Typed
<1>4. CASE Next
  <2>1. steps' \in 0 .. MaxSteps BY <1>1, <1>4, SysTickAssumption DEF Next
  <2>2. ASSUME NEW o \in Offsets, ldr(o) \/ ldrb(o) PROVE Typed' /\ Tells(systick', clock')
    <3>1. o \in 0 .. 15 /\ Aligned(o) \in 0 .. 15 BY Words, Addresses
    <3> QED BY <1>1, <2>2, <3>1, LdrTells DEF ldrb
  <2>3. ASSUME NEW o \in Offsets, NEW d \in Data, str(o, d) \/ strb(o, d) \/ strh(o, d)
        PROVE  Typed' /\ Tells(systick', clock')
    <3>1. o \in 0 .. 15 /\ d \in Int /\ o % 4 \in 0 .. 3 BY Words, Addresses
    <3>2. CASE str(o, d) BY <1>1, <3>1, <3>2, StrTells
    <3>3. CASE strb(o, d)
      <4>1. MergeByte(Loaded(Aligned(o)), o % 4, d) \in Int
        BY <1>1, <3>1, LoadedType, MergedType
      <4> QED BY <1>1, <3>3, <4>1, MergedTells DEF strb
    <3>4. CASE strh(o, d)
      <4> DEFINE k == IF o % 4 >= 2 THEN 2 ELSE 0
      <4>1. MergeHalf(Loaded(Aligned(o)), k, d) \in Int
        <5>1. k \in 0 .. 3 OBVIOUS
        <5> HIDE DEF k
        <5> QED BY <1>1, <3>1, <5>1, LoadedType, MergedType
      <4>2. strMerged(Aligned(o), MergeHalf(Loaded(Aligned(o)), k, d)) BY <3>4 DEF strh
      <4> HIDE DEF k
      <4> QED BY <1>1, <4>1, <4>2, MergedTells
    <3> QED BY <2>3, <3>2, <3>3, <3>4
  <2>4. ASSUME NEW t \in Ticks, other(t) PROVE Typed' /\ Tells(systick', clock')
    BY <1>1, <2>4, ExecutedTells, Words DEF other, Typed
  <2>5. CASE cpu_reset
    <3>1. systick' = ResetValues /\ clock' = NoClock /\ exited' = exited BY <2>5 DEF cpu_reset
    <3>2. Tells(systick', NoClock) BY NoClockTells
    <3> QED BY <1>1, <2>1, <3>1, <3>2, ResetTells, NoClockTells DEF Typed
  <2> QED BY <1>4, <2>1, <2>2, <2>3, <2>4, <2>5 DEF Next
<1> QED BY <1>3, <1>4

THEOREM TimeInvariant == Spec => []TimeInv
BY InitInv, StepInv, PTL DEF Spec

\* The words keep their widths: seventeen bits, three bytes and a word.
THEOREM WidthsStay == Spec => []TypeOK
<1>1. TimeInv => TypeOK BY DEF TimeInv
<1> QED BY <1>1, TimeInvariant, PTL

\* Two loads of the counter measure the ticks in between, and COUNTFLAG tells
\* of zero.
THEOREM TimeIsKept == Spec => []KeepsTime
<1>1. TimeInv => KeepsTime BY DEF TimeInv, KeepsTime, Tells
<1> QED BY <1>1, TimeInvariant, PTL

\* A byte store to control or reload leaves the bytes it does not address.
THEOREM ByteStores == Spec => ByteStoresKeepTheRest
<1>1. ASSUME TimeInv, NEW o \in Offsets \cap 1 .. 7, NEW d \in Data, strb(o, d)
      PROVE  /\ o < 4 => Enabled(systick'.control) = Enabled(systick.control)
             /\ o > 4 => \A k \in 0 .. 2 \ {o - 4} :
                           Lane(systick'.reload, k) = Lane(systick.reload, k)
  <2>1. Typed /\ d \in Int BY <1>1, TypeForms, Words DEF TimeInv
  <2> DEFINE a == Aligned(o)
             m == MergeByte(Loaded(a), o % 4, d)
  <2>2. /\ o < 4 => a = 0 /\ o % 4 = o /\ o \in 1 .. 3
        /\ o > 4 => a = 4 /\ o % 4 = o - 4 /\ o - 4 \in 1 .. 3
        /\ a # 12
    BY DEF Aligned
  <2>3. systick' = Tick(Stored(AfterLoad(a), a, m), TIMING_MEM)
    <3>1. CanStore(a) BY <2>2 DEF CanStore
    <3>2. strMerged(a, m) BY <1>1 DEF strb
    <3> HIDE DEF a, m
    <3> QED BY <3>1, <3>2 DEF strMerged, Executed
  <2>4. ASSUME o < 4 PROVE Enabled(systick'.control) = Enabled(systick.control)
    <3>1. a = 0 /\ o % 4 = o /\ o \in 1 .. 3 BY <2>2, <2>4
    <3>2. Loaded(0) = systick.control /\ systick.control \in Int
      BY <2>1, Eights DEF Loaded, Typed, TimerType
    <3>3. m \in Int /\ m % 2 = systick.control % 2
      <4>1. m = MergeByte(systick.control, o, d) BY <3>1, <3>2
      <4> HIDE DEF m
      <4>2. MergeByte(systick.control, o, d) \in Int
            /\ MergeByte(systick.control, o, d) % 2 = systick.control % 2
        BY <2>1, <3>1, <3>2, MergeKeepsBit0
      <4> QED BY <4>1, <4>2
    <3> HIDE DEF a, m
    <3>4. Stored(AfterLoad(a), a, m) \in TimerType
      BY <2>1, <3>3, AfterLoadType, StoredType DEF Typed
    <3>5. Stored(AfterLoad(a), a, m).control = StoredControl(m)
      BY <2>1, <3>1, AfterLoadType DEF Stored, Typed, TimerType
    <3>6. Enabled(systick'.control) = Enabled(StoredControl(m))
      BY <2>3, <2>4, <3>4, <3>5, Ticked, Words
    <3> QED BY <3>3, <3>6, ControlStored DEF Enabled
  <2>5. ASSUME o > 4, NEW k \in 0 .. 2 \ {o - 4}
        PROVE  Lane(systick'.reload, k) = Lane(systick.reload, k)
    <3>1. a = 4 /\ o % 4 \in 1 .. 3 /\ k \in 0 .. 2 /\ k # o % 4 BY <2>2, <2>5
    <3>2. Loaded(4) = systick.reload /\ systick.reload \in 0 .. Weight(3) - 1
      BY <2>1 DEF Loaded, Typed, TimerType
    <3>3. systick.reload \in Int BY <3>2, Eights
    <3>4. m = MergeByte(systick.reload, o % 4, d) BY <3>1, <3>2
    <3>5. m \in Int BY <2>1, <3>1, <3>3, <3>4, MergeKeepsBit0
    <3>6. Lane(m % Weight(3), k) = Lane(systick.reload, k)
      BY <2>1, <3>1, <3>2, <3>4, MergeKeepsLanes
    <3> HIDE DEF a, m
    <3>7. Stored(AfterLoad(a), a, m) \in TimerType
      BY <2>1, <3>5, AfterLoadType, StoredType DEF Typed
    <3>8. Stored(AfterLoad(a), a, m).reload = m % Weight(3)
      BY <2>1, <3>1, AfterLoadType DEF Stored, Typed, TimerType
    <3>9. systick'.reload = m % Weight(3)
      BY <2>3, <2>5, <3>7, <3>8, Ticked, Words
    <3> QED BY <3>6, <3>9
  <2> QED BY <2>4, <2>5
<1>2. TimeInv /\ [Next]_vars =>
        [\A o \in Offsets \cap 1 .. 7, d \in Data :
           strb(o, d) =>
             /\ o < 4 => Enabled(systick'.control) = Enabled(systick.control)
             /\ o > 4 => \A k \in 0 .. 2 \ {o - 4} :
                          Lane(systick'.reload, k) = Lane(systick.reload, k)]_vars
  BY <1>1
<1> QED BY <1>2, TimeInvariant, PTL DEF Spec, ByteStoresKeepTheRest
=============================================================================
