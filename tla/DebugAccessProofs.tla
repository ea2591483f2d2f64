-------------------------- MODULE DebugAccessProofs --------------------------
(***************************************************************************)
(* Theorems about the debugger's requests, for every size of nibbles and   *)
(* words, every layout of the memories and every set of requests: the      *)
(* simulator's variables keep their types, requests and replies fit, what  *)
(* was written is read back, and a reset is charged once.                  *)
(***************************************************************************)
EXTENDS DebugAccess, SequenceTheorems, WellFoundedInduction, TLAPS

-----------------------------------------------------------------------------
(***************************************************************************)
(* Recursive functions.                                                    *)
(***************************************************************************)

\* Induction, from the least number that would be left out.
LEMMA NatInduct ==
  ASSUME NEW T \in SUBSET Nat, 0 \in T, \A n \in T : n + 1 \in T
  PROVE  T = Nat
<1>1. SUFFICES ASSUME Nat \ T # {} PROVE FALSE
  OBVIOUS
<1>2. \E m \in Nat \ T : \A y \in Nat \ T : ~(y < m)
  <2>1. PICK m \in Nat \ T : \A y \in Nat \ T : ~(<<y, m>> \in OpToRel(<, Nat))
    BY <1>1, WFMin, NatLessThanWellFounded, Zenon
  <2>2. \A y \in Nat \ T : ~(y < m)
    BY <2>1, Zenon DEF OpToRel
  <2> QED BY <2>2
<1>3. PICK m \in Nat \ T : \A y \in Nat \ T : ~(y < m)
  BY <1>2
<1>4. m - 1 \in Nat /\ m - 1 \in T
  BY <1>3
<1> QED BY <1>3, <1>4

\* Induction up to n.
LEMMA UpTo ==
  ASSUME NEW n \in Nat, NEW T \in SUBSET (0 .. n), 0 \in T,
         \A k \in 1 .. n : k - 1 \in T => k \in T
  PROVE  T = 0 .. n
<1> DEFINE U == {k \in Nat : k <= n => k \in T}
<1>1. 0 \in U
  OBVIOUS
<1>2. ASSUME NEW k \in U PROVE k + 1 \in U
  <2>1. k \in Nat /\ (k <= n => k \in T) /\ (k + 1) - 1 = k
    OBVIOUS
  <2>2. k + 1 <= n => k \in T /\ k + 1 \in 1 .. n
    BY <2>1
  <2>3. k + 1 <= n => k + 1 \in T
    BY <2>1, <2>2
  <2> QED BY <2>1, <2>3
<1> HIDE DEF U
<1>3. U = Nat
  <2>1. U \subseteq Nat
    BY DEF U
  <2> QED BY <1>1, <1>2, <2>1, NatInduct
<1>4. \A k \in 0 .. n : k \in T
  BY <1>3 DEF U
<1> QED BY <1>4

\* f is the recursion from start by the steps F.
Solves(f, F, start, n) == f[0] = start /\ \A k \in 1 .. n : f[k] = F[k][f[k - 1]]

\* A recursion over 0 .. n whose steps stay in a set has a solution.
LEMMA Recursion ==
  ASSUME NEW T, NEW start \in T, NEW n \in Nat, NEW F \in [1 .. n -> [T -> T]]
  PROVE  \E f \in [0 .. n -> T] : Solves(f, F, start, n)
<1> DEFINE S == {m \in 0 .. n : \E f \in [0 .. m -> T] : Solves(f, F, start, m)}
<1>1. 0 \in S
  <2> DEFINE f == [k \in 0 .. 0 |-> start]
  <2>1. f \in [0 .. 0 -> T] /\ f[0] = start /\ 1 .. 0 = {}
    OBVIOUS
  <2> HIDE DEF f
  <2> QED BY <2>1 DEF Solves
<1>2. ASSUME NEW m \in 1 .. n, m - 1 \in S PROVE m \in S
  <2>1. PICK f \in [0 .. m - 1 -> T] : Solves(f, F, start, m - 1)
    BY <1>2
  <2> DEFINE h == [k \in 0 .. m |-> IF k = m THEN F[m][f[m - 1]] ELSE f[k]]
  <2>2. m - 1 \in 0 .. m - 1 /\ m \in Int /\ 0 \in 0 .. m - 1
    OBVIOUS
  <2>3. f[m - 1] \in T
    BY <2>2
  <2>4. F[m][f[m - 1]] \in T
    BY <2>3
  <2>5. \A k \in 0 .. m : k = m \/ k \in 0 .. m - 1
    BY <2>2
  <2>6. h \in [0 .. m -> T]
    BY <2>4, <2>5
  <2>7. /\ h[m] = F[m][f[m - 1]]
        /\ \A k \in 0 .. m - 1 : h[k] = f[k]
    BY <2>2
  <2> HIDE DEF h
  <2>8. /\ \A k \in 1 .. m - 1 : k - 1 \in 0 .. m - 1 /\ k \in 0 .. m - 1
        /\ \A k \in 1 .. m : k = m \/ k \in 1 .. m - 1
    BY <2>2
  <2>9. Solves(h, F, start, m)
    <3>1. h[0] = start
      BY <2>1, <2>2, <2>7, Zenon DEF Solves
    <3>2. \A k \in 1 .. m : h[k] = F[k][h[k - 1]]
      BY <2>1, <2>2, <2>7, <2>8, Zenon DEF Solves
    <3> QED BY <3>1, <3>2 DEF Solves
  <2>10. m \in 0 .. n
    OBVIOUS
  <2> QED BY <2>6, <2>9, <2>10
<1>3. S \in SUBSET (0 .. n)
  OBVIOUS
<1> HIDE DEF S
<1>4. S = 0 .. n
  BY <1>1, <1>2, <1>3, UpTo
<1>5. n \in S
  BY <1>4
<1> QED BY <1>5 DEF S

\* The partial sums.
LEMMA SumRuns ==
  ASSUME NEW n \in Nat, NEW term \in [1 .. n -> Int]
  PROVE  \E s \in [0 .. n -> Int] :
           /\ s[0] = 0 /\ \A k \in 1 .. n : s[k] = s[k - 1] + term[k]
           /\ Sum(term, n) = s[n]
<1> DEFINE s[k \in 0 .. n] == IF k = 0 THEN 0 ELSE s[k - 1] + term[k]
           F == [k \in 1 .. n |-> [v \in Int |-> v + term[k]]]
<1>1. Sum(term, n) = s[n]
  BY DEF Sum
<1>2. F \in [1 .. n -> [Int -> Int]] /\ \A k \in 1 .. n : \A v \in Int : F[k][v] = v + term[k]
  OBVIOUS
<1>3. PICK f \in [0 .. n -> Int] : Solves(f, F, 0, n)
  <2> HIDE DEF F
  <2>1. 0 \in Int
    OBVIOUS
  <2> QED BY <1>2, <2>1, Recursion, Zenon
<1> HIDE DEF F
<1>4. \A k \in 1 .. n : k - 1 \in 0 .. n /\ k \in 0 .. n /\ k # 0
  OBVIOUS
<1>5. \A k \in 0 .. n : k = 0 \/ k \in 1 .. n
  OBVIOUS
<1>6. \A k \in 1 .. n : f[k] = f[k - 1] + term[k]
  BY <1>2, <1>3, <1>4 DEF Solves
<1>7. f = [k \in 0 .. n |-> IF k = 0 THEN 0 ELSE f[k - 1] + term[k]]
  <2>1. \A k \in 0 .. n : f[k] = IF k = 0 THEN 0 ELSE f[k - 1] + term[k]
    BY <1>3, <1>5, <1>6, Zenon DEF Solves
  <2> QED BY <2>1
<1>8. s = [k \in 0 .. n |-> IF k = 0 THEN 0 ELSE s[k - 1] + term[k]]
  BY <1>7, Zenon DEF s
<1> HIDE DEF s
<1>9. s[0] = 0 /\ \A k \in 1 .. n : s[k] = s[k - 1] + term[k]
  BY <1>4, <1>8
<1>10. s \in [0 .. n -> Int]
  <2> DEFINE T == {k \in 0 .. n : s[k] \in Int}
  <2>1. 0 \in T /\ \A k \in 1 .. n : k - 1 \in T => k \in T
    BY <1>4, <1>9
  <2>2. T \in SUBSET (0 .. n)
    OBVIOUS
  <2> HIDE DEF T
  <2>3. T = 0 .. n
    BY <2>1, <2>2, UpTo
  <2> QED BY <1>8, <2>3 DEF T
<1> QED BY <1>1, <1>9, <1>10

\* The weights.
LEMMA WeightStep ==
  /\ Weight \in [0 .. Digits -> Nat \ {0}]
  /\ Weight[0] = 1 /\ \A k \in 1 .. Digits : Weight[k] = Nibble * Weight[k - 1]
<1> DEFINE F == [k \in 1 .. Digits |-> [v \in Nat |-> Nibble * v]]
<1>1. Digits \in Nat /\ Nibble \in Nat \ {0}
  BY DebugAssumption DEF Digits
<1>2. /\ F \in [1 .. Digits -> [Nat -> Nat]]
      /\ \A k \in 1 .. Digits : \A v \in Nat : F[k][v] = Nibble * v
  <2>1. \A v \in Nat : Nibble * v \in Nat
    BY <1>1
  <2> QED BY <2>1
<1>3. PICK f \in [0 .. Digits -> Nat] : Solves(f, F, 1, Digits)
  <2> HIDE DEF F
  <2>1. 1 \in Nat
    OBVIOUS
  <2> QED BY <1>1, <1>2, <2>1, Recursion, Zenon
<1> HIDE DEF F
<1>4. \A k \in 1 .. Digits : k - 1 \in 0 .. Digits /\ k \in 0 .. Digits /\ k # 0
  BY <1>1
<1>5. \A k \in 0 .. Digits : k = 0 \/ k \in 1 .. Digits
  BY <1>1
<1>6. \A k \in 1 .. Digits : f[k] = Nibble * f[k - 1]
  BY <1>2, <1>3, <1>4 DEF Solves
<1>7. f = [k \in 0 .. Digits |-> IF k = 0 THEN 1 ELSE Nibble * f[k - 1]]
  <2>1. \A k \in 0 .. Digits : f[k] = IF k = 0 THEN 1 ELSE Nibble * f[k - 1]
    BY <1>3, <1>5, <1>6, Zenon DEF Solves
  <2> QED BY <2>1
<1>8. Weight = [k \in 0 .. Digits |-> IF k = 0 THEN 1 ELSE Nibble * Weight[k - 1]]
  BY <1>7, Zenon DEF Weight
<1>9. Weight[0] = 1 /\ \A k \in 1 .. Digits : Weight[k] = Nibble * Weight[k - 1]
  <2>1. \A k \in 0 .. Digits : Weight[k] = IF k = 0 THEN 1 ELSE Nibble * Weight[k - 1]
    BY <1>8, Zenon
  <2>2. 0 \in 0 .. Digits
    BY <1>1
  <2> QED BY <1>4, <2>1, <2>2, Zenon
<1>10. Weight \in [0 .. Digits -> Nat \ {0}]
  <2> DEFINE T == {k \in 0 .. Digits : Weight[k] \in Nat \ {0}}
  <2>0. \A v \in Nat \ {0} : Nibble * v \in Nat \ {0}
    BY <1>1
  <2>1. 0 \in T /\ \A k \in 1 .. Digits : k - 1 \in T => k \in T
    <3>1. 0 \in T
      BY <1>1, <1>9
    <3>2. ASSUME NEW k \in 1 .. Digits, k - 1 \in T PROVE k \in T
      BY <1>4, <1>9, <2>0, <3>2
    <3> QED BY <3>1, <3>2
  <2>2. T \in SUBSET (0 .. Digits)
    OBVIOUS
  <2> HIDE DEF T
  <2>3. T = 0 .. Digits
    BY <1>1, <2>1, <2>2, UpTo
  <2> QED BY <1>8, <2>3 DEF T
<1> QED BY <1>9, <1>10

-----------------------------------------------------------------------------
(***************************************************************************)
(* Quotients, remainders and digits.                                       *)
(***************************************************************************)

\* Division leaves a remainder.
LEMMA Divided ==
  \A b \in Nat \ {0} : \A a \in Nat :
    a \div b \in Nat /\ a % b \in 0 .. b - 1 /\ a = b * (a \div b) + (a % b)
OBVIOUS

\* What is left of a division is below the divisor.
LEMMA Remainder == \A b \in Nat \ {0} : \A a \in Nat : a % b \in Nat /\ a % b < b
BY Divided

\* There is one quotient and one remainder.
LEMMA Quotient ==
  ASSUME NEW b \in Nat \ {0}, NEW q \in Int, NEW r \in Nat, r < b, NEW a \in Int, a = b * q + r
  PROVE  a \div b = q /\ a % b = r
<1>1. (b * q + r) \div b = q /\ (b * q + r) % b = r
  OBVIOUS
<1> QED BY <1>1

\* To divide by a product is to divide by one factor and then by the other.
LEMMA DividedTwice ==
  ASSUME NEW w \in Nat, NEW a \in Nat \ {0}, NEW b \in Nat \ {0}
  PROVE  w \div (a * b) = (w \div a) \div b
<1> DEFINE q == w \div a
           h == q \div b
           x == q % b
           y == w % a
<1>1. q \in Nat /\ y \in Nat /\ y < a /\ w = a * q + y
  BY Divided, Remainder
<1>2. h \in Nat /\ x \in Nat /\ x < b /\ q = b * h + x
  BY <1>1, Divided, Remainder
<1>3. w \div a = q /\ q \div b = h
  OBVIOUS
<1> HIDE DEF q, h, x, y
<1>4. w = (a * b) * h + (a * x + y)
  <2>1. a * (b * h + x) = (a * b) * h + a * x
    BY <1>1, <1>2
  <2> QED BY <2>1, <1>1, <1>2
<1>5. a * x + y \in Nat /\ a * x + y < a * b /\ a * b \in Nat \ {0}
  <2>1. a * x <= a * (b - 1)
    BY <1>2
  <2>2. a * (b - 1) = a * b - a
    OBVIOUS
  <2>3. a * x \in Nat /\ a * b \in Nat \ {0}
    BY <1>2
  <2> QED BY <2>1, <2>2, <2>3, <1>1
<1>6. w \div (a * b) = h
  <2> DEFINE c == a * b
             r == a * x + y
  <2>1. c \in Nat \ {0} /\ r \in Nat /\ r < c /\ w = c * h + r
    BY <1>4, <1>5
  <2> HIDE DEF c, r
  <2>2. w \div c = h
    BY <2>1, <1>2, Quotient
  <2> QED BY <2>2 DEF c
<1> QED BY <1>3, <1>6

\* The remainder by a product has the two remainders as its parts.
LEMMA RemainderParts ==
  ASSUME NEW w \in Nat, NEW a \in Nat \ {0}, NEW b \in Nat \ {0}
  PROVE  /\ w % (a * b) = a * ((w \div a) % b) + (w % a)
         /\ (w % (a * b)) \div a = (w \div a) % b
         /\ (w % (a * b)) % a = w % a
<1> DEFINE q == w \div a
           c == a * b
           h == q \div b
           x == q % b
           y == w % a
           z == w % c
<1>1. q \in Nat /\ y \in Nat /\ y < a /\ w = a * q + y
  BY Divided, Remainder
<1>2. h \in Nat /\ x \in Nat /\ x < b /\ q = b * h + x
  BY <1>1, Divided, Remainder
<1>3. c \in Nat \ {0}
  OBVIOUS
<1>4. w \div c = h
  BY DividedTwice
<1>5. z \in Nat /\ w = c * (w \div c) + z
  <2> HIDE DEF c
  <2> QED BY <1>3, Divided, Remainder
<1>6. w = c * h + z
  BY <1>4, <1>5
<1>7. c = a * b
  OBVIOUS
<1> HIDE DEF q, c, h, x, y, z
<1>8. z = a * x + y
  <2>1. a * (b * h + x) = (a * b) * h + a * x
    BY <1>2
  <2> QED BY <2>1, <1>1, <1>2, <1>5, <1>6, <1>7
<1>9. z \div a = x /\ z % a = y
  <2>1. x \in Int /\ y \in Nat /\ y < a /\ z = a * x + y
    BY <1>1, <1>2, <1>8
  <2>2. (a * x + y) \div a = x /\ (a * x + y) % a = y
    BY <2>1
  <2> QED BY <2>1, <2>2
<1> QED BY <1>8, <1>9, Zenon DEF q, c, x, y, z

\* The upper part of what is left.
LEMMA RemainderHigh ==
  ASSUME NEW w \in Nat, NEW a \in Nat \ {0}, NEW b \in Nat \ {0}
  PROVE  (w % (a * b)) \div a = (w \div a) % b
BY RemainderParts, Zenon

\* The lower part of what is left.
LEMMA RemainderLow ==
  ASSUME NEW w \in Nat, NEW a \in Nat \ {0}, NEW b \in Nat \ {0}
  PROVE  (w % (a * b)) % a = w % a
BY RemainderParts, Zenon

\* A digit of a number, of base B at weight V, and the number with the digit b
\* there: the digit is b, and what is below and above is as it was.
DigitAt(w, V, B)     == (w \div V) % B
WithDigit(w, V, B, b) == w + (b - DigitAt(w, V, B)) * V

\* Two numbers with the same digits but the one of base B at weight V.
SameBut(v, w, V, B) == v % V = w % V /\ v \div (V * B) = w \div (V * B)

\* A digit put into a number is there, and the others are as they were.
LEMMA DigitPut ==
  ASSUME NEW V \in Nat \ {0}, NEW B \in Nat \ {0}, NEW w \in Nat, NEW b \in Nat, b < B
  PROVE  /\ WithDigit(w, V, B, b) \in Nat
         /\ DigitAt(WithDigit(w, V, B, b), V, B) = b
         /\ SameBut(WithDigit(w, V, B, b), w, V, B)
<1> DEFINE q == w \div V
           r == w % V
           h == q \div B
           d == q % B
           u == w + (b - d) * V
           p == B * h + b
<1>1. q \in Nat /\ r \in Nat /\ r < V /\ w = V * q + r
  BY Divided, Remainder
<1>2. h \in Nat /\ d \in Nat /\ d < B /\ q = B * h + d
  BY <1>1, Divided, Remainder
<1>3. u = w + (b - d) * V /\ p = B * h + b
  OBVIOUS
<1>4. u = WithDigit(w, V, B, b) /\ h = w \div (V * B)
  <2>1. h = w \div (V * B)
    BY DividedTwice, Zenon
  <2> QED BY <2>1 DEF WithDigit, DigitAt
<1> HIDE DEF q, r, h, d, u, p
<1>5. p \in Nat
  BY <1>2, <1>3
<1>6. u = V * p + r
  <2>1. V * (B * h + d) + (b - d) * V = V * (B * h + b)
    <3>1. V * (B * h + d) = V * (B * h) + V * d
      BY <1>2
    <3>2. (b - d) * V = V * b - V * d
      BY <1>2
    <3>3. V * (B * h + b) = V * (B * h) + V * b
      BY <1>2
    <3>4. V * (B * h) \in Int /\ V * d \in Int /\ V * b \in Int
      BY <1>2
    <3> QED BY <3>1, <3>2, <3>3, <3>4
  <2> QED BY <2>1, <1>1, <1>2, <1>3
<1>7. u \in Nat
  <2>1. V * p \in Nat
    BY <1>5
  <2> QED BY <2>1, <1>1, <1>6
<1>8. u \div V = p /\ u % V = r
  BY <1>1, <1>5, <1>6, <1>7, Quotient
<1>9. p % B = b /\ p \div B = h
  BY <1>2, <1>3, <1>5, Quotient
<1>10. u \div (V * B) = h
  BY <1>7, <1>8, <1>9, DividedTwice
<1> QED BY <1>4, <1>7, <1>8, <1>9, <1>10 DEF DigitAt, SameBut, r

\* What is above the digit by X times its base, and a weight V above M.
High(w, V, B, X) == w \div (V * B * X)
Over(V, M, B, X) == V = M * (B * X)

\* A digit further up does not see the change, nor does one further down.
LEMMA DigitAbove ==
  ASSUME NEW V \in Nat \ {0}, NEW B \in Nat \ {0}, NEW w \in Nat, NEW b \in Nat, b < B,
         NEW X \in Nat \ {0}
  PROVE  High(WithDigit(w, V, B, b), V, B, X) = High(w, V, B, X)
<1> DEFINE u == WithDigit(w, V, B, b)
           c == V * B
<1>1. u \in Nat /\ u \div c = w \div c /\ c \in Nat \ {0}
  <2>1. V * B \in Nat \ {0}
    OBVIOUS
  <2>2. u \in Nat /\ SameBut(u, w, V, B)
    BY DigitPut
  <2> QED BY <2>1, <2>2 DEF SameBut
<1> HIDE DEF u, c
<1>2. u \div (c * X) = w \div (c * X)
  <2>2. u \div (c * X) = (u \div c) \div X /\ w \div (c * X) = (w \div c) \div X
    BY <1>1, DividedTwice, Zenon
  <2> QED BY <1>1, <2>2
<1> QED BY <1>2 DEF u, c, High

\* A digit put into a number leaves the digits below it.
LEMMA DigitBelow ==
  ASSUME NEW V \in Nat \ {0}, NEW B \in Nat \ {0}, NEW w \in Nat, NEW b \in Nat, b < B,
         NEW M \in Nat \ {0}, NEW X \in Nat \ {0}, Over(V, M, B, X)
  PROVE  DigitAt(WithDigit(w, V, B, b), M, B) = DigitAt(w, M, B)
<1> DEFINE u == WithDigit(w, V, B, b)
           c == B * X
<1>0. V = M * c
  BY DEF Over
<1>1. u \in Nat /\ u % V = w % V
  <2>1. u \in Nat /\ SameBut(u, w, V, B)
    BY DigitPut
  <2> QED BY <2>1 DEF SameBut
<1>2. c \in Nat \ {0}
  OBVIOUS
<1> HIDE DEF u
<1>3. ASSUME NEW v \in Nat PROVE DigitAt(v, M, B) = ((v % V) \div M) % B
  <2>1. (v % (M * c)) \div M = (v \div M) % c
    <3> HIDE DEF c
    <3> QED BY <1>2, RemainderHigh, Zenon
  <2>2. v \div M \in Nat
    BY Divided
  <2>3. ((v \div M) % (B * X)) % B = (v \div M) % B
    BY <2>2, RemainderLow, Zenon
  <2> QED BY <1>0, <2>1, <2>3 DEF DigitAt
<1> QED BY <1>1, <1>3 DEF u

\* The weights of n digits of base B, and what the digits of w weigh.
Weights(V, B, n) ==
  /\ V \in [0 .. n -> Nat \ {0}] /\ V[0] = 1
  /\ \A k \in 1 .. n : V[k] = B * V[k - 1]
DigitTerms(w, V, B, n) == [k \in 1 .. n |-> DigitAt(w, V[k - 1], B) * V[k - 1]]

\* The value of digits d with weights V.
LEMMA DigitsFit ==
  ASSUME NEW n \in Nat, NEW B \in Nat \ {0}, NEW V, Weights(V, B, n),
         NEW d \in [1 .. n -> Nat], \A k \in 1 .. n : d[k] < B
  PROVE  Sum([k \in 1 .. n |-> d[k] * V[k - 1]], n) \in 0 .. V[n] - 1
<1>0. V \in [0 .. n -> Nat \ {0}] /\ V[0] = 1 /\ \A k \in 1 .. n : V[k] = B * V[k - 1]
  BY DEF Weights
<1> DEFINE term == [k \in 1 .. n |-> d[k] * V[k - 1]]
<1>1. \A k \in 1 .. n : k - 1 \in 0 .. n /\ k \in 0 .. n
  OBVIOUS
<1>2. \A k \in 1 .. n : V[k - 1] \in Nat \ {0} /\ d[k] \in Nat /\ d[k] * V[k - 1] \in Nat
  <2>1. ASSUME NEW k \in 1 .. n PROVE V[k - 1] \in Nat \ {0} /\ d[k] \in Nat
    BY <1>0, <1>1
  <2>2. \A x, y \in Nat : x * y \in Nat
    OBVIOUS
  <2> QED BY <2>1, <2>2
<1>3. term \in [1 .. n -> Int] /\ \A k \in 1 .. n : term[k] = d[k] * V[k - 1]
  BY <1>2
<1> HIDE DEF term
<1>4. PICK s \in [0 .. n -> Int] :
         /\ s[0] = 0 /\ \A k \in 1 .. n : s[k] = s[k - 1] + term[k]
         /\ Sum(term, n) = s[n]
  BY <1>3, SumRuns
<1> DEFINE T == {k \in 0 .. n : 0 <= s[k] /\ s[k] < V[k]}
<1>5. 0 \in T
  BY <1>0, <1>4
<1>6. ASSUME NEW k \in 1 .. n, k - 1 \in T PROVE k \in T
  <2> DEFINE v == V[k - 1]
             e == d[k]
             t == s[k - 1]
  <2>1. v \in Nat \ {0} /\ e \in Nat /\ e <= B - 1 /\ t \in Int /\ 0 <= t /\ t < v
    <3>1. v \in Nat \ {0} /\ e \in Nat /\ e < B
      BY <1>2, Zenon
    <3>2. t \in Int /\ 0 <= t /\ t < v
      BY <1>1, <1>4, <1>6, Zenon DEF T
    <3> HIDE DEF v, e, t
    <3> QED BY <3>1, <3>2
  <2>2. s[k] = t + e * v /\ V[k] = B * v
    BY <1>0, <1>3, <1>4
  <2> HIDE DEF v, e, t
  <2>3. e * v <= (B - 1) * v /\ 0 <= e * v /\ e * v \in Int
    BY <2>1
  <2>4. (B - 1) * v = B * v - v
    BY <2>1
  <2>5. 0 <= t + e * v /\ t + e * v < B * v
    <3> DEFINE x == e * v
               y == B * v
               z == (B - 1) * v
    <3>1. x <= z /\ 0 <= x /\ x \in Int /\ z = y - v /\ y \in Int
      BY <2>1, <2>3, <2>4
    <3> HIDE DEF x, y, z
    <3>2. 0 <= t + x /\ t + x < y
      BY <2>1, <3>1
    <3> QED BY <3>2 DEF x, y
  <2> QED BY <1>1, <2>2, <2>5
<1>7. T \in SUBSET (0 .. n)
  OBVIOUS
<1> HIDE DEF T
<1>8. T = 0 .. n
  BY <1>5, <1>6, <1>7, UpTo
<1>9. n \in T
  BY <1>8
<1>10. V[n] \in Nat
  BY <1>0
<1> QED BY <1>4, <1>9, <1>10 DEF T, term

\* The digits of a number give it again.
LEMMA DigitsOf ==
  ASSUME NEW n \in Nat, NEW B \in Nat \ {0}, NEW V, Weights(V, B, n),
         NEW w \in Nat, w < V[n]
  PROVE  Sum(DigitTerms(w, V, B, n), n) = w
<1>0. V \in [0 .. n -> Nat \ {0}] /\ V[0] = 1 /\ \A k \in 1 .. n : V[k] = B * V[k - 1]
  BY DEF Weights
<1> DEFINE term == DigitTerms(w, V, B, n)
<1>1. \A k \in 1 .. n : k - 1 \in 0 .. n /\ k \in 0 .. n
  OBVIOUS
<1>2. ASSUME NEW k \in 1 .. n
      PROVE  /\ V[k - 1] \in Nat \ {0} /\ DigitAt(w, V[k - 1], B) \in Nat
             /\ DigitAt(w, V[k - 1], B) * V[k - 1] \in Int
  <2>1. V[k - 1] \in Nat \ {0}
    BY <1>0, <1>1
  <2>2. w \div V[k - 1] \in Nat
    BY <2>1, Divided
  <2>3. DigitAt(w, V[k - 1], B) \in Nat
    BY <2>2, Remainder DEF DigitAt
  <2>4. \A x, y \in Nat : x * y \in Int
    OBVIOUS
  <2> QED BY <2>1, <2>3, <2>4
<1>3. term \in [1 .. n -> Int] /\ \A k \in 1 .. n : term[k] = DigitAt(w, V[k - 1], B) * V[k - 1]
  BY <1>2 DEF DigitTerms
<1> HIDE DEF term
<1>4. PICK s \in [0 .. n -> Int] :
         /\ s[0] = 0 /\ \A k \in 1 .. n : s[k] = s[k - 1] + term[k]
         /\ Sum(term, n) = s[n]
  BY <1>3, SumRuns
<1> DEFINE T == {k \in 0 .. n : s[k] = w % V[k]}
<1>5. 0 \in T
  BY <1>0, <1>4
<1>6. ASSUME NEW k \in 1 .. n, k - 1 \in T PROVE k \in T
  <2> DEFINE v == V[k - 1]
             e == DigitAt(w, v, B)
  <2>1. v \in Nat \ {0} /\ e \in Nat
    BY <1>2
  <2>2. s[k] = (w % v) + e * v /\ V[k] = v * B
    BY <1>0, <1>1, <1>3, <1>4, <1>6, <2>1
  <2>3. w % (v * B) = v * e + (w % v)
    <3> HIDE DEF v
    <3> QED BY <2>1, RemainderParts, Zenon DEF DigitAt
  <2>4. w % v \in Nat
    <3> HIDE DEF v, e
    <3> QED BY <2>1, Remainder
  <2>5. (w % v) + e * v = v * e + (w % v)
    <3> HIDE DEF v, e
    <3>1. \A x, y, z \in Nat : z + x * y = y * x + z
      OBVIOUS
    <3> DEFINE z == w % v
    <3>2. z \in Nat
      BY <2>4
    <3> HIDE DEF z
    <3>3. z + e * v = v * e + z
      BY <2>1, <3>1, <3>2
    <3> QED BY <3>3 DEF z
  <2>6. s[k] = w % V[k]
    <3> HIDE DEF v, e
    <3> QED BY <2>2, <2>3, <2>5
  <2> QED BY <1>1, <2>6
<1>7. T \in SUBSET (0 .. n)
  OBVIOUS
<1> HIDE DEF T
<1>8. T = 0 .. n
  BY <1>5, <1>6, <1>7, UpTo
<1>9. s[n] = w % V[n]
  BY <1>8 DEF T
<1>10. w % V[n] = w
  <2> DEFINE v == V[n]
  <2>1. v \in Nat \ {0} /\ w < v
    BY <1>0
  <2> HIDE DEF v
  <2>2. w = v * 0 + w /\ 0 \in Int /\ w \in Int
    BY <2>1
  <2>3. w % v = w
    BY <2>1, <2>2, Quotient, Zenon
  <2> QED BY <2>3 DEF v
<1> QED BY <1>4, <1>9, <1>10 DEF term

-----------------------------------------------------------------------------
(***************************************************************************)
(* Words, bytes and their text.                                            *)
(***************************************************************************)

\* The sizes of nibbles, bytes and words.
LEMMA Sizes ==
  /\ Nibble \in Nat /\ Nibble >= 2
  /\ ByteMod \in Nat /\ ByteMod >= 4 /\ ByteMod = Nibble * Nibble /\ ByteMod = 2 * (ByteMod \div 2)
  /\ WordBytes \in Nat /\ WordBytes >= 2 /\ WordBytes % 2 = 0
  /\ Digits \in Nat /\ Digits = 2 * WordBytes
<1>1. Nibble \in {2, 4, 8, 16} /\ WordBytes \in {2, 4}
  BY DebugAssumption
<1>2. ByteMod \in {4, 16, 64, 256}
  BY <1>1 DEF ByteMod
<1> QED BY <1>1, <1>2 DEF ByteMod, Digits

\* There are words.
LEMMA WordModType == WordMod \in Nat \ {0} /\ Weight[2 * WordBytes] = WordMod
BY Sizes, WeightStep DEF WordMod

\* The weights of the bytes.
LEMMA ByteWeights ==
  /\ [k \in 0 .. WordBytes |-> Weight[2 * k]] \in [0 .. WordBytes -> Nat \ {0}]
  /\ \A k \in 0 .. WordBytes : Weight[2 * k] \in Nat \ {0}
  /\ \A k \in 1 .. WordBytes : /\ Weight[2 * k - 1] = Weight[2 * (k - 1)] * Nibble
                               /\ Weight[2 * k] = ByteMod * Weight[2 * (k - 1)]
<1>1. \A k \in 0 .. WordBytes : 2 * k \in 0 .. Digits
  BY Sizes
<1>2. \A k \in 1 .. WordBytes : /\ 2 * k - 1 \in 1 .. Digits /\ 2 * k \in 1 .. Digits
                                /\ (2 * k - 1) - 1 = 2 * (k - 1) /\ k - 1 \in 0 .. WordBytes
  BY Sizes
<1>3. \A k \in 0 .. WordBytes : Weight[2 * k] \in Nat \ {0}
  BY <1>1, WeightStep
<1>4. ASSUME NEW k \in 1 .. WordBytes
      PROVE  /\ Weight[2 * k - 1] = Weight[2 * (k - 1)] * Nibble
             /\ Weight[2 * k] = ByteMod * Weight[2 * (k - 1)]
  <2> DEFINE v == Weight[2 * (k - 1)]
             u == Weight[2 * k - 1]
  <2>1. v \in Nat /\ u = Nibble * v /\ Weight[2 * k] = Nibble * u
    BY <1>2, <1>3, WeightStep, Zenon
  <2> HIDE DEF v, u
  <2>2. u = v * Nibble /\ Nibble * (Nibble * v) = (Nibble * Nibble) * v
    BY <2>1, Sizes
  <2>3. Weight[2 * k] = ByteMod * v
    BY <2>1, <2>2 DEF ByteMod
  <2> QED BY <2>2, <2>3 DEF u, v
<1> QED BY <1>3, <1>4

\* Words are even in number, and there are more than a few.
LEMMA WordsEven == WordMod >= 16 /\ WordMod = 2 * (WordMod \div 2)
<1>1. /\ Weight[0] = 1 /\ Weight[1] = Nibble * Weight[0]
      /\ Weight[2] = Nibble * Weight[1] /\ Weight[3] = Nibble * Weight[2]
      /\ Weight[4] = Nibble * Weight[3]
  <2>1. 1 \in 1 .. Digits /\ 2 \in 1 .. Digits /\ 3 \in 1 .. Digits /\ 4 \in 1 .. Digits
    BY Sizes
  <2>2. \A k \in 1 .. Digits : Weight[k] = Nibble * Weight[k - 1]
    BY WeightStep
  <2> QED BY <2>1, <2>2, WeightStep
<1>2. Nibble \in {2, 4, 8, 16} /\ WordBytes \in {2, 4}
  BY DebugAssumption
<1>3. Weight[4] \in {16, 256, 4096, 65536}
  BY <1>1, <1>2
<1>4. CASE WordBytes = 2
  BY <1>3, <1>4, WordModType
<1>5. CASE WordBytes = 4
  <2>1. 5 \in 1 .. Digits /\ 6 \in 1 .. Digits /\ 7 \in 1 .. Digits /\ 8 \in 1 .. Digits
    BY <1>5, Sizes
  <2>2. /\ Weight[5] = Nibble * Weight[4] /\ Weight[6] = Nibble * Weight[5]
        /\ Weight[7] = Nibble * Weight[6] /\ Weight[8] = Nibble * Weight[7]
    BY <2>1, WeightStep
  <2>3. Weight[8] \in {256, 65536, 16777216, 4294967296}
    BY <1>1, <1>2, <2>2
  <2> QED BY <1>5, <2>3, WordModType
<1> QED BY <1>2, <1>4, <1>5

\* One byte's weight divides that of any byte further up.
LEMMA WeightRatio ==
  \A j \in 0 .. WordBytes : \A i \in 0 .. j :
     \E X \in Nat \ {0} : Weight[2 * j] = Weight[2 * i] * X
<1> DEFINE T == {j \in 0 .. WordBytes : \A i \in 0 .. j :
                   \E X \in Nat \ {0} : Weight[2 * j] = Weight[2 * i] * X}
<1>0. \A v \in Nat : v = v * 1
  OBVIOUS
<1>1. 0 \in T
  <2>1. \A i \in 0 .. 0 : i = 0
    OBVIOUS
  <2>2. 0 \in 0 .. WordBytes /\ 1 \in Nat \ {0}
    BY Sizes
  <2>3. Weight[2 * 0] = Weight[2 * 0] * 1
    BY <1>0, <2>2, ByteWeights
  <2> QED BY <2>1, <2>2, <2>3
<1>2. ASSUME NEW j \in 1 .. WordBytes, j - 1 \in T PROVE j \in T
  <2>1. SUFFICES ASSUME NEW i \in 0 .. j
                 PROVE  \E X \in Nat \ {0} : Weight[2 * j] = Weight[2 * i] * X
    BY Sizes
  <2>2. CASE i = j
    <3>1. 1 \in Nat \ {0} /\ j \in 0 .. WordBytes
      BY Sizes
    <3>2. Weight[2 * j] = Weight[2 * j] * 1
      BY <1>0, <3>1, ByteWeights
    <3> QED BY <2>2, <3>1, <3>2
  <2>3. CASE i # j
    <3>1. i \in 0 .. j - 1 /\ i \in 0 .. WordBytes
      BY <2>3, Sizes
    <3>2. PICK X \in Nat \ {0} : Weight[2 * (j - 1)] = Weight[2 * i] * X
      BY <1>2, <3>1
    <3>3. Weight[2 * j] = ByteMod * Weight[2 * (j - 1)]
      BY ByteWeights
    <3> DEFINE v == Weight[2 * i]
    <3>4. v \in Nat
      BY <3>1, ByteWeights
    <3>5. ByteMod * (v * X) = v * (X * ByteMod) /\ X * ByteMod \in Nat \ {0}
      <4> HIDE DEF v
      <4> QED BY <3>4, Sizes
    <3> QED BY <3>2, <3>3, <3>5
  <2> QED BY <2>2, <2>3
<1>3. T \in SUBSET (0 .. WordBytes)
  OBVIOUS
<1> HIDE DEF T
<1>4. T = 0 .. WordBytes
  BY <1>1, <1>2, <1>3, UpTo, Sizes
<1> QED BY <1>4 DEF T

\* A lane of a word is a byte, and a digit of base ByteMod.
LEMMA LaneType ==
  \A w \in Nat, k \in 0 .. WordBytes - 1 :
    Lane(w, k) \in Byte /\ Lane(w, k) = DigitAt(w, Weight[2 * k], ByteMod)
<1>1. SUFFICES ASSUME NEW w \in Nat, NEW k \in 0 .. WordBytes - 1
               PROVE  Lane(w, k) \in Byte
  BY DEF Lane, DigitAt
<1>2. Weight[2 * k] \in Nat \ {0}
  BY ByteWeights, Sizes
<1>3. w \div Weight[2 * k] \in Nat
  BY <1>2, Divided
<1>4. ByteMod \in Nat \ {0}
  BY Sizes
<1> QED BY <1>3, <1>4, Remainder DEF Lane, Byte

\* A byte put into a word is there, and the other bytes are as they were.
LEMMA PutByte ==
  ASSUME NEW w \in Word, NEW k \in 0 .. WordBytes - 1, NEW b \in Byte
  PROVE  /\ Put(w, k, b) \in Word
         /\ Lane(Put(w, k, b), k) = b
         /\ \A j \in 0 .. WordBytes - 1 : j # k => Lane(Put(w, k, b), j) = Lane(w, j)
<1> DEFINE V == Weight[2 * k]
           u == Put(w, k, b)
<1>1. /\ V \in Nat \ {0} /\ ByteMod \in Nat \ {0} /\ b \in Nat /\ b < ByteMod /\ w \in Nat
      /\ k \in 0 .. WordBytes /\ k + 1 \in 0 .. WordBytes
      /\ w < WordMod
  BY ByteWeights, Sizes, WordModType DEF Byte, Word
<1>2. u = WithDigit(w, V, ByteMod, b)
  BY DEF Put, WithDigit, Lane, DigitAt
<1>3. u \in Nat /\ DigitAt(u, V, ByteMod) = b
  <2> HIDE DEF V, u
  <2> QED BY <1>1, <1>2, DigitPut
<1>4. ASSUME NEW j \in 0 .. WordBytes, k < j
      PROVE  u \div Weight[2 * j] = w \div Weight[2 * j]
  <2>1. PICK X \in Nat \ {0} : Weight[2 * j] = Weight[2 * (k + 1)] * X
    <3>1. k + 1 \in 0 .. j
      BY <1>4
    <3> QED BY <3>1, WeightRatio, Zenon
  <2>2. Weight[2 * (k + 1)] = V * ByteMod
    <3>1. k + 1 \in 1 .. WordBytes /\ (k + 1) - 1 = k
      BY Sizes
    <3>2. Weight[2 * (k + 1)] = ByteMod * V
      BY <3>1, ByteWeights
    <3> HIDE DEF V
    <3> QED BY <1>1, <3>2
  <2>3. Weight[2 * j] = V * ByteMod * X
    BY <2>1, <2>2
  <2> HIDE DEF V, u
  <2>4. High(WithDigit(w, V, ByteMod, b), V, ByteMod, X) = High(w, V, ByteMod, X)
    BY <1>1, DigitAbove
  <2> QED BY <1>2, <2>3, <2>4, Zenon DEF High
<1>5. u \in Word
  <2>1. WordBytes \in 0 .. WordBytes /\ k < WordBytes
    BY Sizes
  <2>2. u \div WordMod = w \div WordMod
    BY <1>4, <2>1, WordModType
  <2>3. w \div WordMod = 0
    <3>1. (WordMod * 0 + w) \div WordMod = 0
      BY <1>1, WordModType
    <3>2. WordMod * 0 + w = w
      BY <1>1, WordModType
    <3> QED BY <3>1, <3>2
  <2> HIDE DEF u, V
  <2>4. u = WordMod * (u \div WordMod) + (u % WordMod) /\ u % WordMod \in 0 .. WordMod - 1
    BY <1>3, WordModType, Divided
  <2>5. u = u % WordMod
    <3> DEFINE r == u % WordMod
    <3>1. u = WordMod * 0 + r /\ r \in 0 .. WordMod - 1
      BY <2>2, <2>3, <2>4
    <3> HIDE DEF r
    <3>2. u = r
      BY <3>1, WordModType
    <3> QED BY <3>2 DEF r
  <2> QED BY <2>4, <2>5 DEF Word
<1>6. Lane(u, k) = b
  <2> HIDE DEF u
  <2> QED BY <1>3, LaneType
<1>7. ASSUME NEW j \in 0 .. WordBytes - 1, j # k PROVE Lane(u, j) = Lane(w, j)
  <2>1. j \in 0 .. WordBytes /\ (k < j \/ j < k)
    BY <1>7, Sizes
  <2>2. CASE k < j
    BY <1>4, <2>1, <2>2 DEF Lane
  <2>3. CASE j < k
    <3> DEFINE M == Weight[2 * j]
    <3>1. j + 1 \in 0 .. k /\ j + 1 \in 1 .. WordBytes /\ (j + 1) - 1 = j
      BY <2>3, Sizes
    <3>2. PICK X \in Nat \ {0} : V = Weight[2 * (j + 1)] * X
      BY <1>1, <3>1, WeightRatio, Zenon
    <3>3. Weight[2 * (j + 1)] = ByteMod * M /\ M \in Nat \ {0}
      BY <2>1, <3>1, ByteWeights
    <3>4. DigitAt(u, M, ByteMod) = DigitAt(w, M, ByteMod)
      <4> HIDE DEF M, u, V
      <4>1. Over(V, M, ByteMod, X)
        <5>1. (ByteMod * M) * X = M * (ByteMod * X)
          BY <3>3, Sizes
        <5> QED BY <3>2, <3>3, <5>1 DEF Over
      <4>2. DigitAt(WithDigit(w, V, ByteMod, b), M, ByteMod) = DigitAt(w, M, ByteMod)
        BY <1>1, <3>3, <4>1, DigitBelow
      <4> QED BY <1>2, <4>2, Zenon
    <3> QED BY <3>4 DEF Lane, DigitAt
  <2> QED BY <2>1, <2>2, <2>3
<1> QED BY <1>5, <1>6, <1>7

\* The two digits of a byte.
LEMMA NibblesOfByte ==
  \A w \in Nat, k \in 0 .. WordBytes - 1 :
    /\ Lane(w, k) % Nibble = Nib(w, 2 * k)
    /\ Lane(w, k) \div Nibble = Nib(w, 2 * k + 1)
<1>1. SUFFICES ASSUME NEW w \in Nat, NEW k \in 0 .. WordBytes - 1
               PROVE  /\ Lane(w, k) % Nibble = Nib(w, 2 * k)
                      /\ Lane(w, k) \div Nibble = Nib(w, 2 * k + 1)
  BY Zenon
<1> DEFINE v == Weight[2 * k]
           q == w \div v
<1>2. v \in Nat \ {0} /\ Weight[2 * k + 1] = v * Nibble /\ Nibble \in Nat \ {0}
  <2>1. k + 1 \in 1 .. WordBytes /\ (k + 1) - 1 = k /\ 2 * (k + 1) - 1 = 2 * k + 1
        /\ k \in 0 .. WordBytes
    BY Sizes
  <2>2. Weight[2 * (k + 1) - 1] = Weight[2 * ((k + 1) - 1)] * Nibble
    BY <2>1, ByteWeights
  <2> QED BY <2>1, <2>2, ByteWeights, Sizes
<1>3. q \in Nat
  <2> HIDE DEF v
  <2> QED BY <1>2, Divided
<1>4. w \div (v * Nibble) = q \div Nibble
  <2> HIDE DEF v
  <2> QED BY <1>2, DividedTwice
<1>5. Lane(w, k) = q % (Nibble * Nibble)
  BY DEF Lane, ByteMod
<1>6. Nib(w, 2 * k) = q % Nibble /\ Nib(w, 2 * k + 1) = (q \div Nibble) % Nibble
  BY <1>2, <1>4, Zenon DEF Nib
<1> HIDE DEF v, q
<1>7. (q % (Nibble * Nibble)) \div Nibble = (q \div Nibble) % Nibble
  BY <1>2, <1>3, RemainderHigh, Zenon
<1>8. (q % (Nibble * Nibble)) % Nibble = q % Nibble
  BY <1>2, <1>3, RemainderLow, Zenon
<1> QED BY <1>5, <1>6, <1>7, <1>8

\* A byte is its two digits.
LEMMA ByteOfDigits ==
  \A b \in Byte : /\ (b \div Nibble) * Nibble + (b % Nibble) = b
                  /\ b \div Nibble \in 0 .. Nibble - 1 /\ b % Nibble \in 0 .. Nibble - 1
<1>1. SUFFICES ASSUME NEW b \in Byte
               PROVE  /\ (b \div Nibble) * Nibble + (b % Nibble) = b
                      /\ b \div Nibble \in 0 .. Nibble - 1 /\ b % Nibble \in 0 .. Nibble - 1
  BY Zenon
<1>2. Nibble \in {2, 4, 8, 16} /\ b \in 0 .. Nibble * Nibble - 1
  BY DebugAssumption DEF Byte, ByteMod
<1> QED BY <1>2

\* Swapping the digits of each byte.
LEMMA Places ==
  \A n \in 1 .. Digits : /\ Place(n - 1) \in 0 .. Digits - 1
                         /\ Place(Place(n - 1)) = n - 1
<1>1. SUFFICES ASSUME NEW n \in 1 .. Digits
               PROVE  Place(n - 1) \in 0 .. Digits - 1 /\ Place(Place(n - 1)) = n - 1
  BY Zenon
<1>2. CASE (n - 1) % 2 = 0
  <2>1. Place(n - 1) = n /\ n \in 0 .. Digits - 1 /\ n % 2 # 0
    BY <1>2, Sizes DEF Place
  <2>2. Place(n) = n - 1
    BY <2>1 DEF Place
  <2> QED BY <2>1, <2>2
<1>3. CASE (n - 1) % 2 # 0
  <2>1. Place(n - 1) = n - 2 /\ n - 2 \in 0 .. Digits - 1 /\ (n - 2) % 2 = 0
    BY <1>3, Sizes DEF Place
  <2>2. Place(n - 2) = n - 1
    BY <2>1 DEF Place
  <2> QED BY <2>1, <2>2
<1> QED BY <1>2, <1>3

\* The text of a register has Digits digits.
LEMMA RegTextLength == \A w : DOMAIN reg2hex(w) = 1 .. Digits /\ Len(reg2hex(w)) = Digits
<1>1. Digits \in Nat
  BY Sizes
<1>2. SUFFICES ASSUME NEW w
               PROVE  DOMAIN reg2hex(w) = 1 .. Digits /\ Len(reg2hex(w)) = Digits
  BY Zenon
<1> DEFINE t == reg2hex(w)
<1>3. t \in [1 .. Digits -> {Nib(w, k) : k \in Int}]
  <2>1. \A n \in 1 .. Digits : Place(n - 1) \in Int
    BY Places
  <2> QED BY <2>1 DEF reg2hex
<1> HIDE DEF t
<1>4. t \in Seq({Nib(w, k) : k \in Int}) /\ Len(t) = Digits
  BY <1>1, <1>3
<1> QED BY <1>3, <1>4 DEF t

\* What the client makes of a register's text is the register.
LEMMA WordBack == \A w \in Word : WordOf(reg2hex(w)) = w
<1>1. SUFFICES ASSUME NEW w \in Word PROVE WordOf(reg2hex(w)) = w
  BY Zenon
<1> DEFINE text == reg2hex(w)
           V == [k \in 0 .. WordBytes |-> Weight[2 * k]]
<1>2. w \in Nat /\ w < WordMod
  BY WordModType DEF Word
<1>3. Len(text) \div 2 = WordBytes
  BY RegTextLength, Sizes
<1>4. ASSUME NEW k \in 1 .. WordBytes
      PROVE  BytesOf(text)[k] = Lane(w, k - 1)
  <2>1. /\ k \in 1 .. Len(text) \div 2 /\ k - 1 \in 0 .. WordBytes - 1
        /\ 2 * k - 1 \in 1 .. Digits /\ 2 * k \in 1 .. Digits
        /\ (2 * k - 1) - 1 = 2 * (k - 1) /\ (2 * (k - 1)) % 2 = 0
        /\ 2 * k - 1 = 2 * (k - 1) + 1 /\ (2 * k - 1) % 2 # 0
        /\ (2 * k - 1) - 1 \in Int
    BY <1>3, Sizes
  <2>2. Place((2 * k - 1) - 1) = 2 * (k - 1) + 1 /\ Place(2 * k - 1) = 2 * (k - 1)
    BY <2>1 DEF Place
  <2>3. /\ text[2 * k - 1] = Nib(w, Place((2 * k - 1) - 1))
        /\ text[2 * k] = Nib(w, Place(2 * k - 1))
    BY <2>1, Zenon DEF reg2hex
  <2>4. /\ Lane(w, k - 1) % Nibble = Nib(w, 2 * (k - 1))
        /\ Lane(w, k - 1) \div Nibble = Nib(w, 2 * (k - 1) + 1)
    BY <1>2, <2>1, NibblesOfByte
  <2>5. BytesOf(text)[k] = text[2 * k - 1] * Nibble + text[2 * k]
    BY <2>1, Zenon DEF BytesOf
  <2>6. Lane(w, k - 1) \in Byte
    BY <1>2, <2>1, LaneType
  <2>7. (Lane(w, k - 1) \div Nibble) * Nibble + (Lane(w, k - 1) % Nibble) = Lane(w, k - 1)
    BY <2>6, ByteOfDigits
  <2> QED BY <2>2, <2>3, <2>4, <2>5, <2>7, Zenon
<1>5. /\ V \in [0 .. WordBytes -> Nat \ {0}] /\ V[0] = 1
      /\ \A k \in 1 .. WordBytes : V[k] = ByteMod * V[k - 1]
      /\ V[WordBytes] = WordMod
      /\ \A k \in 1 .. WordBytes : V[k - 1] = Weight[2 * (k - 1)]
  <2>1. /\ \A k \in 1 .. WordBytes : k \in 0 .. WordBytes /\ k - 1 \in 0 .. WordBytes
        /\ 0 \in 0 .. WordBytes /\ WordBytes \in 0 .. WordBytes /\ 2 * 0 = 0
    BY Sizes
  <2>2. \A k \in 0 .. WordBytes : V[k] = Weight[2 * k]
    OBVIOUS
  <2>3. V \in [0 .. WordBytes -> Nat \ {0}]
    BY ByteWeights
  <2> HIDE DEF V
  <2>4. V[0] = 1 /\ V[WordBytes] = WordMod
    BY <2>1, <2>2, WeightStep, WordModType
  <2>5. \A k \in 1 .. WordBytes : V[k] = ByteMod * V[k - 1] /\ V[k - 1] = Weight[2 * (k - 1)]
    BY <2>1, <2>2, ByteWeights, Zenon
  <2> QED BY <2>3, <2>4, <2>5
<1> DEFINE term == [k \in 1 .. WordBytes |-> BytesOf(text)[k] * Weight[2 * (k - 1)]]
<1>6. term = DigitTerms(w, V, ByteMod, WordBytes)
  <2>1. ASSUME NEW k \in 1 .. WordBytes
        PROVE  BytesOf(text)[k] * Weight[2 * (k - 1)] = DigitAt(w, V[k - 1], ByteMod) * V[k - 1]
    <3> HIDE DEF V, text
    <3>1. k - 1 \in 0 .. WordBytes - 1
      BY Sizes
    <3>2. Lane(w, k - 1) = DigitAt(w, Weight[2 * (k - 1)], ByteMod)
      BY <1>2, <3>1, LaneType
    <3> QED BY <1>4, <1>5, <3>2
  <2> HIDE DEF V, text
  <2> QED BY <2>1 DEF DigitTerms
<1> HIDE DEF V, term
<1>7. Sum(term, WordBytes) = w
  <2>1. ByteMod \in Nat \ {0} /\ WordBytes \in Nat /\ w < V[WordBytes]
    BY <1>2, <1>5, Sizes
  <2>2. Weights(V, ByteMod, WordBytes)
    BY <1>5 DEF Weights
  <2> QED BY <1>2, <1>6, <2>1, <2>2, DigitsOf
<1> QED BY <1>7 DEF term, WordOf

\* What the stub makes of the client's text is the word.
LEMMA TextBack == \A w \in Word : hex2reg(TextOf(w)) = w
<1>1. SUFFICES ASSUME NEW w \in Word PROVE hex2reg(TextOf(w)) = w
  BY Zenon
<1>2. w \in Nat /\ w < WordMod
  BY WordModType DEF Word
<1> DEFINE buf == TextOf(w)
           term == [n \in 1 .. Digits |-> buf[Place(n - 1) + 1] * Weight[n - 1]]
<1>3. ASSUME NEW n \in 1 .. Digits PROVE buf[Place(n - 1) + 1] = Nib(w, n - 1)
  <2> DEFINE m == Place(n - 1) + 1
             k == (m - 1) \div 2
             b == Lane(w, k)
  <2>1. m \in 1 .. Digits
    BY Places, Sizes
  <2>2. buf[m] = IF m % 2 = 1 THEN b \div Nibble ELSE b % Nibble
    <3> HIDE DEF m
    <3> QED BY <2>1, Zenon DEF TextOf
  <2>3. k \in 0 .. WordBytes - 1
    <3> HIDE DEF m
    <3> QED BY <2>1, Sizes
  <2>4. b % Nibble = Nib(w, 2 * k) /\ b \div Nibble = Nib(w, 2 * k + 1)
    <3> HIDE DEF k
    <3> QED BY <1>2, <2>3, NibblesOfByte
  <2>5. IF m % 2 = 1 THEN 2 * k + 1 = n - 1 ELSE 2 * k = n - 1
    <3>1. CASE (n - 1) % 2 = 0
      <4>1. m = n + 1
        BY <3>1 DEF Place
      <4>2. m % 2 # 1 /\ 2 * ((m - 1) \div 2) = n - 1
        BY <3>1, <4>1
      <4> QED BY <4>2
    <3>2. CASE (n - 1) % 2 # 0
      <4>1. m = n - 1
        BY <3>2 DEF Place
      <4>2. m % 2 = 1 /\ 2 * ((m - 1) \div 2) + 1 = n - 1
        BY <3>2, <4>1
      <4> QED BY <4>2
    <3> QED BY <3>1, <3>2
  <2> HIDE DEF m, k, b, buf
  <2>6. buf[m] = Nib(w, n - 1)
    BY <2>2, <2>4, <2>5
  <2> QED BY <2>6 DEF m
<1> HIDE DEF buf
<1>4. term = DigitTerms(w, Weight, Nibble, Digits)
  <2>1. \A n \in 1 .. Digits : buf[Place(n - 1) + 1] = DigitAt(w, Weight[n - 1], Nibble)
    BY <1>3, Zenon DEF Nib, DigitAt
  <2> QED BY <2>1 DEF DigitTerms
<1> HIDE DEF term
<1>5. Sum(term, Digits) = w
  <2>1. Nibble \in Nat \ {0} /\ Digits \in Nat /\ w < Weight[Digits]
    BY <1>2, Sizes DEF WordMod
  <2>2. Weights(Weight, Nibble, Digits)
    BY WeightStep DEF Weights
  <2> QED BY <1>2, <1>4, <2>1, <2>2, DigitsOf
<1> QED BY <1>5 DEF term, buf, hex2reg

\* The or of two words is a word.
LEMMA OrType == \A v, w \in Word : Or(v, w) \in Word
<1>1. SUFFICES ASSUME NEW v \in Word, NEW w \in Word PROVE Or(v, w) \in Word
  BY Zenon
<1> DEFINE d == [n \in 1 .. Digits |-> OrNibble(Nib(v, n - 1), Nib(w, n - 1))]
           term == [n \in 1 .. Digits |-> d[n] * Weight[n - 1]]
<1>2. v \in Nat /\ w \in Nat
  BY WordModType DEF Word
<1>3. \A x \in Nat, k \in 0 .. Digits - 1 : Nib(x, k) \in 0 .. Nibble - 1
  <2>1. SUFFICES ASSUME NEW x \in Nat, NEW k \in 0 .. Digits - 1
                 PROVE  Nib(x, k) \in 0 .. Nibble - 1
    BY Zenon
  <2>2. Weight[k] \in Nat \ {0} /\ Nibble \in Nat \ {0}
    <3>1. k \in 0 .. Digits
      BY Sizes
    <3>2. Weight[k] \in Nat \ {0}
      BY <3>1, WeightStep
    <3> QED BY <3>2, Sizes
  <2>3. x \div Weight[k] \in Nat
    BY <2>2, Divided
  <2> QED BY <2>2, <2>3, Remainder DEF Nib
<1>4. \A a, b \in 0 .. Nibble - 1 : OrNibble(a, b) \in 0 .. Nibble - 1
  <2>1. SUFFICES ASSUME NEW a \in 0 .. Nibble - 1, NEW b \in 0 .. Nibble - 1
                 PROVE  OrNibble(a, b) \in 0 .. Nibble - 1
    BY Zenon
  <2> DEFINE Bit(k) == IF 1 \in {(a \div k) % 2, (b \div k) % 2} THEN k ELSE 0
  <2>2. /\ Bit(1) \in {0, 1} /\ Bit(2) \in {0, 2} /\ Bit(4) \in {0, 4} /\ Bit(8) \in {0, 8}
    OBVIOUS
  <2>3. OrNibble(a, b) = Bit(1) + Bit(2) + Bit(4) + Bit(8)
    BY DEF OrNibble
  <2>4. \A k \in {2, 4, 8} : a < k /\ b < k => Bit(k) = 0
    BY Sizes
  <2> HIDE DEF Bit
  <2>5. Nibble \in {2, 4, 8, 16}
    BY DebugAssumption
  <2>6. /\ Nibble <= 2 => Bit(2) = 0
        /\ Nibble <= 4 => Bit(4) = 0
        /\ Nibble <= 8 => Bit(8) = 0
    BY <2>4, <2>5
  <2> QED BY <2>2, <2>3, <2>5, <2>6
<1>5. d \in [1 .. Digits -> Nat] /\ \A n \in 1 .. Digits : d[n] < Nibble
  <2>1. ASSUME NEW n \in 1 .. Digits
        PROVE  OrNibble(Nib(v, n - 1), Nib(w, n - 1)) \in 0 .. Nibble - 1
    <3>1. n - 1 \in 0 .. Digits - 1
      BY Sizes
    <3> QED BY <1>2, <1>3, <1>4, <3>1
  <2> QED BY <2>1, Sizes
<1>6. Weights(Weight, Nibble, Digits) /\ Nibble \in Nat \ {0} /\ Digits \in Nat
  <2>1. Weights(Weight, Nibble, Digits)
    BY WeightStep DEF Weights
  <2> QED BY <2>1, Sizes
<1>7. Or(v, w) = Sum(term, Digits)
  <2>1. term = [n \in 1 .. Digits |->
                  OrNibble(Nib(v, n - 1), Nib(w, n - 1)) * Weight[n - 1]]
    OBVIOUS
  <2> QED BY <2>1 DEF Or
<1> HIDE DEF d
<1>8. Sum(term, Digits) \in 0 .. Weight[Digits] - 1
  BY <1>5, <1>6, DigitsFit
<1> QED BY <1>7, <1>8 DEF Word, WordMod

\* A character flipped twice is the character.
LEMMA FlipBack == \A c \in Byte : Flip(c) \in Byte /\ Flip(Flip(c)) = c
<1>1. SUFFICES ASSUME NEW c \in Byte PROVE Flip(c) \in Byte /\ Flip(Flip(c)) = c
  BY Zenon
<1> DEFINE h == ByteMod \div 2
           e == Flip(c)
<1>2. h \in Nat /\ h >= 2 /\ ByteMod = 2 * h /\ c \in Nat /\ c < 2 * h
  BY Sizes DEF Byte
<1>3. e = (c + h) % (2 * h) /\ Flip(e) = (e + h) % (2 * h)
  BY <1>2 DEF Flip
<1> HIDE DEF h, e
<1>4. \A x \in Nat : x < 2 * h => x % (2 * h) = x
  <2>1. SUFFICES ASSUME NEW x \in Nat, x < 2 * h PROVE x % (2 * h) = x
    BY Zenon
  <2> DEFINE m == 2 * h
  <2>2. m \in Nat \ {0} /\ x < m
    BY <1>2, <2>1
  <2> HIDE DEF m
  <2>3. (m * 0 + x) % m = x
    BY <2>2
  <2>4. m * 0 + x = x
    BY <2>2
  <2> QED BY <2>3, <2>4 DEF m
<1>5. \A x \in Nat : x < 2 * h => (x + 2 * h) % (2 * h) = x
  <2>1. SUFFICES ASSUME NEW x \in Nat, x < 2 * h PROVE (x + 2 * h) % (2 * h) = x
    BY Zenon
  <2> DEFINE m == 2 * h
  <2>2. m \in Nat \ {0} /\ x < m
    BY <1>2, <2>1
  <2> HIDE DEF m
  <2>3. (m * 1 + x) % m = x
    BY <2>2
  <2>4. m * 1 + x = x + m
    BY <2>2
  <2> QED BY <2>3, <2>4 DEF m
<1>6. CASE c < h
  <2>1. c + h \in Nat /\ c + h < 2 * h
    BY <1>2, <1>6
  <2>2. e = c + h
    BY <1>3, <1>4, <2>1
  <2>3. e + h = c + 2 * h
    BY <1>2, <2>2
  <2>4. Flip(e) = c
    BY <1>2, <1>3, <1>5, <2>3
  <2> QED BY <1>2, <2>1, <2>2, <2>4 DEF e, Byte
<1>7. CASE ~(c < h)
  <2>1. c - h \in Nat /\ c - h < 2 * h /\ c + h = (c - h) + 2 * h
    BY <1>2, <1>7
  <2>2. e = c - h
    BY <1>3, <1>5, <2>1
  <2>3. e + h = c
    BY <1>2, <2>2
  <2>4. Flip(e) = c
    BY <1>2, <1>3, <1>4, <2>3
  <2> QED BY <1>2, <2>1, <2>2, <2>4 DEF e, Byte
<1> QED BY <1>6, <1>7

\* What a character becomes.
LEMMA EscapeType ==
  \A c \in Byte : /\ Escape(c) \in Seq(Byte)
                  /\ c \in Special => Escape(c) = <<Brace, Flip(c)>>
                  /\ c \notin Special => Escape(c) = <<c>>
BY FlipBack, DebugAssumption DEF Escape

\* The escaped data, character by character.
LEMMA EscapedRuns ==
  ASSUME NEW p \in Seq(Byte)
  PROVE  \E e \in [0 .. Len(p) -> Seq(Byte)] :
           /\ e[0] = << >> /\ \A k \in 1 .. Len(p) : e[k] = e[k - 1] \o Escape(p[k])
           /\ Escaped(p) = e[Len(p)]
<1> DEFINE n == Len(p)
           e[k \in 0 .. n] == IF k = 0 THEN << >> ELSE e[k - 1] \o Escape(p[k])
           T == Seq(Byte)
           F == [k \in 1 .. n |-> [v \in T |-> v \o Escape(p[k])]]
<1>1. Escaped(p) = e[n]
  BY DEF Escaped
<1>2. n \in Nat /\ \A k \in 1 .. n : Escape(p[k]) \in T
  BY EscapeType
<1>3. << >> \in T /\ \A v, u \in T : v \o u \in T
  BY EmptySeq, ConcatProperties
<1>4. /\ F \in [1 .. n -> [T -> T]]
      /\ \A k \in 1 .. n : \A v \in T : F[k][v] = v \o Escape(p[k])
  <2> HIDE DEF n, T
  <2> QED BY <1>2, <1>3
<1> HIDE DEF n, T, F
<1>5. PICK f \in [0 .. n -> T] : Solves(f, F, << >>, n)
  BY <1>2, <1>3, <1>4, Recursion, Zenon
<1>6. /\ \A k \in 1 .. n : k - 1 \in 0 .. n /\ k \in 0 .. n /\ k # 0
      /\ \A k \in 0 .. n : k = 0 \/ k \in 1 .. n
      /\ 0 \in 0 .. n /\ n \in 0 .. n
  BY <1>2
<1>7. f[0] = << >> /\ \A k \in 1 .. n : f[k] = f[k - 1] \o Escape(p[k])
  BY <1>4, <1>5, <1>6, Zenon DEF Solves
<1>8. f = [k \in 0 .. n |-> IF k = 0 THEN << >> ELSE f[k - 1] \o Escape(p[k])]
  <2>1. \A k \in 0 .. n : f[k] = IF k = 0 THEN << >> ELSE f[k - 1] \o Escape(p[k])
    BY <1>6, <1>7, Zenon
  <2> QED BY <2>1
<1>9. e = [k \in 0 .. n |-> IF k = 0 THEN << >> ELSE e[k - 1] \o Escape(p[k])]
  BY <1>8, Zenon DEF e
<1> HIDE DEF e
<1>10. e[0] = << >> /\ \A k \in 1 .. n : e[k] = e[k - 1] \o Escape(p[k])
  <2>1. \A k \in 0 .. n : e[k] = IF k = 0 THEN << >> ELSE e[k - 1] \o Escape(p[k])
    BY <1>9, Zenon
  <2> QED BY <1>6, <2>1, Zenon
<1>11. e \in [0 .. n -> T]
  <2> DEFINE S == {k \in 0 .. n : e[k] \in T}
  <2>1. 0 \in S
    BY <1>3, <1>6, <1>10
  <2>2. ASSUME NEW k \in 1 .. n, k - 1 \in S PROVE k \in S
    BY <1>2, <1>3, <1>6, <1>10, <2>2
  <2>3. S \in SUBSET (0 .. n)
    OBVIOUS
  <2> HIDE DEF S
  <2>4. S = 0 .. n
    BY <1>2, <2>1, <2>2, <2>3, UpTo
  <2>5. \A k \in 0 .. n : e[k] \in T
    BY <2>4 DEF S
  <2> QED BY <1>9, <2>5
<1> QED BY <1>1, <1>10, <1>11, Zenon DEF n, T

\* The state of rsp_unescape after each character of the data.
Unescaping == [to : Seq(Byte), esc : BOOLEAN]

\* A character taken leaves a text and a flag.
LEMMA UnescapedType ==
  \A r \in Unescaping, c \in Byte : Unescaped(r, c) \in Unescaping
<1>1. SUFFICES ASSUME NEW r \in Unescaping, NEW c \in Byte
               PROVE  Unescaped(r, c) \in Unescaping
  BY Zenon
<1>2. r.to \in Seq(Byte) /\ r.esc \in BOOLEAN
  BY DEF Unescaping
<1>3. CASE c = Brace /\ ~r.esc
  <2>1. Unescaped(r, c) = [r EXCEPT !.esc = TRUE]
    BY <1>3 DEF Unescaped
  <2> QED BY <2>1 DEF Unescaping
<1>4. CASE ~(c = Brace /\ ~r.esc)
  <2>1. Unescaped(r, c) = [to |-> Append(r.to, IF r.esc THEN Flip(c) ELSE c), esc |-> FALSE]
    BY <1>4 DEF Unescaped
  <2>2. (IF r.esc THEN Flip(c) ELSE c) \in Byte
    BY FlipBack
  <2>3. Append(r.to, IF r.esc THEN Flip(c) ELSE c) \in Seq(Byte)
    BY <1>2, <2>2, AppendProperties
  <2> QED BY <2>1, <2>3 DEF Unescaping
<1> QED BY <1>3, <1>4

\* The characters of the data, one after the other.
LEMMA UnescapeRuns ==
  ASSUME NEW data \in Seq(Byte)
  PROVE  \E r \in [0 .. Len(data) -> Unescaping] :
           /\ r[0] = [to |-> << >>, esc |-> FALSE]
           /\ \A k \in 1 .. Len(data) : r[k] = Unescaped(r[k - 1], data[k])
           /\ rsp_unescape(data) = r[Len(data)].to
<1> DEFINE n == Len(data)
           start == [to |-> << >>, esc |-> FALSE]
           r[k \in 0 .. n] == IF k = 0 THEN [to |-> << >>, esc |-> FALSE]
                              ELSE Unescaped(r[k - 1], data[k])
           F == [k \in 1 .. n |-> [v \in Unescaping |-> Unescaped(v, data[k])]]
<1>1. rsp_unescape(data) = r[n].to
  BY DEF rsp_unescape
<1>2. n \in Nat /\ \A k \in 1 .. n : data[k] \in Byte
  OBVIOUS
<1>3. start \in Unescaping
  BY EmptySeq DEF Unescaping
<1>4. /\ F \in [1 .. n -> [Unescaping -> Unescaping]]
      /\ \A k \in 1 .. n : \A v \in Unescaping : F[k][v] = Unescaped(v, data[k])
  <2> HIDE DEF n
  <2> QED BY <1>2, UnescapedType
<1> HIDE DEF n, F
<1>5. PICK f \in [0 .. n -> Unescaping] : Solves(f, F, start, n)
  <2> HIDE DEF start
  <2> QED BY <1>2, <1>3, <1>4, Recursion, Zenon
<1>6. /\ \A k \in 1 .. n : k - 1 \in 0 .. n /\ k \in 0 .. n /\ k # 0
      /\ \A k \in 0 .. n : k = 0 \/ k \in 1 .. n
      /\ 0 \in 0 .. n /\ n \in 0 .. n
  BY <1>2
<1>7. f[0] = start /\ \A k \in 1 .. n : f[k] = Unescaped(f[k - 1], data[k])
  BY <1>4, <1>5, <1>6, Zenon DEF Solves
<1>8. f = [k \in 0 .. n |-> IF k = 0 THEN [to |-> << >>, esc |-> FALSE]
                            ELSE Unescaped(f[k - 1], data[k])]
  <2>1. \A k \in 0 .. n : f[k] = IF k = 0 THEN [to |-> << >>, esc |-> FALSE]
                                 ELSE Unescaped(f[k - 1], data[k])
    BY <1>6, <1>7, Zenon
  <2> QED BY <2>1
<1>9. r = [k \in 0 .. n |-> IF k = 0 THEN [to |-> << >>, esc |-> FALSE]
                            ELSE Unescaped(r[k - 1], data[k])]
  BY <1>8, Zenon DEF r
<1> HIDE DEF r
<1>10. r[0] = start /\ \A k \in 1 .. n : r[k] = Unescaped(r[k - 1], data[k])
  <2>1. \A k \in 0 .. n : r[k] = IF k = 0 THEN [to |-> << >>, esc |-> FALSE]
                                 ELSE Unescaped(r[k - 1], data[k])
    BY <1>9, Zenon
  <2> QED BY <1>6, <2>1, Zenon
<1>11. r \in [0 .. n -> Unescaping]
  <2> DEFINE S == {k \in 0 .. n : r[k] \in Unescaping}
  <2> HIDE DEF start
  <2>1. 0 \in S
    BY <1>3, <1>6, <1>10
  <2>2. ASSUME NEW k \in 1 .. n, k - 1 \in S PROVE k \in S
    BY <1>2, <1>6, <1>10, <2>2, UnescapedType
  <2>3. S \in SUBSET (0 .. n)
    OBVIOUS
  <2> HIDE DEF S
  <2>4. S = 0 .. n
    BY <1>2, <2>1, <2>2, <2>3, UpTo
  <2>5. \A k \in 0 .. n : r[k] \in Unescaping
    BY <2>4 DEF S
  <2> QED BY <1>9, <2>5
<1> QED BY <1>1, <1>10, <1>11, Zenon DEF n, start

\* What rsp_unescape makes of the escaped data is the data.
LEMMA EscapesBack == \A p \in Seq(Byte) : rsp_unescape(Escaped(p)) = p
<1>1. SUFFICES ASSUME NEW p \in Seq(Byte) PROVE rsp_unescape(Escaped(p)) = p
  BY Zenon
<1> DEFINE n == Len(p)
           data == Escaped(p)
<1>2. PICK e \in [0 .. n -> Seq(Byte)] :
         /\ e[0] = << >> /\ \A k \in 1 .. n : e[k] = e[k - 1] \o Escape(p[k])
         /\ data = e[n]
  BY EscapedRuns
<1>3. /\ n \in Nat /\ \A k \in 1 .. n : p[k] \in Byte
      /\ \A k \in 1 .. n : k - 1 \in 0 .. n /\ k \in 0 .. n
      /\ 0 \in 0 .. n /\ n \in 0 .. n
  OBVIOUS
<1>4. p \in Seq(Byte) /\ SubSeq(p, 1, n) = p
  BY SubSeqFull
<1> HIDE DEF n, data
<1>5. data \in Seq(Byte)
  BY <1>2, <1>3
<1>6. PICK r \in [0 .. Len(data) -> Unescaping] :
         /\ r[0] = [to |-> << >>, esc |-> FALSE]
         /\ \A k \in 1 .. Len(data) : r[k] = Unescaped(r[k - 1], data[k])
         /\ rsp_unescape(data) = r[Len(data)].to
  BY <1>5, UnescapeRuns
<1>7. ASSUME NEW k \in 1 .. n
      PROVE  /\ Len(e[k - 1]) \in Nat /\ Len(Escape(p[k])) \in Nat
             /\ Len(e[k]) = Len(e[k - 1]) + Len(Escape(p[k]))
             /\ \A i \in 1 .. Len(e[k]) :
                  e[k][i] = IF i <= Len(e[k - 1]) THEN e[k - 1][i]
                            ELSE Escape(p[k])[i - Len(e[k - 1])]
  <2>1. e[k - 1] \in Seq(Byte) /\ Escape(p[k]) \in Seq(Byte) /\ e[k] = e[k - 1] \o Escape(p[k])
    BY <1>2, <1>3, EscapeType
  <2> DEFINE s == e[k - 1]
             t == Escape(p[k])
  <2> HIDE DEF s, t
  <2>2. /\ Len(s \o t) = Len(s) + Len(t)
        /\ \A i \in 1 .. Len(s) + Len(t) :
             (s \o t)[i] = IF i <= Len(s) THEN s[i] ELSE t[i - Len(s)]
        /\ Len(s) \in Nat /\ Len(t) \in Nat
    <3>1. s \in Seq(Byte) /\ t \in Seq(Byte)
      BY <2>1 DEF s, t
    <3> QED BY <3>1, ConcatProperties, LenProperties
  <2> QED BY <2>1, <2>2 DEF s, t
<1> DEFINE Starts(k, m) == /\ Len(e[k]) <= Len(e[m])
                           /\ \A i \in 1 .. Len(e[k]) : e[m][i] = e[k][i]
           P == {m \in 0 .. n : \A k \in 0 .. m : Starts(k, m)}
<1>8. \A k \in 0 .. n : Len(e[k]) \in Nat
  BY <1>2
<1>9. P = 0 .. n
  <2>1. 0 \in P
    <3>1. \A k \in 0 .. 0 : k = 0
      OBVIOUS
    <3>2. Starts(0, 0)
      BY <1>3, <1>8
    <3> HIDE DEF Starts
    <3> QED BY <1>3, <3>1, <3>2
  <2>2. ASSUME NEW m \in 1 .. n, m - 1 \in P PROVE m \in P
    <3>1. SUFFICES ASSUME NEW k \in 0 .. m PROVE Starts(k, m)
      <4> HIDE DEF Starts
      <4> QED BY <1>3
    <3>2. CASE k = m
      BY <1>3, <1>8, <3>2
    <3>3. CASE k # m
      <4>1. k \in 0 .. m - 1 /\ k \in 0 .. n /\ m - 1 \in 0 .. n /\ m \in 0 .. n
        BY <1>3, <3>3
      <4>2. Starts(k, m - 1)
        <5> HIDE DEF Starts
        <5> QED BY <2>2, <4>1
      <4>3. /\ Len(e[m - 1]) <= Len(e[m]) /\ Len(e[k]) \in Nat /\ Len(e[m - 1]) \in Nat
            /\ \A i \in 1 .. Len(e[m - 1]) : i \in 1 .. Len(e[m]) /\ i <= Len(e[m - 1])
        <5>1. /\ Len(e[m]) = Len(e[m - 1]) + Len(Escape(p[m]))
              /\ Len(Escape(p[m])) \in Nat /\ Len(e[m - 1]) \in Nat
          BY <1>7
        <5>2. Len(e[k]) \in Nat
          BY <1>8, <4>1
        <5>3. \A x, y, z \in Nat : x = y + z => y <= x /\ \A i \in 1 .. y : i \in 1 .. x /\ i <= y
          OBVIOUS
        <5>4. Len(e[m]) \in Nat
          BY <1>8, <4>1
        <5> QED BY <5>1, <5>2, <5>3, <5>4, Zenon
      <4>4. \A i \in 1 .. Len(e[m - 1]) : e[m][i] = e[m - 1][i]
        BY <1>7, <4>3, Zenon
      <4>5. \A i \in 1 .. Len(e[k]) : i \in 1 .. Len(e[m - 1])
        BY <4>2, <4>3
      <4>6. Len(e[k]) <= Len(e[m])
        BY <1>8, <4>1, <4>2, <4>3
      <4> QED BY <4>2, <4>4, <4>5, <4>6, Zenon
    <3> QED BY <3>2, <3>3
  <2>3. P \in SUBSET (0 .. n)
    OBVIOUS
  <2> HIDE DEF P
  <2> QED BY <1>3, <2>1, <2>2, <2>3, UpTo
<1>10. \A k \in 0 .. n : /\ Len(e[k]) <= Len(data)
                         /\ \A i \in 1 .. Len(e[k]) : data[i] = e[k][i]
  <2>1. n \in P /\ \A k \in 0 .. n : Starts(k, n)
    BY <1>3, <1>9
  <2> QED BY <1>2, <2>1
<1> HIDE DEF P, Starts
<1> DEFINE Q(k) == [to |-> SubSeq(p, 1, k), esc |-> FALSE]
           T == {k \in 0 .. n : r[Len(e[k])] = Q(k)}
<1>11. 0 \in T
  <2>1. SubSeq(p, 1, 0) = << >> /\ Len(e[0]) = 0
    BY <1>2, SubSeqEmpty, EmptySeq
  <2> QED BY <1>3, <1>6, <2>1
<1>12. ASSUME NEW k \in 1 .. n, k - 1 \in T PROVE k \in T
  <2> DEFINE c == p[k]
             L == Len(e[k - 1])
             to == SubSeq(p, 1, k - 1)
  <2>1. c \in Byte /\ L \in Nat /\ k - 1 \in 0 .. n /\ k \in 0 .. n /\ k \in Nat /\ 1 <= k
    BY <1>3, <1>8
  <2>2. SubSeq(p, 1, k) = Append(to, c)
    <3>1. to \o <<c>> = SubSeq(p, 1, k)
      <4>1. k \in 1 .. Len(p) /\ 1 \in 1 .. Len(p) /\ k \in 1 .. Len(p)
        BY <1>3 DEF n
      <4> QED BY <1>4, <4>1, SubSeqRecursiveSecond
    <3>2. to \in Seq(Byte)
      <4>1. \A i \in 1 .. k - 1 : p[i] \in Byte
        BY <1>3, <2>1
      <4> QED BY <2>1, <4>1, SubSeqProperties
    <3>3. Append(to, c) = to \o <<c>>
      <4> HIDE DEF to, c
      <4> QED BY <2>1, <3>2, AppendIsConcat
    <3> QED BY <3>1, <3>3
  <2>3. r[L] = [to |-> to, esc |-> FALSE]
    BY <1>12
  <2>4. /\ Len(e[k]) = L + Len(Escape(c)) /\ Len(Escape(c)) \in Nat
        /\ \A i \in 1 .. Len(Escape(c)) : e[k][L + i] = Escape(c)[i]
    <3>1. Len(e[k]) = L + Len(Escape(c)) /\ Len(Escape(c)) \in Nat
      BY <1>7
    <3>2. ASSUME NEW i \in 1 .. Len(Escape(c)) PROVE e[k][L + i] = Escape(c)[i]
      <4>1. L + i \in 1 .. Len(e[k]) /\ ~(L + i <= L) /\ (L + i) - L = i
        BY <2>1, <3>1
      <4> HIDE DEF L, c
      <4>2. \A j \in 1 .. Len(e[k]) : e[k][j] = IF j <= L THEN e[k - 1][j] ELSE Escape(c)[j - L]
        BY <1>7 DEF L, c
      <4> QED BY <4>1, <4>2
    <3> QED BY <3>1, <3>2
  <2>5. /\ L + Len(Escape(c)) <= Len(data) /\ Len(data) \in Nat
        /\ \A i \in 1 .. Len(Escape(c)) : data[L + i] = Escape(c)[i]
    <3>1. Len(e[k]) <= Len(data) /\ \A i \in 1 .. Len(e[k]) : data[i] = e[k][i]
      BY <1>10, <2>1
    <3>2. \A i \in 1 .. Len(Escape(c)) : L + i \in 1 .. Len(e[k])
      BY <2>1, <2>4
    <3>3. Len(data) \in Nat
      BY <1>5
    <3>4. \A i \in 1 .. Len(Escape(c)) : data[L + i] = Escape(c)[i]
      BY <2>4, <3>1, <3>2, Zenon
    <3> QED BY <2>4, <3>1, <3>3, <3>4
  <2> HIDE DEF c, L, to
  <2>6. \A i \in 1 .. Len(Escape(c)) :
          r[L + i] = Unescaped(r[(L + i) - 1], Escape(c)[i])
    <3>1. \A i \in 1 .. Len(Escape(c)) : L + i \in 1 .. Len(data)
      BY <2>1, <2>4, <2>5
    <3> QED BY <1>6, <2>5, <3>1, Zenon
  <2>7. r[Len(e[k])] = [to |-> Append(to, c), esc |-> FALSE]
    <3>1. CASE c \notin Special
      <4>1. Escape(c) = <<c>> /\ c # Brace
        BY <2>1, <3>1, EscapeType, DebugAssumption
      <4>2. Len(Escape(c)) = 1 /\ Escape(c)[1] = c
        BY <4>1
      <4>3. r[L + 1] = Unescaped(r[L], c)
        <5>1. (L + 1) - 1 = L /\ 1 \in 1 .. 1
          BY <2>1
        <5>2. r[L + 1] = Unescaped(r[(L + 1) - 1], Escape(c)[1])
          BY <2>6, <4>2, <5>1
        <5> QED BY <4>2, <5>1, <5>2
      <4>4. Unescaped([to |-> to, esc |-> FALSE], c) = [to |-> Append(to, c), esc |-> FALSE]
        BY <4>1 DEF Unescaped
      <4> QED BY <2>3, <2>4, <4>2, <4>3, <4>4
    <3>2. CASE c \in Special
      <4>1. Escape(c) = <<Brace, Flip(c)>> /\ Flip(Flip(c)) = c
        BY <2>1, <3>2, EscapeType, FlipBack
      <4>2. Len(Escape(c)) = 2 /\ Escape(c)[1] = Brace /\ Escape(c)[2] = Flip(c)
        BY <4>1
      <4>3. r[L + 1] = Unescaped(r[L], Brace)
        <5>1. (L + 1) - 1 = L /\ 1 \in 1 .. 2
          BY <2>1
        <5>2. r[L + 1] = Unescaped(r[(L + 1) - 1], Escape(c)[1])
          BY <2>6, <4>2, <5>1
        <5> QED BY <4>2, <5>1, <5>2
      <4>4. r[L + 2] = Unescaped(r[L + 1], Flip(c))
        <5>1. (L + 2) - 1 = L + 1 /\ 2 \in 1 .. 2
          BY <2>1
        <5>2. r[L + 2] = Unescaped(r[(L + 2) - 1], Escape(c)[2])
          BY <2>6, <4>2, <5>1
        <5> QED BY <4>2, <5>1, <5>2
      <4>5. Unescaped([to |-> to, esc |-> FALSE], Brace) = [to |-> to, esc |-> TRUE]
        BY DEF Unescaped
      <4>6. Unescaped([to |-> to, esc |-> TRUE], Flip(c))
              = [to |-> Append(to, c), esc |-> FALSE]
        BY <4>1 DEF Unescaped
      <4> QED BY <2>3, <2>4, <4>2, <4>3, <4>4, <4>5, <4>6
    <3> QED BY <3>1, <3>2
  <2> QED BY <2>1, <2>2, <2>7
<1>13. T = 0 .. n
  <2>1. T \in SUBSET (0 .. n)
    OBVIOUS
  <2> HIDE DEF T
  <2> QED BY <1>3, <1>11, <1>12, <2>1, UpTo
<1>14. r[Len(data)] = [to |-> p, esc |-> FALSE]
  BY <1>2, <1>3, <1>4, <1>13
<1> QED BY <1>6, <1>14 DEF data

\* No conversion of rsp-server.c loses or swaps anything, for words and payloads
\* of every size: a register's digits read byte by byte are the register, the
\* digits written byte by byte are the register, and escaped data is the data.
THEOREM Conversions ==
  /\ \A w \in Word : WordOf(reg2hex(w)) = w /\ hex2reg(TextOf(w)) = w
  /\ \A p \in Seq(Byte) : rsp_unescape(Escaped(p)) = p
BY WordBack, TextBack, EscapesBack

\* There is a first address in no memory, or none.
LEMMA ReachableIs ==
  \A addr \in Nat, len \in Nat :
    /\ Reachable(addr, len) \in 0 .. len
    /\ \A off \in 0 .. Reachable(addr, len) - 1 : Mapped(addr + off)
    /\ Reachable(addr, len) < len => ~Mapped(addr + Reachable(addr, len))
<1>1. SUFFICES ASSUME NEW addr \in Nat, NEW len \in Nat
               PROVE  /\ Reachable(addr, len) \in 0 .. len
                      /\ \A off \in 0 .. Reachable(addr, len) - 1 : Mapped(addr + off)
                      /\ Reachable(addr, len) < len => ~Mapped(addr + Reachable(addr, len))
  BY Zenon
<1> DEFINE First(n, m) == /\ \A off \in 0 .. n - 1 : Mapped(addr + off)
                          /\ n < m => ~Mapped(addr + n)
           T == {m \in 0 .. len : \E n \in 0 .. m : First(n, m)}
<1>2. 0 \in T
  OBVIOUS
<1>3. ASSUME NEW m \in 1 .. len, m - 1 \in T PROVE m \in T
  <2>1. PICK n \in 0 .. m - 1 : First(n, m - 1)
    BY <1>3
  <2>2. m \in 0 .. len /\ n \in 0 .. m /\ m \in 0 .. m
    OBVIOUS
  <2>3. CASE n < m - 1 \/ ~Mapped(addr + n)
    <3>1. First(n, m)
      BY <2>1, <2>3
    <3> HIDE DEF First
    <3> QED BY <2>2, <3>1
  <2>4. CASE n = m - 1 /\ Mapped(addr + n)
    <3>1. \A off \in 0 .. m - 1 : off \in 0 .. n - 1 \/ off = n
      BY <2>4
    <3>2. First(m, m)
      BY <2>1, <2>4, <3>1
    <3> HIDE DEF First
    <3> QED BY <2>2, <3>2
  <2> QED BY <2>3, <2>4
<1>4. T \in SUBSET (0 .. len)
  OBVIOUS
<1> HIDE DEF T
<1>5. T = 0 .. len
  BY <1>2, <1>3, <1>4, UpTo
<1>6. \E n \in 0 .. len : First(n, len)
  <2>1. len \in T
    BY <1>5
  <2> HIDE DEF First
  <2> QED BY <2>1 DEF T
<1> DEFINE R == CHOOSE n \in 0 .. len : First(n, len)
<1>7. R \in 0 .. len /\ First(R, len)
  <2> HIDE DEF First
  <2> QED BY <1>6
<1>8. R = Reachable(addr, len)
  BY Zenon DEF Reachable
<1> HIDE DEF R
<1> QED BY <1>7, <1>8

-----------------------------------------------------------------------------
(***************************************************************************)
(* The simulator's variables.                                              *)
(***************************************************************************)
Space == Memory \cup MmioSpace
Sim == [gpr : [0 .. PC_REGNUM -> Word], apsr : Word, word : [Words -> Word],
        mmio : [MmioNames -> Word], exited : BOOLEAN]

\* Where the memories and the table are.
LEMMA Layout ==
  /\ FLASH_SIZE \in Nat /\ RAM_START \in Nat /\ RAM_SIZE \in Nat /\ MEMMAPIO_START \in Nat
  /\ FLASH_SIZE % WordBytes = 0 /\ RAM_START % WordBytes = 0 /\ RAM_SIZE % WordBytes = 0
  /\ MEMMAPIO_START % WordBytes = 0
  /\ FLASH_SIZE >= 2 * WordBytes /\ FLASH_SIZE < RAM_START
  /\ RAM_START + RAM_SIZE < MEMMAPIO_START /\ MEMMAPIO_SIZE = WordBytes * 5
  /\ MAX_GPRS \in Nat /\ MAX_GPRS >= 1 /\ PC_REGNUM = MAX_GPRS /\ CPSR_REGNUM = MAX_GPRS + 10
  /\ WordBytes \in {2, 4}
<1>1. Len(mmio) = 5
  BY DEF mmio
<1>2. /\ FLASH_SIZE \in Nat /\ RAM_START \in Nat /\ RAM_SIZE \in Nat /\ MEMMAPIO_START \in Nat
      /\ FLASH_SIZE % WordBytes = 0 /\ RAM_START % WordBytes = 0 /\ RAM_SIZE % WordBytes = 0
      /\ MEMMAPIO_START % WordBytes = 0
  BY DebugAssumption
<1> QED BY <1>1, <1>2, DebugAssumption DEF MEMMAPIO_SIZE, PC_REGNUM, CPSR_REGNUM

\* The words of the table.
LEMMA Names ==
  /\ MmioNames = {"wastedCycles", "cyclesSinceCP", "resetAfterCycles", "do_reset", "wdt_val"}
  /\ DOMAIN mmio = 1 .. 5
  /\ mmio[1] = "wastedCycles" /\ mmio[2] = "cyclesSinceCP" /\ mmio[3] = "resetAfterCycles"
  /\ mmio[4] = "do_reset" /\ mmio[5] = "wdt_val"
<1>1. DOMAIN mmio = 1 .. 5 /\ 1 .. 5 = {1, 2, 3, 4, 5}
  BY DEF mmio
<1>2. /\ mmio[1] = "wastedCycles" /\ mmio[2] = "cyclesSinceCP" /\ mmio[3] = "resetAfterCycles"
      /\ mmio[4] = "do_reset" /\ mmio[5] = "wdt_val"
  BY DEF mmio
<1>3. MmioNames = {mmio[1], mmio[2], mmio[3], mmio[4], mmio[5]}
  BY <1>1 DEF MmioNames
<1> QED BY <1>1, <1>2, <1>3

\* The word of the table an address is in.
LEMMA NameIs ==
  ASSUME NEW a \in MmioSpace
  PROVE  \E i \in 0 .. 4 : /\ Name(a) = mmio[i + 1] /\ Name(a) \in MmioNames
                           /\ a = MEMMAPIO_START + WordBytes * i + (a % WordBytes)
                           /\ a % WordBytes \in 0 .. WordBytes - 1
<1> DEFINE i == (a - MEMMAPIO_START) \div WordBytes
<1>1. /\ a \in Nat /\ a - MEMMAPIO_START \in Nat /\ a - MEMMAPIO_START < WordBytes * 5
      /\ WordBytes \in {2, 4} /\ MEMMAPIO_START % WordBytes = 0
      /\ MEMMAPIO_START \in Nat
  BY Layout DEF MmioSpace
<1>2. /\ i \in 0 .. 4 /\ a % WordBytes \in 0 .. WordBytes - 1
      /\ a = MEMMAPIO_START + WordBytes * i + (a % WordBytes)
  <2>1. CASE WordBytes = 2
    BY <1>1, <2>1
  <2>2. CASE WordBytes = 4
    BY <1>1, <2>2
  <2> QED BY <1>1, <2>1, <2>2
<1>3. Name(a) = mmio[i + 1]
  BY DEF Name
<1> HIDE DEF i
<1>4. i + 1 \in DOMAIN mmio
  BY <1>2, Names
<1>5. Name(a) \in MmioNames
  BY <1>3, <1>4 DEF MmioNames
<1> QED BY <1>2, <1>3, <1>5

\* The word of a memory an address is in.
LEMMA AlignedIs ==
  ASSUME NEW a \in Memory
  PROVE  /\ a \in Nat /\ Aligned(a) \in Words /\ a % WordBytes \in 0 .. WordBytes - 1
         /\ a = Aligned(a) + (a % WordBytes) /\ a \notin MmioSpace
<1>1. a \in Nat /\ (a < FLASH_SIZE \/ (a >= RAM_START /\ a < RAM_START + RAM_SIZE))
  BY Layout DEF Memory
<1> DEFINE q == a - (a % WordBytes)
<1>2. /\ a % WordBytes \in 0 .. WordBytes - 1 /\ q \in Nat /\ q <= a /\ q % WordBytes = 0
      /\ a >= RAM_START => q >= RAM_START
  <2>1. CASE WordBytes = 2
    BY <1>1, <2>1, Layout
  <2>2. CASE WordBytes = 4
    BY <1>1, <2>2, Layout
  <2> QED BY <2>1, <2>2, Layout
<1>3. a = q + (a % WordBytes)
  BY <1>1, <1>2
<1> HIDE DEF q
<1>4. q \in Memory
  BY <1>1, <1>2, Layout DEF Memory
<1>5. a \notin MmioSpace
  BY <1>1, Layout DEF MmioSpace
<1> QED BY <1>1, <1>2, <1>3, <1>4, <1>5 DEF Words, Aligned, q

\* The two words a reset reads are in flash.
LEMMA VectorWords == 0 \in Words /\ WordBytes \in Words
BY Layout DEF Words, Memory

\* The Thumb bit set, a word stays a word.
LEMMA SetLowType == \A w \in Word : SetLow(w) \in Word
<1>1. SUFFICES ASSUME NEW w \in Word PROVE SetLow(w) \in Word
  BY Zenon
<1>2. w \in Nat /\ w < WordMod /\ WordMod = 2 * (WordMod \div 2) /\ WordMod \in Nat
  BY WordModType, WordsEven DEF Word
<1> DEFINE h == WordMod \div 2
<1>3. h \in Int /\ WordMod = 2 * h
  BY <1>2
<1> HIDE DEF h
<1>4. w + 1 - (w % 2) \in Nat /\ w + 1 - (w % 2) < 2 * h
  BY <1>2, <1>3
<1> QED BY <1>2, <1>3, <1>4 DEF SetLow, Word

\* What wraps around is a word.
LEMMA WordRemainder == \A x \in Int : x % WordMod \in Word
<1>1. \A b \in Nat \ {0} : \A x \in Int : x % b \in 0 .. b - 1
  OBVIOUS
<1> QED BY <1>1, WordModType DEF Word

\* A word does not wrap around.
LEMMA WordSmall == \A x \in Word : x \in Nat /\ x < WordMod /\ x % WordMod = x
<1>1. SUFFICES ASSUME NEW x \in Word PROVE x \in Nat /\ x < WordMod /\ x % WordMod = x
  BY Zenon
<1>2. x \in Nat /\ x < WordMod /\ WordMod \in Nat \ {0}
  BY WordModType DEF Word
<1>3. (WordMod * 0 + x) % WordMod = x
  BY <1>2
<1>4. WordMod * 0 + x = x
  BY <1>2
<1> QED BY <1>2, <1>3, <1>4

\* The PC the client sees is the one it wrote, but for the Thumb bit, and the
\* one a reset sets.
LEMMA PcBack ==
  ASSUME NEW v \in Word, NEW x, x = SetLow((v + 4) % WordMod)
  PROVE  x \in Word /\ ((x - 4) % WordMod) - (((x - 4) % WordMod) % 2) = v - (v % 2)
<1> DEFINE M == WordMod
           u == (v + 4) % M
           h == M \div 2
<1>1. v \in Nat /\ v < M /\ M \in Nat /\ M >= 16 /\ M = 2 * h /\ h \in Int
  BY WordSmall, WordModType, WordsEven
<1>2. u = IF v + 4 < M THEN v + 4 ELSE v + 4 - M
  <2> HIDE DEF M, h
  <2>1. CASE v + 4 < M
    <3>1. (M * 0 + (v + 4)) % M = v + 4 /\ M * 0 + (v + 4) = v + 4
      BY <1>1, <2>1
    <3> QED BY <2>1, <3>1
  <2>2. CASE ~(v + 4 < M)
    <3>1. (M * 1 + (v + 4 - M)) % M = v + 4 - M /\ M * 1 + (v + 4 - M) = v + 4
      BY <1>1, <2>2
    <3> QED BY <2>2, <3>1
  <2> QED BY <2>1, <2>2
<1>3. x = u + 1 - (u % 2)
  BY DEF SetLow
<1>4. x \in Word
  <2>1. u \in Word
    BY <1>1, WordRemainder
  <2> HIDE DEF u
  <2> QED BY <1>3, <2>1, SetLowType DEF SetLow
<1> DEFINE y == (x - 4) % M
<1> HIDE DEF M, u, h, y
<1>5. y = v + 1 - (v % 2)
  <2>1. CASE v + 4 < M
    <3>1. x - 4 = v + 1 - (v % 2) /\ x - 4 \in Nat /\ x - 4 < M
      BY <1>1, <1>2, <1>3, <2>1
    <3>2. (M * 0 + (x - 4)) % M = x - 4 /\ M * 0 + (x - 4) = x - 4
      BY <1>1, <3>1
    <3> QED BY <3>1, <3>2 DEF y
  <2>2. CASE ~(v + 4 < M)
    <3>1. x - 4 + M = v + 1 - (v % 2) /\ x - 4 + M \in Nat /\ x - 4 + M < M /\ x \in Int
      BY <1>1, <1>2, <1>3, <2>2
    <3>2. (M * (-1) + (x - 4 + M)) % M = x - 4 + M /\ M * (-1) + (x - 4 + M) = x - 4
      BY <1>1, <3>1
    <3> QED BY <3>1, <3>2 DEF y
  <2> QED BY <2>1, <2>2
<1>6. y - (y % 2) = v - (v % 2)
  BY <1>1, <1>5
<1> QED BY <1>4, <1>6 DEF y, M

\* The PC the client sees after a reset is the vector.
LEMMA PcAfterReset == \A pc \in Word : (((pc + 4) % WordMod) - 4) % WordMod = pc
<1>1. SUFFICES ASSUME NEW pc \in Word PROVE (((pc + 4) % WordMod) - 4) % WordMod = pc
  BY Zenon
<1> DEFINE M == WordMod
           u == (pc + 4) % M
<1>2. pc \in Nat /\ pc < M /\ M \in Nat /\ M >= 16
  BY WordSmall, WordModType, WordsEven
<1> HIDE DEF M
<1>3. CASE pc + 4 < M
  <2>1. (M * 0 + (pc + 4)) % M = pc + 4 /\ M * 0 + (pc + 4) = pc + 4
    BY <1>2, <1>3
  <2>2. (M * 0 + pc) % M = pc /\ M * 0 + pc = pc
    BY <1>2
  <2>3. u - 4 = pc
    BY <1>2, <2>1
  <2> QED BY <2>2, <2>3 DEF M
<1>4. CASE ~(pc + 4 < M)
  <2>1. (M * 1 + (pc + 4 - M)) % M = pc + 4 - M /\ M * 1 + (pc + 4 - M) = pc + 4
    BY <1>2, <1>4
  <2>2. u - 4 = pc - M
    BY <1>2, <2>1
  <2>3. (M * (-1) + pc) % M = pc /\ M * (-1) + pc = pc - M
    BY <1>2
  <2> QED BY <2>2, <2>3 DEF M
<1> QED BY <1>3, <1>4

\* What a reset does to the simulator.
LEMMA ResetDoes ==
  ASSUME NEW s \in Sim
  PROVE  /\ cpu_reset(s) \in Sim /\ cpu_reset(s).word = s.word
         /\ cpu_reset(s).mmio["wastedCycles"]
              = (s.mmio["wastedCycles"] + s.mmio["cyclesSinceCP"]) % WordMod
         /\ cpu_reset(s).mmio["cyclesSinceCP"] = 0
         /\ cpu_reset(s).gpr[PC_REGNUM] = s.word[WordBytes]
<1> DEFINE pc == s.word[WordBytes]
           sp == s.word[0] - (s.word[0] % 4)
           g == [r \in 0 .. PC_REGNUM |-> CASE r = GPR_SP -> sp [] r = PC_REGNUM -> pc [] OTHER -> 0]
           charged == (s.mmio["wastedCycles"] + s.mmio["cyclesSinceCP"]) % WordMod
           m == [s.mmio EXCEPT !["wastedCycles"] = charged, !["cyclesSinceCP"] = 0, !["wdt_val"] = 0]
<1>1. /\ s.gpr \in [0 .. PC_REGNUM -> Word] /\ s.apsr \in Word /\ s.word \in [Words -> Word]
      /\ s.mmio \in [MmioNames -> Word] /\ s.exited \in BOOLEAN
  BY DEF Sim
<1>2. pc \in Word /\ s.word[0] \in Word
  BY <1>1, VectorWords
<1>3. sp \in Word
  <2> DEFINE w == s.word[0]
  <2>1. w \in Nat /\ w < WordMod /\ WordMod \in Nat
    BY <1>2, WordSmall, WordModType
  <2> HIDE DEF w
  <2>2. w - (w % 4) \in Nat /\ w - (w % 4) < WordMod
    BY <2>1
  <2> QED BY <2>1, <2>2 DEF Word, w
<1>4. 0 \in Word
  BY WordModType DEF Word
<1>5. g \in [0 .. PC_REGNUM -> Word] /\ g[PC_REGNUM] = pc
  <2>1. PC_REGNUM \in 0 .. PC_REGNUM /\ GPR_SP # PC_REGNUM
    BY Layout, DebugAssumption
  <2> HIDE DEF pc, sp
  <2>2. \A r \in 0 .. PC_REGNUM :
          (CASE r = GPR_SP -> sp [] r = PC_REGNUM -> pc [] OTHER -> 0) \in Word
    BY <1>2, <1>3, <1>4
  <2> QED BY <2>1, <2>2
<1>6. charged \in Word
  <2>1. s.mmio["wastedCycles"] \in Word /\ s.mmio["cyclesSinceCP"] \in Word
    BY <1>1, Names
  <2>2. s.mmio["wastedCycles"] + s.mmio["cyclesSinceCP"] \in Int
    BY <2>1, WordSmall
  <2> QED BY <2>2, WordRemainder
<1>7. /\ m \in [MmioNames -> Word] /\ m["wastedCycles"] = charged /\ m["cyclesSinceCP"] = 0
  <2> HIDE DEF charged
  <2> QED BY <1>1, <1>4, <1>6, Names
<1> DEFINE x == pc % 2 = 0
           t == [s EXCEPT !.gpr = g, !.apsr = 0, !.mmio["wastedCycles"] = charged,
                          !.mmio["cyclesSinceCP"] = 0, !.mmio["wdt_val"] = 0, !.exited = x]
<1>8. cpu_reset(s) = t
  BY DEF cpu_reset
<1>9. x \in BOOLEAN
  OBVIOUS
<1> HIDE DEF pc, g, charged, x
<1>10. t.mmio = m /\ t.gpr = g /\ t.word = s.word
  BY DEF Sim
<1>11. /\ [s EXCEPT !.gpr = g] \in Sim
       /\ \A v \in Sim : [v EXCEPT !.apsr = 0] \in Sim
       /\ \A v \in Sim, n \in MmioNames, w \in Word : [v EXCEPT !.mmio[n] = w] \in Sim
       /\ \A v \in Sim : [v EXCEPT !.exited = x] \in Sim
  BY <1>1, <1>4, <1>5, <1>9 DEF Sim
<1>12. t \in Sim
  <2>1. "wastedCycles" \in MmioNames /\ "cyclesSinceCP" \in MmioNames /\ "wdt_val" \in MmioNames
    BY Names
  <2> QED BY <1>4, <1>6, <1>11, <2>1
<1> HIDE DEF t, m
<1> QED BY <1>5, <1>7, <1>8, <1>10, <1>12 DEF pc, charged

\* What sim_command does: nothing, or a reset that clears the request.
LEMMA CommandDoes ==
  ASSUME NEW s \in Sim
  PROVE  /\ sim_command(s) \in Sim /\ sim_command(s).word = s.word
         /\ sim_command(s).mmio["do_reset"] = 0
         /\ s.mmio["do_reset"] = 0 => sim_command(s) = s
         /\ s.mmio["do_reset"] # 0 =>
              /\ sim_command(s).mmio["wastedCycles"]
                   = (s.mmio["wastedCycles"] + s.mmio["cyclesSinceCP"]) % WordMod
              /\ sim_command(s).mmio["cyclesSinceCP"] = 0
              /\ sim_command(s).gpr[PC_REGNUM] = (s.word[WordBytes] + 4) % WordMod
<1>1. CASE s.mmio["do_reset"] = 0
  BY <1>1 DEF sim_command
<1>2. CASE s.mmio["do_reset"] # 0
  <2> DEFINE r == cpu_reset(s)
             c == [r EXCEPT !.gpr[PC_REGNUM] = (@ + 4) % WordMod, !.mmio["do_reset"] = 0]
  <2>1. sim_command(s) = c
    BY <1>2 DEF sim_command
  <2>2. /\ r \in Sim /\ r.word = s.word /\ r.mmio["cyclesSinceCP"] = 0
        /\ r.mmio["wastedCycles"] = (s.mmio["wastedCycles"] + s.mmio["cyclesSinceCP"]) % WordMod
        /\ r.gpr[PC_REGNUM] = s.word[WordBytes]
    BY ResetDoes
  <2> HIDE DEF r
  <2>3. PC_REGNUM \in 0 .. PC_REGNUM /\ "do_reset" \in MmioNames /\ 0 \in Word
        /\ "cyclesSinceCP" \in MmioNames /\ "wastedCycles" \in MmioNames
    BY Layout, Names, WordModType DEF Word
  <2>4. (r.gpr[PC_REGNUM] + 4) % WordMod \in Word
    <3>1. r.gpr[PC_REGNUM] \in Word
      BY <2>2, <2>3 DEF Sim
    <3>2. r.gpr[PC_REGNUM] + 4 \in Int
      BY <3>1, WordSmall
    <3> QED BY <3>2, WordRemainder
  <2> DEFINE x == (r.gpr[PC_REGNUM] + 4) % WordMod
  <2>5. c = [r EXCEPT !.gpr[PC_REGNUM] = x, !.mmio["do_reset"] = 0]
    OBVIOUS
  <2> HIDE DEF c
  <2>6. x = (s.word[WordBytes] + 4) % WordMod /\ x \in Word
    BY <2>2, <2>4
  <2> HIDE DEF x
  <2>7. c \in Sim /\ c.word = r.word /\ c.gpr[PC_REGNUM] = x /\ c.mmio["do_reset"] = 0
    BY <2>2, <2>3, <2>5, <2>6 DEF Sim
  <2>8. /\ c.mmio["cyclesSinceCP"] = r.mmio["cyclesSinceCP"]
        /\ c.mmio["wastedCycles"] = r.mmio["wastedCycles"]
    BY <2>2, <2>3, <2>5 DEF Sim
  <2> QED BY <1>2, <2>1, <2>2, <2>6, <2>7, <2>8
<1> QED BY <1>1, <1>2

\* Reading gives a byte; what is read of the mmio table is in its words, and
\* what is read of the memories in theirs.
LEMMA ReadType ==
  ASSUME NEW s \in Sim, NEW a \in Space
  PROVE  simDebugRead(s, a) \in Byte
<1>1. CASE a \in MmioSpace
  <2>1. Name(a) \in MmioNames /\ a % WordBytes \in 0 .. WordBytes - 1
    BY <1>1, NameIs
  <2>2. s.mmio[Name(a)] \in Nat
    BY <2>1, WordSmall DEF Sim
  <2> QED BY <1>1, <2>1, <2>2, LaneType DEF simDebugRead
<1>2. CASE a \notin MmioSpace
  <2>1. Aligned(a) \in Words /\ a % WordBytes \in 0 .. WordBytes - 1
    BY <1>2, AlignedIs DEF Space
  <2>2. s.word[Aligned(a)] \in Nat
    BY <2>1, WordSmall DEF Sim
  <2> QED BY <1>2, <2>1, <2>2, LaneType DEF simDebugRead
<1> QED BY <1>1, <1>2

\* The words decide what is read.
LEMMA ReadSame ==
  ASSUME NEW s \in Sim, NEW t \in Sim, NEW a \in Space,
         a \in Memory => s.word[Aligned(a)] = t.word[Aligned(a)],
         a \in MmioSpace => s.mmio = t.mmio
  PROVE  simDebugRead(s, a) = simDebugRead(t, a)
<1>1. CASE a \in MmioSpace
  BY <1>1 DEF simDebugRead
<1>2. CASE a \in Memory
  <2>1. a \notin MmioSpace
    BY <1>2, AlignedIs
  <2> QED BY <1>2, <2>1 DEF simDebugRead
<1> QED BY <1>1, <1>2 DEF Space

\* A byte that asks for no reset.
Quiet(a, b) == a \in MmioSpace /\ Name(a) = "do_reset" => b = 0

\* Zero put into zero.
LEMMA PutZero == \A k \in 0 .. WordBytes - 1 : Put(0, k, 0) = 0
<1>1. SUFFICES ASSUME NEW k \in 0 .. WordBytes - 1 PROVE Put(0, k, 0) = 0
  BY Zenon
<1> DEFINE V == Weight[2 * k]
<1>2. V \in Nat \ {0} /\ ByteMod \in Nat \ {0}
  BY ByteWeights, Sizes
<1>3. Lane(0, k) = (0 \div V) % ByteMod /\ Put(0, k, 0) = 0 + (0 - Lane(0, k)) * V
  BY DEF Lane, Put
<1> HIDE DEF V
<1>4. 0 \div V = 0
  BY <1>2
<1>5. 0 % ByteMod = 0
  BY <1>2
<1>6. Lane(0, k) = 0
  BY <1>3, <1>4, <1>5
<1>7. (0 - 0) * V = 0
  BY <1>2
<1> QED BY <1>3, <1>6, <1>7

\* What simDebugWrite does to the mmio table before sim_command looks at it.
LEMMA MmioPut ==
  ASSUME NEW s \in Sim, NEW a \in MmioSpace, NEW b \in Byte
  PROVE  /\ [s EXCEPT !.mmio[Name(a)] = Put(@, a % WordBytes, b)] \in Sim
         /\ [s EXCEPT !.mmio[Name(a)] = Put(@, a % WordBytes, b)].mmio[Name(a)]
              = Put(s.mmio[Name(a)], a % WordBytes, b)
         /\ \A n \in MmioNames : n # Name(a) =>
              [s EXCEPT !.mmio[Name(a)] = Put(@, a % WordBytes, b)].mmio[n] = s.mmio[n]
<1>1. Name(a) \in MmioNames /\ a % WordBytes \in 0 .. WordBytes - 1
  BY NameIs
<1>2. s.mmio[Name(a)] \in Word
  BY <1>1 DEF Sim
<1> DEFINE x == Put(s.mmio[Name(a)], a % WordBytes, b)
<1>3. x \in Word
  BY <1>1, <1>2, PutByte
<1>4. [s EXCEPT !.mmio[Name(a)] = Put(@, a % WordBytes, b)] = [s EXCEPT !.mmio[Name(a)] = x]
  OBVIOUS
<1> HIDE DEF x
<1>5. [s EXCEPT !.mmio[Name(a)] = x] \in Sim
  BY <1>1, <1>3 DEF Sim
<1>6. /\ [s EXCEPT !.mmio[Name(a)] = x].mmio[Name(a)] = x
      /\ \A n \in MmioNames : n # Name(a) => [s EXCEPT !.mmio[Name(a)] = x].mmio[n] = s.mmio[n]
  BY <1>1 DEF Sim
<1> QED BY <1>4, <1>5, <1>6 DEF x

\* What simDebugWrite does to the memories.
LEMMA WordPut ==
  ASSUME NEW s \in Sim, NEW a \in Memory, NEW b \in Byte
  PROVE  /\ [s EXCEPT !.word[Aligned(a)] = Put(@, a % WordBytes, b)] \in Sim
         /\ [s EXCEPT !.word[Aligned(a)] = Put(@, a % WordBytes, b)].word[Aligned(a)]
              = Put(s.word[Aligned(a)], a % WordBytes, b)
         /\ \A n \in Words : n # Aligned(a) =>
              [s EXCEPT !.word[Aligned(a)] = Put(@, a % WordBytes, b)].word[n] = s.word[n]
         /\ [s EXCEPT !.word[Aligned(a)] = Put(@, a % WordBytes, b)].mmio = s.mmio
         /\ [s EXCEPT !.word[Aligned(a)] = Put(@, a % WordBytes, b)].gpr = s.gpr
         /\ [s EXCEPT !.word[Aligned(a)] = Put(@, a % WordBytes, b)].apsr = s.apsr
         /\ [s EXCEPT !.word[Aligned(a)] = Put(@, a % WordBytes, b)].exited = s.exited
<1>1. Aligned(a) \in Words /\ a % WordBytes \in 0 .. WordBytes - 1
  BY AlignedIs
<1>2. s.word[Aligned(a)] \in Word
  BY <1>1 DEF Sim
<1> DEFINE x == Put(s.word[Aligned(a)], a % WordBytes, b)
<1>3. x \in Word
  BY <1>1, <1>2, PutByte
<1>4. [s EXCEPT !.word[Aligned(a)] = Put(@, a % WordBytes, b)] = [s EXCEPT !.word[Aligned(a)] = x]
  OBVIOUS
<1> HIDE DEF x
<1>5. [s EXCEPT !.word[Aligned(a)] = x] \in Sim
  BY <1>1, <1>3 DEF Sim
<1> DEFINE t == [s EXCEPT !.word[Aligned(a)] = x]
<1>6. /\ t.word[Aligned(a)] = x
      /\ \A n \in Words : n # Aligned(a) => t.word[n] = s.word[n]
      /\ t.mmio = s.mmio /\ t.gpr = s.gpr /\ t.apsr = s.apsr /\ t.exited = s.exited
  BY <1>1 DEF Sim
<1> QED BY <1>4, <1>5, <1>6 DEF x

\* A byte written: everything keeps its type, no reset is left pending, and the
\* memories hold what they held, but for the byte.
LEMMA WriteDoes ==
  ASSUME NEW s \in Sim, s.mmio["do_reset"] = 0, NEW a \in Nat, NEW b \in Byte
  PROVE  /\ simDebugWrite(s, a, b) \in Sim
         /\ simDebugWrite(s, a, b).mmio["do_reset"] = 0
         /\ \A c \in Memory : c # a =>
              simDebugRead(simDebugWrite(s, a, b), c) = simDebugRead(s, c)
<1>1. CASE a \in MmioSpace
  <2> DEFINE u == [s EXCEPT !.mmio[Name(a)] = Put(@, a % WordBytes, b)]
  <2>1. simDebugWrite(s, a, b) = sim_command(u)
    <3>1. a \notin Memory
      BY <1>1, AlignedIs
    <3> QED BY <1>1, <3>1 DEF simDebugWrite
  <2>2. u \in Sim
    BY <1>1, MmioPut
  <2>3. u.word = s.word
    BY DEF Sim
  <2> HIDE DEF u
  <2>4. sim_command(u) \in Sim /\ sim_command(u).word = s.word /\ sim_command(u).mmio["do_reset"] = 0
    BY <2>2, <2>3, CommandDoes
  <2>5. ASSUME NEW c \in Memory PROVE simDebugRead(sim_command(u), c) = simDebugRead(s, c)
    <3>1. c \notin MmioSpace /\ c \in Space
      BY AlignedIs DEF Space
    <3> QED BY <2>4, <3>1, ReadSame
  <2> QED BY <2>1, <2>4, <2>5
<1>2. CASE a \notin MmioSpace /\ a \in Memory
  <2> DEFINE t == [s EXCEPT !.word[Aligned(a)] = Put(@, a % WordBytes, b)]
  <2>1. simDebugWrite(s, a, b) = t
    BY <1>2 DEF simDebugWrite
  <2>2. /\ t \in Sim /\ t.word[Aligned(a)] = Put(s.word[Aligned(a)], a % WordBytes, b)
        /\ \A n \in Words : n # Aligned(a) => t.word[n] = s.word[n]
        /\ t.mmio = s.mmio
    BY <1>2, WordPut
  <2> HIDE DEF t
  <2>3. ASSUME NEW c \in Memory, c # a PROVE simDebugRead(t, c) = simDebugRead(s, c)
    <3>1. /\ c \notin MmioSpace /\ Aligned(c) \in Words /\ c = Aligned(c) + (c % WordBytes)
          /\ c % WordBytes \in 0 .. WordBytes - 1 /\ c \in Nat
      BY AlignedIs
    <3>2. /\ Aligned(a) \in Words /\ a = Aligned(a) + (a % WordBytes)
          /\ a % WordBytes \in 0 .. WordBytes - 1
      BY <1>2, AlignedIs
    <3>3. CASE Aligned(c) # Aligned(a)
      BY <2>2, <3>1, <3>3 DEF simDebugRead
    <3>4. CASE Aligned(c) = Aligned(a)
      <4>1. c % WordBytes # a % WordBytes
        BY <2>3, <3>1, <3>2, <3>4
      <4>2. s.word[Aligned(a)] \in Word
        BY <3>2 DEF Sim
      <4>3. Lane(t.word[Aligned(a)], c % WordBytes) = Lane(s.word[Aligned(a)], c % WordBytes)
        BY <2>2, <3>1, <3>2, <4>1, <4>2, PutByte
      <4> QED BY <3>1, <3>4, <4>3 DEF simDebugRead
    <3> QED BY <3>3, <3>4
  <2> QED BY <2>1, <2>2, <2>3
<1>3. CASE a \notin MmioSpace /\ a \notin Memory
  <2> DEFINE t == [s EXCEPT !.exited = TRUE]
  <2>1. simDebugWrite(s, a, b) = t
    BY <1>3 DEF simDebugWrite
  <2>2. t \in Sim /\ t.mmio = s.mmio /\ t.word = s.word
    BY DEF Sim
  <2> HIDE DEF t
  <2>3. \A c \in Memory : simDebugRead(t, c) = simDebugRead(s, c)
    BY <2>2 DEF simDebugRead
  <2> QED BY <2>1, <2>2, <2>3
<1> QED BY <1>1, <1>2, <1>3

\* A byte that asks for no reset is there and changes nothing else.
LEMMA WriteBack ==
  ASSUME NEW s \in Sim, s.mmio["do_reset"] = 0, NEW a \in Space, NEW b \in Byte, Quiet(a, b)
  PROVE  /\ simDebugWrite(s, a, b).gpr = s.gpr /\ simDebugWrite(s, a, b).apsr = s.apsr
         /\ simDebugWrite(s, a, b).exited = s.exited
         /\ simDebugRead(simDebugWrite(s, a, b), a) = b
         /\ \A c \in Space : c # a =>
              simDebugRead(simDebugWrite(s, a, b), c) = simDebugRead(s, c)
<1>1. CASE a \in MmioSpace
  <2> DEFINE t == [s EXCEPT !.mmio[Name(a)] = Put(@, a % WordBytes, b)]
  <2>1. simDebugWrite(s, a, b) = sim_command(t)
    <3>1. a \notin Memory
      BY <1>1, AlignedIs
    <3> QED BY <1>1, <3>1 DEF simDebugWrite
  <2>2. /\ t \in Sim /\ t.mmio[Name(a)] = Put(s.mmio[Name(a)], a % WordBytes, b)
        /\ \A n \in MmioNames : n # Name(a) => t.mmio[n] = s.mmio[n]
    BY <1>1, MmioPut
  <2>3. t.word = s.word /\ t.gpr = s.gpr /\ t.apsr = s.apsr /\ t.exited = s.exited
    BY DEF Sim
  <2> HIDE DEF t
  <2>4. PICK i \in 0 .. 4 : /\ Name(a) = mmio[i + 1] /\ Name(a) \in MmioNames
                            /\ a = MEMMAPIO_START + WordBytes * i + (a % WordBytes)
                            /\ a % WordBytes \in 0 .. WordBytes - 1
    BY <1>1, NameIs
  <2>5. s.mmio[Name(a)] \in Word
    BY <2>4 DEF Sim
  <2>6. t.mmio["do_reset"] = 0
    <3>1. CASE Name(a) = "do_reset"
      <4>1. b = 0
        BY <1>1, <3>1 DEF Quiet
      <4>2. t.mmio["do_reset"] = Put(0, a % WordBytes, 0)
        BY <2>2, <3>1, <4>1
      <4> QED BY <2>4, <4>2, PutZero
    <3>2. CASE Name(a) # "do_reset"
      BY <2>2, <3>2, Names
    <3> QED BY <3>1, <3>2
  <2>7. sim_command(t) = t
    BY <2>2, <2>6, CommandDoes
  <2>8. simDebugRead(t, a) = b
    <3>1. Lane(t.mmio[Name(a)], a % WordBytes) = b
      BY <2>2, <2>4, <2>5, PutByte
    <3> QED BY <1>1, <3>1 DEF simDebugRead
  <2>9. ASSUME NEW c \in Space, c # a PROVE simDebugRead(t, c) = simDebugRead(s, c)
    <3>1. CASE c \in MmioSpace
      <4>1. PICK j \in 0 .. 4 : /\ Name(c) = mmio[j + 1] /\ Name(c) \in MmioNames
                                /\ c = MEMMAPIO_START + WordBytes * j + (c % WordBytes)
                                /\ c % WordBytes \in 0 .. WordBytes - 1
        BY <3>1, NameIs
      <4>2. CASE Name(c) # Name(a)
        BY <2>2, <3>1, <4>1, <4>2 DEF simDebugRead
      <4>3. CASE Name(c) = Name(a)
        <5>1. i = j
          <6> DEFINE k == i + 1
                     m == j + 1
          <6>1. k \in {1, 2, 3, 4, 5} /\ m \in {1, 2, 3, 4, 5}
            OBVIOUS
          <6>2. mmio[k] = mmio[m]
            BY <2>4, <4>1, <4>3
          <6> HIDE DEF k, m
          <6>3. k = m
            BY <6>1, <6>2, Names
          <6> QED BY <6>3 DEF k, m
        <5>2. c % WordBytes # a % WordBytes
          <6>1. /\ a = (MEMMAPIO_START + WordBytes * i) + (a % WordBytes)
                /\ c = (MEMMAPIO_START + WordBytes * i) + (c % WordBytes)
            BY <2>4, <4>1, <5>1
          <6> QED BY <2>9, <6>1, Zenon
        <5>3. Lane(t.mmio[Name(a)], c % WordBytes) = Lane(s.mmio[Name(a)], c % WordBytes)
          BY <2>2, <2>4, <2>5, <4>1, <5>2, PutByte
        <5> QED BY <3>1, <4>3, <5>3 DEF simDebugRead
      <4> QED BY <4>2, <4>3
    <3>2. CASE c \in Memory
      <4>1. c \notin MmioSpace
        BY <3>2, AlignedIs
      <4> QED BY <2>3, <4>1 DEF simDebugRead
    <3> QED BY <3>1, <3>2 DEF Space
  <2> QED BY <2>1, <2>3, <2>7, <2>8, <2>9
<1>2. CASE a \in Memory
  <2> DEFINE t == [s EXCEPT !.word[Aligned(a)] = Put(@, a % WordBytes, b)]
  <2>1. a \notin MmioSpace /\ Aligned(a) \in Words /\ a % WordBytes \in 0 .. WordBytes - 1 /\ a \in Nat
    BY <1>2, AlignedIs
  <2>2. simDebugWrite(s, a, b) = t
    BY <1>2, <2>1 DEF simDebugWrite
  <2>3. /\ t.word[Aligned(a)] = Put(s.word[Aligned(a)], a % WordBytes, b)
        /\ t.mmio = s.mmio /\ t.gpr = s.gpr /\ t.apsr = s.apsr /\ t.exited = s.exited
    BY <1>2, WordPut
  <2> HIDE DEF t
  <2>4. s.word[Aligned(a)] \in Word
    BY <2>1 DEF Sim
  <2>5. Lane(t.word[Aligned(a)], a % WordBytes) = b
    BY <2>1, <2>3, <2>4, PutByte
  <2>6. simDebugRead(t, a) = b
    BY <2>1, <2>5 DEF simDebugRead
  <2>7. ASSUME NEW c \in Space, c # a PROVE simDebugRead(t, c) = simDebugRead(s, c)
    <3>1. CASE c \in MmioSpace
      BY <2>3, <3>1 DEF simDebugRead
    <3>2. CASE c \in Memory
      BY <2>1, <2>2, <2>7, <3>2, WriteDoes
    <3> QED BY <3>1, <3>2 DEF Space
  <2> QED BY <2>2, <2>3, <2>6, <2>7
<1> QED BY <1>1, <1>2 DEF Space

\* Where a write is refused there is nothing, but for the two ends.
LEMMA SpaceIsValid ==
  ASSUME NEW a \in Space
  PROVE  a \in Nat /\ simValidMem(a)
<1>1. CASE a \in MmioSpace
  BY <1>1, Layout DEF MmioSpace, simValidMem
<1>2. CASE a \in Memory
  BY <1>2, Layout DEF Memory, simValidMem
<1> QED BY <1>1, <1>2 DEF Space

-----------------------------------------------------------------------------
(***************************************************************************)
(* The bytes of a request X, one after the other.                          *)
(***************************************************************************)
Writing == [sim : Sim, addr : Nat, refused : BOOLEAN]
Calm(w) == w.sim.mmio["do_reset"] = 0

\* A byte of a request X keeps the types and leaves no reset pending.
LEMMA WriteByteType ==
  \A w \in Writing, b \in Byte : Calm(w) => WriteByte(w, b) \in Writing /\ Calm(WriteByte(w, b))
<1>1. SUFFICES ASSUME NEW w \in Writing, NEW b \in Byte, Calm(w)
               PROVE  WriteByte(w, b) \in Writing /\ Calm(WriteByte(w, b))
  BY Zenon
<1>2. w.sim \in Sim /\ w.addr \in Nat /\ w.refused \in BOOLEAN /\ w.sim.mmio["do_reset"] = 0
  BY <1>1 DEF Writing, Calm
<1>3. CASE w.refused \/ w.sim.exited
  BY <1>1, <1>3 DEF WriteByte
<1>4. CASE ~w.refused /\ ~w.sim.exited /\ ~simValidMem(w.addr)
  <2>1. WriteByte(w, b) = [w EXCEPT !.refused = TRUE]
    BY <1>4 DEF WriteByte
  <2> QED BY <1>2, <2>1 DEF Writing, Calm
<1>5. CASE ~w.refused /\ ~w.sim.exited /\ simValidMem(w.addr)
  <2> DEFINE t == simDebugWrite(w.sim, w.addr, b)
             v == [w EXCEPT !.sim = t, !.addr = w.addr + 1]
  <2>1. WriteByte(w, b) = v
    BY <1>5 DEF WriteByte
  <2>2. t \in Sim /\ t.mmio["do_reset"] = 0
    BY <1>2, WriteDoes
  <2> HIDE DEF t
  <2>3. v \in Writing /\ v.sim = t
    <3> DEFINE x == w.addr + 1
    <3>1. x \in Nat
      BY <1>2
    <3> HIDE DEF x
    <3>2. \A u \in Writing : /\ [u EXCEPT !.sim = t, !.addr = x] \in Writing
                             /\ [u EXCEPT !.sim = t, !.addr = x].sim = t
      <4>1. t \in Sim
        BY <2>2
      <4> QED BY <3>1, <4>1 DEF Writing
    <3> QED BY <3>2 DEF x
  <2> QED BY <2>1, <2>2, <2>3 DEF Calm
<1> QED BY <1>3, <1>4, <1>5

\* A request X as a run over its bytes.
LEMMA WritesRun ==
  ASSUME sim \in Sim, sim.mmio["do_reset"] = 0, NEW addr \in Nat, NEW data \in Seq(Byte)
  PROVE  \E w \in [0 .. Len(data) -> {x \in Writing : Calm(x)}] :
           /\ w[0] = [sim |-> sim, addr |-> addr, refused |-> FALSE]
           /\ \A k \in 1 .. Len(data) : w[k] = WriteByte(w[k - 1], data[k])
           /\ Writes(addr, data) = w[Len(data)]
<1> DEFINE n == Len(data)
           T == {x \in Writing : Calm(x)}
           start == [sim |-> sim, addr |-> addr, refused |-> FALSE]
           w[k \in 0 .. n] == IF k = 0 THEN [sim |-> sim, addr |-> addr, refused |-> FALSE]
                              ELSE WriteByte(w[k - 1], data[k])
           F == [k \in 1 .. n |-> [v \in T |-> WriteByte(v, data[k])]]
<1>1. Writes(addr, data) = w[n]
  BY DEF Writes
<1>2. n \in Nat /\ \A k \in 1 .. n : data[k] \in Byte
  OBVIOUS
<1>3. start \in T
  BY DEF Writing, Calm
<1>4. \A v \in T, b \in Byte : WriteByte(v, b) \in T
  BY WriteByteType
<1> HIDE DEF n, T
<1>5. F \in [1 .. n -> [T -> T]] /\ \A k \in 1 .. n : \A v \in T : F[k][v] = WriteByte(v, data[k])
  BY <1>2, <1>4
<1> HIDE DEF F
<1>6. PICK f \in [0 .. n -> T] : Solves(f, F, start, n)
  <2> HIDE DEF start
  <2> QED BY <1>2, <1>3, <1>5, Recursion, Zenon
<1>7. /\ \A k \in 1 .. n : k - 1 \in 0 .. n /\ k \in 0 .. n /\ k # 0
      /\ \A k \in 0 .. n : k = 0 \/ k \in 1 .. n
      /\ 0 \in 0 .. n /\ n \in 0 .. n
  BY <1>2
<1>8. f[0] = start /\ \A k \in 1 .. n : f[k] = WriteByte(f[k - 1], data[k])
  BY <1>5, <1>6, <1>7, Zenon DEF Solves
<1>9. f = [k \in 0 .. n |-> IF k = 0 THEN [sim |-> sim, addr |-> addr, refused |-> FALSE]
                            ELSE WriteByte(f[k - 1], data[k])]
  <2>1. \A k \in 0 .. n : f[k] = IF k = 0 THEN [sim |-> sim, addr |-> addr, refused |-> FALSE]
                                 ELSE WriteByte(f[k - 1], data[k])
    BY <1>7, <1>8, Zenon
  <2> QED BY <2>1
<1>10. w = [k \in 0 .. n |-> IF k = 0 THEN [sim |-> sim, addr |-> addr, refused |-> FALSE]
                             ELSE WriteByte(w[k - 1], data[k])]
  BY <1>9, Zenon DEF w
<1> HIDE DEF w
<1>11. w[0] = start /\ \A k \in 1 .. n : w[k] = WriteByte(w[k - 1], data[k])
  <2>1. \A k \in 0 .. n : w[k] = IF k = 0 THEN [sim |-> sim, addr |-> addr, refused |-> FALSE]
                                 ELSE WriteByte(w[k - 1], data[k])
    BY <1>10, Zenon
  <2> QED BY <1>7, <2>1, Zenon
<1>12. w \in [0 .. n -> T]
  <2> DEFINE S == {k \in 0 .. n : w[k] \in T}
  <2> HIDE DEF start
  <2>1. 0 \in S
    BY <1>3, <1>7, <1>11
  <2>2. ASSUME NEW k \in 1 .. n, k - 1 \in S PROVE k \in S
    BY <1>2, <1>4, <1>7, <1>11, <2>2
  <2>3. S \in SUBSET (0 .. n)
    OBVIOUS
  <2> HIDE DEF S
  <2>4. S = 0 .. n
    BY <1>2, <2>1, <2>2, <2>3, UpTo
  <2>5. \A k \in 0 .. n : w[k] \in T
    BY <2>4 DEF S
  <2> QED BY <1>10, <2>5
<1> QED BY <1>1, <1>11, <1>12, Zenon DEF n, T, start

\* A run over the bytes of the data from addr on, as WritesRun gives it.
Run(w, addr, data) ==
  /\ w \in [0 .. Len(data) -> {x \in Writing : Calm(x)}]
  /\ w[0] = [sim |-> sim, addr |-> addr, refused |-> FALSE]
  /\ \A k \in 1 .. Len(data) : w[k] = WriteByte(w[k - 1], data[k])

\* Where the run is after k bytes.
LEMMA RunAt ==
  ASSUME NEW addr \in Nat, NEW data \in Seq(Byte), NEW w, Run(w, addr, data)
  PROVE  \A k \in 0 .. Len(data) :
           /\ w[k] \in Writing /\ Calm(w[k])
           /\ w[k].addr >= addr /\ w[k].addr <= addr + k
           /\ w[k].refused => ~simValidMem(w[k].addr)
           /\ ~w[k].sim.exited /\ ~w[k].refused => w[k].addr = addr + k
           /\ \A c \in Memory : c \notin addr .. addr + k - 1 =>
                simDebugRead(w[k].sim, c) = simDebugRead(sim, c)
<1> DEFINE n == Len(data)
           P(k) == /\ w[k] \in Writing /\ Calm(w[k])
                   /\ w[k].addr >= addr /\ w[k].addr <= addr + k
                   /\ w[k].refused => ~simValidMem(w[k].addr)
                   /\ ~w[k].sim.exited /\ ~w[k].refused => w[k].addr = addr + k
                   /\ \A c \in Memory : c \notin addr .. addr + k - 1 =>
                        simDebugRead(w[k].sim, c) = simDebugRead(sim, c)
           T == {k \in 0 .. n : P(k)}
<1>1. n \in Nat /\ \A k \in 1 .. n : data[k] \in Byte /\ k - 1 \in 0 .. n /\ k \in 0 .. n
  OBVIOUS
<1>2. /\ \A k \in 0 .. n : w[k] \in Writing /\ Calm(w[k])
      /\ w[0] = [sim |-> sim, addr |-> addr, refused |-> FALSE]
      /\ \A k \in 1 .. n : w[k] = WriteByte(w[k - 1], data[k])
  BY DEF Run
<1> HIDE DEF n
<1>3. 0 \in T
  <2>1. 0 \in 0 .. n /\ w[0].sim = sim /\ w[0].addr = addr /\ w[0].refused = FALSE
    BY <1>1, <1>2
  <2>2. P(0)
    BY <1>2, <2>1
  <2> HIDE DEF P
  <2> QED BY <2>1, <2>2
<1>4. ASSUME NEW k \in 1 .. n, k - 1 \in T PROVE k \in T
  <2> DEFINE u == w[k - 1]
             v == w[k]
             b == data[k]
  <2>1. /\ v = WriteByte(u, b) /\ b \in Byte /\ v \in Writing /\ Calm(v) /\ k \in 0 .. n
        /\ u \in Writing /\ Calm(u) /\ k - 1 \in 0 .. n /\ k \in Nat
    BY <1>1, <1>2
  <2>2. /\ u.addr >= addr /\ u.addr <= addr + (k - 1)
        /\ u.refused => ~simValidMem(u.addr)
        /\ ~u.sim.exited /\ ~u.refused => u.addr = addr + (k - 1)
        /\ \A c \in Memory : c \notin addr .. addr + (k - 1) - 1 =>
             simDebugRead(u.sim, c) = simDebugRead(sim, c)
    BY <1>4
  <2>3. /\ u.sim \in Sim /\ u.addr \in Nat /\ u.sim.mmio["do_reset"] = 0
        /\ u.refused \in BOOLEAN /\ u.sim.exited \in BOOLEAN
    BY <2>1 DEF Writing, Calm, Sim
  <2>4. \A c \in Memory : c \in Nat /\ (c \notin addr .. addr + k - 1 =>
                                          c \notin addr .. addr + (k - 1) - 1)
    BY <2>1, AlignedIs
  <2> HIDE DEF u, v, b
  <2>5. /\ v.addr >= addr /\ v.addr <= addr + k
        /\ v.refused => ~simValidMem(v.addr)
        /\ ~v.sim.exited /\ ~v.refused => v.addr = addr + k
        /\ \A c \in Memory : c \notin addr .. addr + k - 1 =>
             simDebugRead(v.sim, c) = simDebugRead(sim, c)
    <3>1. CASE u.refused \/ u.sim.exited
      <4>1. v = u
        BY <2>1, <3>1 DEF WriteByte
      <4>2. u.addr <= addr + k
        BY <2>1, <2>2, <2>3
      <4> QED BY <2>2, <2>4, <3>1, <4>1, <4>2
    <3>2. CASE ~u.refused /\ ~u.sim.exited /\ ~simValidMem(u.addr)
      <4>1. v = [u EXCEPT !.refused = TRUE]
        BY <2>1, <3>2 DEF WriteByte
      <4>2. v.refused /\ v.addr = u.addr /\ v.sim = u.sim
        BY <2>1, <4>1 DEF Writing
      <4>3. u.addr <= addr + k
        BY <2>1, <2>2, <2>3
      <4> QED BY <2>2, <2>4, <3>2, <4>2, <4>3
    <3>3. CASE ~u.refused /\ ~u.sim.exited /\ simValidMem(u.addr)
      <4> DEFINE t == simDebugWrite(u.sim, u.addr, b)
                 x == u.addr + 1
      <4>1. v = [u EXCEPT !.sim = t, !.addr = x]
        BY <2>1, <3>3 DEF WriteByte
      <4>2. \A c \in Memory : c # u.addr => simDebugRead(t, c) = simDebugRead(u.sim, c)
        BY <2>1, <2>3, WriteDoes
      <4>3. x = addr + k /\ u.addr = addr + (k - 1) /\ x \in Nat
        BY <2>1, <2>2, <3>3
      <4> HIDE DEF t, x
      <4>4. v.sim = t /\ v.addr = x /\ v.refused = FALSE
        BY <2>1, <2>3, <3>3, <4>1 DEF Writing
      <4>5. \A c \in Memory : c \notin addr .. addr + k - 1 => c # u.addr
        BY <2>1, <2>4, <4>3
      <4>6. \A c \in Memory : c \notin addr .. addr + k - 1 =>
              simDebugRead(t, c) = simDebugRead(sim, c)
        BY <2>2, <2>4, <4>2, <4>5
      <4> QED BY <2>1, <4>3, <4>4, <4>6
    <3> QED BY <2>3, <3>1, <3>2, <3>3
  <2>6. P(k)
    BY <2>1, <2>5 DEF v
  <2> HIDE DEF P
  <2> QED BY <2>1, <2>6
<1>5. T \in SUBSET (0 .. n)
  OBVIOUS
<1> HIDE DEF T
<1>6. T = 0 .. n
  BY <1>1, <1>3, <1>4, <1>5, UpTo
<1> QED BY <1>6 DEF T, n

\* A run that asks for no reset: the bytes it came to are there, and the others,
\* the registers and the flags are as they were.
LEMMA QuietRun ==
  ASSUME sim \in Sim, sim.mmio["do_reset"] = 0,
         NEW addr \in Nat, NEW data \in Seq(Byte), NEW w, Run(w, addr, data),
         ~Resets(addr, data)
  PROVE  \A k \in 0 .. Len(data) : ~w[k].sim.exited =>
           /\ w[k].sim.gpr = sim.gpr /\ w[k].sim.apsr = sim.apsr
           /\ \A c \in Space :
                simDebugRead(w[k].sim, c) = IF c \in addr .. w[k].addr - 1 THEN data[c - addr + 1]
                                            ELSE simDebugRead(sim, c)
<1> DEFINE n == Len(data)
           P(k) == ~w[k].sim.exited =>
             /\ w[k].sim.gpr = sim.gpr /\ w[k].sim.apsr = sim.apsr
             /\ \A c \in Space :
                  simDebugRead(w[k].sim, c) = IF c \in addr .. w[k].addr - 1 THEN data[c - addr + 1]
                                              ELSE simDebugRead(sim, c)
           T == {k \in 0 .. n : P(k)}
<1>1. n \in Nat /\ \A k \in 1 .. n : data[k] \in Byte /\ k - 1 \in 0 .. n /\ k \in 0 .. n
  OBVIOUS
<1>2. /\ w[0] = [sim |-> sim, addr |-> addr, refused |-> FALSE]
      /\ \A k \in 1 .. n : w[k] = WriteByte(w[k - 1], data[k])
  BY DEF Run
<1>3. \A k \in 0 .. n :
        /\ w[k] \in Writing /\ Calm(w[k])
        /\ ~w[k].sim.exited /\ ~w[k].refused => w[k].addr = addr + k
  BY RunAt
<1>4. DOMAIN data = 1 .. n
  OBVIOUS
<1> HIDE DEF n
<1>5. 0 \in T
  <2>1. 0 \in 0 .. n /\ w[0].sim = sim /\ w[0].addr = addr
    BY <1>1, <1>2
  <2>2. \A c : c \notin addr .. addr - 1
    OBVIOUS
  <2>3. P(0)
    BY <2>1, <2>2, Zenon
  <2> HIDE DEF P
  <2> QED BY <2>1, <2>3
<1>6. ASSUME NEW k \in 1 .. n, k - 1 \in T PROVE k \in T
  <2> DEFINE u == w[k - 1]
             v == w[k]
             b == data[k]
  <2>1. /\ v = WriteByte(u, b) /\ b \in Byte /\ k \in 0 .. n
        /\ u \in Writing /\ Calm(u) /\ k - 1 \in 0 .. n /\ k \in Nat
        /\ ~u.sim.exited /\ ~u.refused => u.addr = addr + (k - 1)
    BY <1>1, <1>2, <1>3
  <2>2. P(k - 1)
    BY <1>6
  <2>3. /\ u.sim \in Sim /\ u.addr \in Nat /\ u.sim.mmio["do_reset"] = 0
        /\ u.refused \in BOOLEAN /\ u.sim.exited \in BOOLEAN
    BY <2>1 DEF Writing, Calm, Sim
  <2>4. SUFFICES ASSUME ~v.sim.exited PROVE P(k)
    <3>1. v.sim.exited => P(k)
      OBVIOUS
    <3> HIDE DEF P
    <3> QED BY <2>1, <2>4, <3>1
  <2>5. ~u.sim.exited =>
          /\ u.sim.gpr = sim.gpr /\ u.sim.apsr = sim.apsr
          /\ \A c \in Space :
               simDebugRead(u.sim, c) = IF c \in addr .. u.addr - 1 THEN data[c - addr + 1]
                                        ELSE simDebugRead(sim, c)
    BY <2>2
  <2>6. SUFFICES /\ v.sim.gpr = sim.gpr /\ v.sim.apsr = sim.apsr
                 /\ \A c \in Space :
                      simDebugRead(v.sim, c) = IF c \in addr .. v.addr - 1 THEN data[c - addr + 1]
                                               ELSE simDebugRead(sim, c)
    OBVIOUS
  <2> HIDE DEF u, v, P
  <2>7. CASE u.refused \/ u.sim.exited
    <3>1. v = u
      BY <2>1, <2>7 DEF WriteByte
    <3> QED BY <2>4, <2>5, <3>1
  <2>8. CASE ~u.refused /\ ~u.sim.exited /\ ~simValidMem(u.addr)
    <3>1. v = [u EXCEPT !.refused = TRUE]
      BY <2>1, <2>8 DEF WriteByte
    <3>2. v.addr = u.addr /\ v.sim = u.sim
      BY <2>1, <3>1 DEF Writing
    <3> QED BY <2>5, <2>8, <3>2
  <2>9. CASE ~u.refused /\ ~u.sim.exited /\ simValidMem(u.addr)
    <3> DEFINE t == simDebugWrite(u.sim, u.addr, b)
               x == u.addr + 1
               a == u.addr
    <3>1. v = [u EXCEPT !.sim = t, !.addr = x]
      BY <2>1, <2>9 DEF WriteByte
    <3>2. a = addr + k - 1 /\ a \in Nat /\ x = a + 1 /\ a - addr + 1 = k
      BY <2>1, <2>9
    <3>3. v.sim = t /\ v.addr = x
      <4> HIDE DEF t, x
      <4> QED BY <2>1, <3>1 DEF Writing
    <3>4. a \in Space
      <4>1. SUFFICES ASSUME a \notin Space PROVE FALSE
        OBVIOUS
      <4>2. t = [u.sim EXCEPT !.exited = TRUE]
        BY <4>1 DEF simDebugWrite, Space
      <4>3. t.exited = TRUE
        BY <2>3, <4>2 DEF Sim
      <4> QED BY <2>4, <3>3, <4>3
    <3>5. Quiet(a, b)
      <4>1. ~(addr + k - 1 \in MmioSpace /\ Name(addr + k - 1) = "do_reset" /\ data[k] # 0)
        BY <1>4 DEF Resets
      <4> QED BY <3>2, <4>1 DEF Quiet
    <3>6. /\ t.gpr = u.sim.gpr /\ t.apsr = u.sim.apsr
          /\ simDebugRead(t, a) = b
          /\ \A c \in Space : c # a => simDebugRead(t, c) = simDebugRead(u.sim, c)
      BY <2>1, <2>3, <3>4, <3>5, WriteBack
    <3>7. \A c \in Space : c \in Nat
      BY SpaceIsValid
    <3> HIDE DEF t, x, a, b
    <3>8. ASSUME NEW c \in Space
          PROVE  simDebugRead(t, c) = IF c \in addr .. x - 1 THEN data[c - addr + 1]
                                      ELSE simDebugRead(sim, c)
      <4>1. CASE c = a
        <5>1. c \in addr .. x - 1 /\ c - addr + 1 = k
          BY <2>1, <3>2, <4>1
        <5> QED BY <3>6, <4>1, <5>1 DEF b
      <4>2. CASE c # a
        <5>1. c \in addr .. x - 1 <=> c \in addr .. a - 1
          BY <3>2, <3>7, <4>2
        <5> QED BY <2>5, <2>9, <3>6, <4>2, <5>1 DEF a
      <4> QED BY <4>1, <4>2
    <3> QED BY <2>5, <2>9, <3>3, <3>6, <3>8
  <2> QED BY <2>3, <2>7, <2>8, <2>9
<1>7. T \in SUBSET (0 .. n)
  OBVIOUS
<1> HIDE DEF T
<1>8. T = 0 .. n
  BY <1>1, <1>5, <1>6, <1>7, UpTo
<1> QED BY <1>8 DEF T, n

-----------------------------------------------------------------------------
(***************************************************************************)
(* The requests.                                                           *)
(***************************************************************************)
Knowledge  == [reg : [Regs -> Int], byte : [Space -> Int]]
True(k, s) ==
  /\ \A r \in Regs : k.reg[r] \in {-1, Believed(r, Register(s, r))}
  /\ \A a \in Space : k.byte[a] \in {-1, simDebugRead(s, a)}

\* What the client believes of a simulation that has not ended is true.
Inv ==
  /\ sim \in Sim /\ sim.mmio["do_reset"] = 0
  /\ known \in Knowledge
  /\ ~sim.exited => True(known, sim)

\* What ReadsWhatWasWritten says of a step.
Told ==
  last'.reply.kind = "data" =>
    /\ \A r \in Regs : Agrees(known.reg[r], known'.reg[r])
    /\ \A a \in DOMAIN known.byte : Agrees(known.byte[a], known'.byte[a])

\* The buffer holds all the registers and the 0 that ends them.
LEMMA Buffers ==
  /\ NUM_REGS \in Nat /\ NUM_REGS >= 2 /\ GDB_BUF_MAX \in Nat
  /\ GDB_BUF_MAX = NUM_REGS * Digits + 1 /\ Digits >= 4 /\ Digits < GDB_BUF_MAX
<1>1. NUM_REGS \in Nat /\ NUM_REGS >= 2 /\ Digits \in Nat /\ Digits >= 4
  BY Layout, Sizes DEF NUM_REGS
<1>2. NUM_REGS * Digits >= 2 * Digits /\ NUM_REGS * Digits \in Nat
  BY <1>1
<1> QED BY <1>1, <1>2 DEF GDB_BUF_MAX

\* A register is a word.
LEMMA RegisterType == \A s \in Sim, r \in Regs : Register(s, r) \in Word /\ Believed(r, Register(s, r)) \in Int
<1>1. SUFFICES ASSUME NEW s \in Sim, NEW r \in Regs
               PROVE  Register(s, r) \in Word /\ Believed(r, Register(s, r)) \in Int
  BY Zenon
<1>2. PC_REGNUM = MAX_GPRS /\ MAX_GPRS \in Nat /\ PC_REGNUM \in 0 .. PC_REGNUM
      /\ CPSR_REGNUM = MAX_GPRS + 10
  BY Layout
<1>3. Register(s, r) \in Word
  <2>1. CASE r < MAX_GPRS
    <3>1. r \in 0 .. PC_REGNUM
      BY <1>2, <2>1 DEF Regs
    <3>2. Register(s, r) = s.gpr[r]
      BY <1>2, <2>1 DEF Register
    <3>3. s.gpr[r] \in Word
      BY <3>1 DEF Sim
    <3> QED BY <3>2, <3>3, Zenon
  <2>2. CASE r = PC_REGNUM
    <3>1. Register(s, r) = (s.gpr[PC_REGNUM] - 4) % WordMod
      BY <1>2, <2>2 DEF Register, get_pc
    <3>2. s.gpr[PC_REGNUM] \in Word
      BY <1>2 DEF Sim
    <3>3. s.gpr[PC_REGNUM] - 4 \in Int
      BY <3>2, WordSmall
    <3> QED BY <3>1, <3>3, WordRemainder
  <2>3. CASE ~(r < MAX_GPRS) /\ r # PC_REGNUM
    <3>1. Register(s, r) = s.apsr
      BY <2>3 DEF Register
    <3> QED BY <3>1 DEF Sim
  <2> QED BY <2>1, <2>2, <2>3
<1>4. Believed(r, Register(s, r)) \in Int
  BY <1>3, WordSmall DEF Believed
<1> QED BY <1>3, <1>4

\* The registers and the flags decide what the client sees of them.
LEMMA RegisterSame ==
  \A s, t \in Sim, r \in Regs : s.gpr = t.gpr /\ s.apsr = t.apsr => Register(s, r) = Register(t, r)
BY DEF Register, get_pc

\* A reply with no text fits.
LEMMA EmptyFits == Len(<< >>) = 0 /\ 0 < GDB_BUF_MAX
<1>1. Len(<< >>) = 0
  OBVIOUS
<1>2. 0 < GDB_BUF_MAX
  BY Buffers, Sizes
<1> QED BY <1>1, <1>2

\* What the simulation holds is told.
LEMMA StepReadReg ==
  ASSUME Inv, ~sim.exited, NEW r, rsp_read_reg(r)
  PROVE  Inv' /\ RequestsAndRepliesFit' /\ Told
<1> DEFINE text == RegText(sim, r)
           b == Believed(r, WordOf(text))
<1>1. /\ last' = Request("p", r, 1, IF r \in Regs THEN Data(text) ELSE E01)
      /\ known' = IF r \in Regs THEN [known EXCEPT !.reg[r] = b] ELSE known
      /\ sim' = sim
  BY DEF rsp_read_reg
<1>2. sim \in Sim /\ known \in Knowledge /\ True(known, sim)
  BY DEF Inv
<1>3. r \in Regs => b = Believed(r, Register(sim, r)) /\ b \in Int
  BY <1>2, RegisterType, WordBack DEF RegText
<1>4. Len(text) = Digits
  BY RegTextLength DEF RegText
<1> HIDE DEF text, b
<1>5. /\ known' \in Knowledge
      /\ \A q \in Regs : known'.reg[q] = IF q = r THEN b ELSE known.reg[q]
      /\ known'.byte = known.byte
  <2>1. CASE r \in Regs
    BY <1>1, <1>2, <1>3, <2>1 DEF Knowledge
  <2>2. CASE r \notin Regs
    BY <1>1, <1>2, <2>2
  <2> QED BY <2>1, <2>2
<1>6. True(known', sim)
  BY <1>2, <1>3, <1>5 DEF True
<1>7. Inv'
  BY <1>1, <1>2, <1>5, <1>6 DEF Inv
<1>8. RequestsAndRepliesFit'
  BY <1>1, <1>4, Buffers, EmptyFits DEF RequestsAndRepliesFit, Request, Data, E01
<1>9. Told
  BY <1>2, <1>3, <1>5 DEF True, Told, Agrees
<1> QED BY <1>7, <1>8, <1>9

\* The registers of g are those of p.
LEMMA StepReadAll ==
  ASSUME Inv, ~sim.exited, rsp_read_all_regs
  PROVE  Inv' /\ RequestsAndRepliesFit' /\ Told
<1> DEFINE text == [n \in 1 .. NUM_REGS * Digits |->
                     RegText(sim, (n - 1) \div Digits)[((n - 1) % Digits) + 1]]
           w(r) == WordOf(SubSeq(text, r * Digits + 1, (r + 1) * Digits))
           g == [r \in 0 .. PC_REGNUM |-> Believed(r, w(r))]
<1>1. /\ last' = Request("g", 0, NUM_REGS, Data(text))
      /\ known' = [known EXCEPT !.reg = Learns(known.reg, g)]
      /\ sim' = sim
  BY DEF rsp_read_all_regs
<1>2. sim \in Sim /\ known \in Knowledge /\ True(known, sim)
  BY DEF Inv
<1>3. Digits \in Nat \ {0} /\ NUM_REGS \in Nat /\ NUM_REGS = PC_REGNUM + 1 /\ PC_REGNUM \in Nat
      /\ NUM_REGS * Digits \in Nat
  BY Buffers, Layout, Sizes DEF NUM_REGS
<1>4. ASSUME NEW r \in 0 .. PC_REGNUM PROVE w(r) = Register(sim, r)
  <2>1. r \in Nat /\ r < NUM_REGS /\ r \in Regs
    BY <1>3 DEF Regs
  <2> DEFINE lo == r * Digits + 1
             hi == (r + 1) * Digits
             part == SubSeq(text, lo, hi)
             reg == RegText(sim, r)
  <2>2. /\ lo \in Int /\ hi \in Int /\ hi = lo + Digits - 1 /\ lo >= 1 /\ hi <= NUM_REGS * Digits
        /\ r * Digits \in Nat
    <3>1. hi = r * Digits + Digits /\ r * Digits \in Nat
      BY <1>3, <2>1
    <3>2. (r + 1) * Digits <= NUM_REGS * Digits
      BY <1>3, <2>1
    <3> QED BY <1>3, <3>1, <3>2
  <2>3. ASSUME NEW i \in 1 .. Digits
        PROVE  /\ lo + i - 1 \in 1 .. NUM_REGS * Digits
               /\ text[lo + i - 1] = reg[i]
    <3>1. lo + i - 1 \in 1 .. NUM_REGS * Digits
      <4> HIDE DEF lo, hi
      <4> QED BY <1>3, <2>2
    <3>2. (lo + i - 1) - 1 = Digits * r + (i - 1) /\ i - 1 \in Nat /\ i - 1 < Digits
      <4>1. r * Digits = Digits * r
        BY <1>3, <2>1
      <4> QED BY <1>3, <2>2, <4>1
    <3>3. ((lo + i - 1) - 1) \div Digits = r /\ ((lo + i - 1) - 1) % Digits = i - 1
      <4> DEFINE a == (lo + i - 1) - 1
                 b == i - 1
      <4>1. a \in Int /\ b \in Nat /\ b < Digits /\ a = Digits * r + b /\ r \in Int
        BY <1>3, <2>1, <2>2, <3>2
      <4> HIDE DEF a, b
      <4>2. a \div Digits = r /\ a % Digits = b
        BY <1>3, <4>1, Quotient
      <4> QED BY <4>2 DEF a, b
    <3>4. text[lo + i - 1] = RegText(sim, ((lo + i - 1) - 1) \div Digits)
                               [(((lo + i - 1) - 1) % Digits) + 1]
      <4> HIDE DEF lo
      <4> QED BY <3>1
    <3>5. (i - 1) + 1 = i
      OBVIOUS
    <3> QED BY <3>1, <3>3, <3>4, <3>5
  <2>4. reg = reg2hex(Register(sim, r)) /\ DOMAIN reg = 1 .. Digits /\ Len(reg) = Digits
    BY RegTextLength DEF RegText
  <2> DEFINE S == {text[n] : n \in 1 .. NUM_REGS * Digits}
  <2>5. part \in Seq(S) /\ Len(part) = Digits /\ \A i \in 1 .. Digits : part[i] = text[lo + i - 1]
    <3>1. \A i \in lo .. hi : i \in 1 .. NUM_REGS * Digits
      <4> DEFINE N == NUM_REGS * Digits
      <4>1. lo \in Int /\ hi \in Int /\ lo >= 1 /\ hi <= N /\ N \in Int
        BY <1>3, <2>2
      <4> HIDE DEF lo, hi, N
      <4>2. \A i \in lo .. hi : i \in 1 .. N
        BY <4>1
      <4> QED BY <4>2 DEF N
    <3>2. \A i \in lo .. hi : text[i] \in S
      <4> HIDE DEF text, lo, hi
      <4> QED BY <3>1
    <3> HIDE DEF text, lo, hi, S
    <3>3. hi - lo + 1 = Digits /\ lo <= hi
      BY <1>3, <2>2
    <3>4. /\ SubSeq(text, lo, hi) \in Seq(S)
          /\ Len(SubSeq(text, lo, hi)) = IF lo <= hi THEN hi - lo + 1 ELSE 0
          /\ \A i \in 1 .. hi - lo + 1 : SubSeq(text, lo, hi)[i] = text[lo + i - 1]
      BY <2>2, <3>2, SubSeqProperties
    <3> QED BY <3>3, <3>4 DEF part
  <2>6. reg \in Seq(S)
    <3>1. \A i \in 1 .. Digits : reg[i] \in S
      BY <2>3
    <3>2. reg = [i \in 1 .. Digits |-> reg[i]]
      BY <2>4 DEF reg2hex
    <3> HIDE DEF reg, S
    <3>3. reg \in [1 .. Digits -> S]
      BY <3>1, <3>2
    <3> QED BY <1>3, <3>3
  <2>7. \A i \in 1 .. Digits : part[i] = reg[i]
    BY <2>3, <2>5
  <2> HIDE DEF part, reg, S
  <2>8. part = reg
    BY <2>4, <2>5, <2>6, <2>7, SeqEqual
  <2>9. w(r) = WordOf(part)
    BY DEF part
  <2>10. WordOf(reg) = Register(sim, r)
    BY <1>2, <2>1, <2>4, RegisterType, WordBack
  <2> QED BY <2>8, <2>9, <2>10
<1>5. Len(text) = NUM_REGS * Digits
  <2>1. text \in [1 .. NUM_REGS * Digits -> {text[n] : n \in 1 .. NUM_REGS * Digits}]
    OBVIOUS
  <2> HIDE DEF text
  <2> QED BY <1>3, <2>1
<1>6. \A r \in 0 .. PC_REGNUM : g[r] = Believed(r, Register(sim, r)) /\ r \in Regs
  <2> HIDE DEF w
  <2> QED BY <1>4 DEF Regs
<1>7. DOMAIN g = 0 .. PC_REGNUM
  OBVIOUS
<1> HIDE DEF text, w, g
<1>8. /\ known' \in Knowledge /\ known'.byte = known.byte
      /\ \A q \in Regs : known'.reg[q] = IF q \in 0 .. PC_REGNUM THEN Believed(q, Register(sim, q))
                                         ELSE known.reg[q]
  <2> DEFINE k == Learns(known.reg, g)
  <2>1. known.reg \in [Regs -> Int] /\ DOMAIN known.reg = Regs
    BY <1>2 DEF Knowledge
  <2>2. k = [q \in Regs |-> IF q \in 0 .. PC_REGNUM THEN g[q] ELSE known.reg[q]]
    BY <1>7, <2>1 DEF Learns
  <2>3. \A q \in Regs : k[q] = IF q \in 0 .. PC_REGNUM THEN Believed(q, Register(sim, q))
                               ELSE known.reg[q]
    BY <1>6, <2>2
  <2>4. k \in [Regs -> Int]
    <3>1. \A q \in Regs : k[q] \in Int
      BY <1>2, <2>1, <2>3, RegisterType
    <3> QED BY <2>2, <3>1
  <2> HIDE DEF k
  <2>5. known' = [known EXCEPT !.reg = k]
    BY <1>1 DEF k
  <2> QED BY <1>2, <2>3, <2>4, <2>5 DEF Knowledge
<1>9. True(known', sim)
  BY <1>2, <1>8 DEF True
<1>10. Inv'
  BY <1>1, <1>2, <1>8, <1>9 DEF Inv
<1>11. RequestsAndRepliesFit'
  BY <1>1, <1>5, Buffers DEF RequestsAndRepliesFit, Request, Data
<1>12. Told
  BY <1>2, <1>8 DEF True, Told, Agrees
<1> QED BY <1>10, <1>11, <1>12

\* What the client writes is what it then believes.
LEMMA StepWriteReg ==
  ASSUME Inv, ~sim.exited, NEW r, NEW value \in Values, rsp_write_reg(r, value)
  PROVE  Inv' /\ RequestsAndRepliesFit' /\ Told
<1> DEFINE v == hex2reg(TextOf(value))
           pc == SetLow((value + 4) % WordMod)
<1>1. value \in Word /\ v = value /\ value \in Nat
  BY DebugAssumption, TextBack, WordSmall
<1>2. /\ last' = Request("P", r, 1, IF r \in Regs THEN OK ELSE E01)
      /\ sim' = CASE r \in 0 .. MAX_GPRS - 1 -> [sim EXCEPT !.gpr[r] = value]
                  [] r = PC_REGNUM -> [sim EXCEPT !.gpr[PC_REGNUM] = pc]
                  [] OTHER -> sim
      /\ known' = CASE r = CPSR_REGNUM -> [known EXCEPT !.reg[r] = -1]
                    [] r \in 0 .. PC_REGNUM -> [known EXCEPT !.reg[r] = Believed(r, value)]
                    [] OTHER -> known
  BY <1>1 DEF rsp_write_reg, set_pc
<1>3. sim \in Sim /\ known \in Knowledge /\ True(known, sim) /\ sim.mmio["do_reset"] = 0
  BY DEF Inv
<1>4. /\ pc \in Word
      /\ ((pc - 4) % WordMod) - (((pc - 4) % WordMod) % 2) = value - (value % 2)
  <2> DEFINE x == pc
  <2>1. x = SetLow((value + 4) % WordMod)
    OBVIOUS
  <2> HIDE DEF x
  <2>2. x \in Word /\ ((x - 4) % WordMod) - (((x - 4) % WordMod) % 2) = value - (value % 2)
    BY <1>1, <2>1, PcBack
  <2> QED BY <2>1, <2>2
<1> HIDE DEF v, pc
<1>5. /\ PC_REGNUM = MAX_GPRS /\ MAX_GPRS \in Nat /\ CPSR_REGNUM = MAX_GPRS + 10
      /\ PC_REGNUM \in 0 .. PC_REGNUM
  BY Layout
<1>6. last'.reply.kind # "data" /\ last'.reply.kind # "none" /\ last'.reply.text = << >>
  BY <1>2 DEF Request, OK, E01
<1>7. RequestsAndRepliesFit' /\ Told
  BY <1>6, EmptyFits DEF RequestsAndRepliesFit, Told
<1>8. \A s \in Sim : s.mmio = sim.mmio /\ s.word = sim.word =>
        \A a \in Space : simDebugRead(s, a) = simDebugRead(sim, a)
  BY DEF simDebugRead
<1>9. CASE r \in 0 .. MAX_GPRS - 1
  <2>1. r # PC_REGNUM /\ r # CPSR_REGNUM /\ r \in 0 .. PC_REGNUM /\ r \in Regs /\ r < MAX_GPRS
    BY <1>5, <1>9 DEF Regs
  <2>2. sim' = [sim EXCEPT !.gpr[r] = value]
    BY <1>2, <1>9, <2>1
  <2>3. known' = [known EXCEPT !.reg[r] = Believed(r, value)] /\ Believed(r, value) = value
    BY <1>2, <2>1 DEF Believed
  <2>4. /\ sim' \in Sim /\ sim'.mmio = sim.mmio /\ sim'.word = sim.word
        /\ sim'.apsr = sim.apsr /\ sim'.exited = sim.exited
        /\ \A q \in 0 .. PC_REGNUM : sim'.gpr[q] = IF q = r THEN value ELSE sim.gpr[q]
    BY <1>1, <1>3, <2>1, <2>2 DEF Sim
  <2>5. /\ known' \in Knowledge /\ known'.byte = known.byte
        /\ \A q \in Regs : known'.reg[q] = IF q = r THEN value ELSE known.reg[q]
    BY <1>1, <1>3, <2>1, <2>3 DEF Knowledge
  <2>6. ASSUME NEW q \in Regs PROVE known'.reg[q] \in {-1, Believed(q, Register(sim', q))}
    <3>1. CASE q = r
      <4>1. Register(sim', q) = value
        BY <2>1, <2>4, <3>1, <1>5 DEF Register
      <4> QED BY <2>1, <2>3, <2>5, <3>1, <4>1
    <3>2. CASE q # r
      <4>1. Register(sim', q) = Register(sim, q)
        <5>1. CASE q < MAX_GPRS
          <6>1. q \in 0 .. PC_REGNUM
            BY <1>5, <5>1 DEF Regs
          <6> QED BY <1>5, <2>4, <3>2, <5>1, <6>1 DEF Register
        <5>2. CASE q = PC_REGNUM
          BY <1>5, <2>4, <3>2, <5>2 DEF Register, get_pc
        <5>3. CASE ~(q < MAX_GPRS) /\ q # PC_REGNUM
          BY <1>5, <2>4, <5>3 DEF Register
        <5> QED BY <5>1, <5>2, <5>3
      <4> QED BY <1>3, <2>5, <3>2, <4>1 DEF True
    <3> QED BY <3>1, <3>2
  <2>7. True(known', sim')
    BY <1>3, <1>8, <2>4, <2>5, <2>6 DEF True
  <2>8. Inv'
    BY <1>3, <2>4, <2>5, <2>7 DEF Inv
  <2> QED BY <1>7, <2>8
<1>10. CASE r = PC_REGNUM
  <2>1. r \notin 0 .. MAX_GPRS - 1 /\ r # CPSR_REGNUM /\ r \in 0 .. PC_REGNUM /\ r \in Regs
    BY <1>5, <1>10 DEF Regs
  <2>2. sim' = [sim EXCEPT !.gpr[PC_REGNUM] = pc]
    BY <1>2, <1>10, <2>1
  <2>3. known' = [known EXCEPT !.reg[r] = Believed(r, value)] /\ Believed(r, value) = value - (value % 2)
    BY <1>2, <1>10, <2>1 DEF Believed
  <2>4. /\ sim' \in Sim /\ sim'.mmio = sim.mmio /\ sim'.word = sim.word
        /\ sim'.apsr = sim.apsr /\ sim'.exited = sim.exited
        /\ \A q \in 0 .. PC_REGNUM : sim'.gpr[q] = IF q = PC_REGNUM THEN pc ELSE sim.gpr[q]
    BY <1>3, <1>4, <1>5, <2>2 DEF Sim
  <2> DEFINE b == value - (value % 2)
  <2>0. b \in Int
    BY <1>1
  <2> HIDE DEF b
  <2>5. /\ known' \in Knowledge /\ known'.byte = known.byte
        /\ \A q \in Regs : known'.reg[q] = IF q = r THEN b ELSE known.reg[q]
    <3>1. known' = [known EXCEPT !.reg[r] = b]
      BY <2>3 DEF b
    <3> QED BY <1>3, <2>0, <2>1, <3>1 DEF Knowledge
  <2>6. ASSUME NEW q \in Regs PROVE known'.reg[q] \in {-1, Believed(q, Register(sim', q))}
    <3>1. CASE q = r
      <4>1. Register(sim', q) = (pc - 4) % WordMod
        BY <1>5, <1>10, <2>4, <3>1 DEF Register, get_pc
      <4>2. Believed(q, Register(sim', q)) = b
        BY <1>4, <1>10, <3>1, <4>1, Zenon DEF Believed, b
      <4> QED BY <2>5, <3>1, <4>2
    <3>2. CASE q # r
      <4>1. Register(sim', q) = Register(sim, q)
        <5>1. CASE q < MAX_GPRS
          <6>1. q \in 0 .. PC_REGNUM
            BY <1>5, <5>1 DEF Regs
          <6> QED BY <1>5, <1>10, <2>4, <3>2, <5>1, <6>1 DEF Register
        <5>2. CASE ~(q < MAX_GPRS)
          BY <1>5, <1>10, <2>4, <3>2, <5>2 DEF Register
        <5> QED BY <5>1, <5>2
      <4> QED BY <1>3, <2>5, <3>2, <4>1 DEF True
    <3> QED BY <3>1, <3>2
  <2>7. True(known', sim')
    BY <1>3, <1>8, <2>4, <2>5, <2>6 DEF True
  <2>8. Inv'
    BY <1>3, <2>4, <2>5, <2>7 DEF Inv
  <2> QED BY <1>7, <2>8
<1>11. CASE r \notin 0 .. MAX_GPRS - 1 /\ r # PC_REGNUM
  <2>1. sim' = sim
    BY <1>2, <1>11
  <2>2. r \notin 0 .. PC_REGNUM
    BY <1>5, <1>11
  <2>3. /\ known' \in Knowledge /\ known'.byte = known.byte
        /\ \A q \in Regs : known'.reg[q] \in {-1, known.reg[q]}
    <3>1. CASE r = CPSR_REGNUM
      <4>1. r \in Regs
        BY <3>1 DEF Regs
      <4>2. known' = [known EXCEPT !.reg[r] = -1]
        BY <1>2, <2>2, <3>1
      <4> QED BY <1>3, <4>1, <4>2 DEF Knowledge
    <3>2. CASE r # CPSR_REGNUM
      BY <1>2, <1>3, <2>2, <3>2
    <3> QED BY <3>1, <3>2
  <2>4. True(known', sim)
    BY <1>3, <2>3 DEF True
  <2>5. Inv'
    BY <1>3, <2>1, <2>3, <2>4 DEF Inv
  <2> QED BY <1>7, <2>5
<1> QED BY <1>9, <1>10, <1>11

\* The bytes asked for, cut to what fits in a reply.
LEMMA ClampIs == \A n \in Nat : Clamp(n) \in Nat /\ 2 * Clamp(n) < GDB_BUF_MAX
<1>1. SUFFICES ASSUME NEW n \in Nat PROVE Clamp(n) \in Nat /\ 2 * Clamp(n) < GDB_BUF_MAX
  BY Zenon
<1> DEFINE B == GDB_BUF_MAX
<1>2. B \in Nat /\ B >= 1
  BY Buffers, Sizes
<1>3. Clamp(n) = IF 2 * n >= B THEN (B - 1) \div 2 ELSE n
  BY DEF Clamp
<1> HIDE DEF B
<1>4. (B - 1) \div 2 \in Nat /\ 2 * ((B - 1) \div 2) < B
  BY <1>2
<1> QED BY <1>2, <1>3, <1>4 DEF B

\* What is read of the memories and the table is what is there.
LEMMA StepReadMem ==
  ASSUME Inv, ~sim.exited, NEW addr \in Addrs, NEW asked \in Lengths, rsp_read_mem(addr, asked)
  PROVE  Inv' /\ RequestsAndRepliesFit' /\ Told
<1> DEFINE len  == Clamp(asked)
           good == Reachable(addr, len)
           b(n) == simDebugRead(sim, addr + ((n - 1) \div 2))
           text == [n \in 1 .. 2 * good |-> IF n % 2 = 1 THEN b(n) \div Nibble ELSE b(n) % Nibble]
           g == [a \in addr .. addr + len - 1 |-> BytesOf(text)[a - addr + 1]]
<1>1. \/ /\ good = len
         /\ last' = Request("m", addr, len, Data(text))
         /\ known' = [known EXCEPT !.byte = Learns(known.byte, g)]
         /\ sim' = sim
      \/ /\ good < len
         /\ last' = Request("m", addr, len, IF simValidMem(addr + good) THEN NoReply ELSE E01)
         /\ sim' = [sim EXCEPT !.exited = simValidMem(addr + good)]
         /\ known' = known
  BY DEF rsp_read_mem
<1>2. addr \in Nat /\ asked \in Nat
  BY DebugAssumption
<1>3. len \in Nat /\ 2 * len < GDB_BUF_MAX
  BY <1>2, ClampIs
<1>4. good \in 0 .. len /\ \A off \in 0 .. good - 1 : Mapped(addr + off)
  <2> HIDE DEF len
  <2> QED BY <1>2, <1>3, ReachableIs
<1>5. sim \in Sim /\ known \in Knowledge /\ True(known, sim) /\ sim.mmio["do_reset"] = 0
  BY DEF Inv
<1>6. CASE good = len
  <2> HIDE DEF len, good
  <2>1. Len(text) = 2 * len /\ Len(text) \div 2 = len
    <3>1. text \in [1 .. 2 * good -> {text[n] : n \in 1 .. 2 * good}]
      OBVIOUS
    <3> HIDE DEF text
    <3>2. Len(text) = 2 * len
      BY <1>3, <1>6, <3>1
    <3> QED BY <1>3, <3>2
  <2>2. \A a \in addr .. addr + len - 1 : a \in Space /\ a \in Nat /\ a - addr + 1 \in 1 .. len
    <3>1. SUFFICES ASSUME NEW a \in addr .. addr + len - 1
                   PROVE  a \in Space /\ a \in Nat /\ a - addr + 1 \in 1 .. len
      OBVIOUS
    <3>2. a \in Nat /\ a - addr + 1 \in 1 .. len /\ a - addr \in 0 .. good - 1 /\ addr + (a - addr) = a
      BY <1>2, <1>3, <1>6
    <3>3. Mapped(a)
      BY <1>4, <3>2
    <3> QED BY <3>2, <3>3 DEF Mapped, Space
  <2>3. ASSUME NEW a \in addr .. addr + len - 1
        PROVE  BytesOf(text)[a - addr + 1] = simDebugRead(sim, a)
    <3> DEFINE k == a - addr + 1
    <3>1. /\ k \in 1 .. Len(text) \div 2 /\ k \in Nat /\ addr + (k - 1) = a
          /\ 2 * k - 1 \in 1 .. 2 * good /\ 2 * k \in 1 .. 2 * good
          /\ (2 * k - 1) % 2 = 1 /\ (2 * k) % 2 # 1
          /\ ((2 * k - 1) - 1) \div 2 = k - 1 /\ (2 * k - 1) \div 2 = k - 1
      BY <1>2, <1>3, <1>6, <2>1, <2>2
    <3> HIDE DEF k
    <3>2. BytesOf(text)[k] = text[2 * k - 1] * Nibble + text[2 * k]
      <4> HIDE DEF text
      <4> QED BY <3>1, Zenon DEF BytesOf
    <3>3. b(2 * k - 1) = simDebugRead(sim, a) /\ b(2 * k) = simDebugRead(sim, a)
      BY <3>1
    <3>4. text[2 * k - 1] = simDebugRead(sim, a) \div Nibble /\ text[2 * k] = simDebugRead(sim, a) % Nibble
      <4> HIDE DEF b
      <4> QED BY <3>1, <3>3
    <3>5. simDebugRead(sim, a) \in Byte
      BY <1>5, <2>2, ReadType
    <3>6. BytesOf(text)[k] = simDebugRead(sim, a)
      <4> HIDE DEF text, b
      <4> QED BY <3>2, <3>4, <3>5, ByteOfDigits
    <3> QED BY <3>6 DEF k
  <2>4. \A a \in addr .. addr + len - 1 : g[a] = simDebugRead(sim, a) /\ a \in Space
    <3> HIDE DEF text
    <3> QED BY <2>2, <2>3
  <2>5. DOMAIN g = addr .. addr + len - 1
    OBVIOUS
  <2> HIDE DEF text, g, b
  <2>6. /\ last' = Request("m", addr, len, Data(text))
        /\ known' = [known EXCEPT !.byte = Learns(known.byte, g)]
        /\ sim' = sim
    BY <1>1, <1>3, <1>6
  <2> DEFINE k == Learns(known.byte, g)
  <2>7. known.byte \in [Space -> Int] /\ DOMAIN known.byte = Space
    BY <1>5 DEF Knowledge
  <2>8. k = [a \in Space |-> IF a \in addr .. addr + len - 1 THEN g[a] ELSE known.byte[a]]
    BY <2>5, <2>7 DEF Learns
  <2>9. \A a \in Space : k[a] = IF a \in addr .. addr + len - 1 THEN simDebugRead(sim, a)
                                ELSE known.byte[a]
    BY <2>4, <2>8
  <2>10. k \in [Space -> Int]
    <3>1. \A a \in Space : simDebugRead(sim, a) \in Int
      BY <1>5, ReadType, Sizes DEF Byte
    <3>2. \A a \in Space : k[a] \in Int
      BY <2>7, <2>9, <3>1
    <3> QED BY <2>8, <3>2
  <2> HIDE DEF k
  <2>11. known' \in Knowledge /\ known'.reg = known.reg /\ known'.byte = k
    <3>1. known' = [known EXCEPT !.byte = k]
      BY <2>6 DEF k
    <3> QED BY <1>5, <2>10, <3>1 DEF Knowledge
  <2>12. True(known', sim)
    BY <1>5, <2>9, <2>11 DEF True
  <2>13. Inv'
    BY <1>5, <2>6, <2>11, <2>12 DEF Inv
  <2>14. RequestsAndRepliesFit'
    BY <1>3, <2>1, <2>6 DEF RequestsAndRepliesFit, Request, Data
  <2>15. Told
    BY <1>5, <2>7, <2>9, <2>11 DEF True, Told, Agrees
  <2> QED BY <2>13, <2>14, <2>15
<1>7. CASE good < len
  <2> DEFINE x == simValidMem(addr + good)
  <2> HIDE DEF len, good
  <2>1. x \in BOOLEAN
    BY DEF simValidMem
  <2> HIDE DEF x
  <2>2. /\ last' = Request("m", addr, len, IF x THEN NoReply ELSE E01)
        /\ sim' = [sim EXCEPT !.exited = x]
        /\ known' = known
    BY <1>1, <1>3, <1>7 DEF x
  <2>3. /\ sim' \in Sim /\ sim'.mmio = sim.mmio /\ sim'.word = sim.word /\ sim'.gpr = sim.gpr
        /\ sim'.apsr = sim.apsr /\ sim'.exited = x
    BY <1>5, <2>1, <2>2 DEF Sim
  <2>4. True(known, sim')
    <3>1. \A r \in Regs : Register(sim', r) = Register(sim, r)
      BY <1>5, <2>3, RegisterSame
    <3>2. \A a \in Space : simDebugRead(sim', a) = simDebugRead(sim, a)
      BY <2>3 DEF simDebugRead
    <3> QED BY <1>5, <3>1, <3>2 DEF True
  <2>5. Inv'
    BY <1>5, <2>2, <2>3, <2>4 DEF Inv
  <2>6. last'.reply.text = << >> /\ last'.reply.kind # "data" /\ (last'.reply.kind = "none" => x)
    BY <2>2 DEF Request, NoReply, E01
  <2>7. RequestsAndRepliesFit' /\ Told
    BY <2>3, <2>6, EmptyFits DEF RequestsAndRepliesFit, Told
  <2> QED BY <2>5, <2>7
<1> QED BY <1>1, <1>6, <1>7

\* What forgetting leaves.
Forgot(k, places) ==
  /\ Forgets(k.byte, places) \in [Space -> Int]
  /\ \A a \in Space : Forgets(k.byte, places)[a] = IF a \in places THEN -1 ELSE k.byte[a]
  /\ Forgets(k.reg, places) \in [Regs -> Int]
  /\ \A r \in Regs : Forgets(k.reg, places)[r] = IF r \in places THEN -1 ELSE k.reg[r]

\* Forgetting keeps the types.
LEMMA Forgotten == ASSUME NEW k \in Knowledge, NEW places PROVE Forgot(k, places)
<1>1. k.byte \in [Space -> Int] /\ k.reg \in [Regs -> Int]
  BY DEF Knowledge
<1>2. /\ Forgets(k.byte, places) = [a \in Space |-> IF a \in places THEN -1 ELSE k.byte[a]]
      /\ Forgets(k.reg, places) = [r \in Regs |-> IF r \in places THEN -1 ELSE k.reg[r]]
  BY <1>1 DEF Forgets
<1> QED BY <1>1, <1>2 DEF Forgot

\* What the client knows after a reset.
LEMMA ForgottenAtReset ==
  ASSUME NEW k \in Knowledge
  PROVE  /\ KnownAfterReset(k) \in Knowledge
         /\ \A r \in Regs : KnownAfterReset(k).reg[r] = -1
         /\ \A a \in Space : KnownAfterReset(k).byte[a] = IF a \in MmioSpace THEN -1 ELSE k.byte[a]
<1> DEFINE f == Forgets(k.reg, Regs)
           g == Forgets(k.byte, MmioSpace)
<1>1. Forgot(k, Regs) /\ Forgot(k, MmioSpace)
  BY Forgotten, Zenon
<1>2. /\ f \in [Regs -> Int] /\ \A r \in Regs : f[r] = -1
      /\ g \in [Space -> Int] /\ \A a \in Space : g[a] = IF a \in MmioSpace THEN -1 ELSE k.byte[a]
  BY <1>1 DEF Forgot
<1>3. KnownAfterReset(k) = [reg |-> f, byte |-> g]
  BY DEF KnownAfterReset
<1> HIDE DEF f, g
<1> QED BY <1>2, <1>3 DEF Knowledge

\* What a client may send is accepted and written as it was before it was escaped.
LEMMA Taken ==
  ASSUME NEW addr \in Addrs, NEW payload \in Payloads, rsp_write_mem_bin(addr, payload)
  PROVE  /\ Accepted(HeaderSize + Len(Escaped(payload)))
         /\ Writes(addr, SubSeq(rsp_unescape(Escaped(payload)), 1, Len(payload)))
              = Writes(addr, payload)
<1> DEFINE size == HeaderSize + Len(Escaped(payload))
<1>1. payload \in Seq(Byte) /\ Len(payload) \in Nat
  BY DebugAssumption
<1>2. size \in Nat
  <2>1. PICK e \in [0 .. Len(payload) -> Seq(Byte)] : Escaped(payload) = e[Len(payload)]
    BY <1>1, EscapedRuns
  <2>2. e[Len(payload)] \in Seq(Byte)
    BY <1>1, <2>1
  <2>3. Len(Escaped(payload)) \in Nat
    BY <2>1, <2>2
  <2> QED BY <2>3, DebugAssumption
<1>3. size <= ClientMax
  BY DEF rsp_write_mem_bin
<1> HIDE DEF size
<1>4. Accepted(size)
  BY <1>2, <1>3, Buffers DEF Accepted, ClientMax
<1>5. SubSeq(rsp_unescape(Escaped(payload)), 1, Len(payload)) = payload
  BY <1>1, EscapesBack, SubSeqFull
<1> QED BY <1>4, <1>5 DEF size

\* What is written is what the client then believes, as far as it was accepted.
LEMMA StepWriteMem ==
  ASSUME Inv, ~sim.exited, NEW addr \in Addrs, NEW payload \in Payloads,
         rsp_write_mem_bin(addr, payload)
  PROVE  Inv' /\ RequestsAndRepliesFit' /\ Told
<1> DEFINE n == Len(payload)
           size == HeaderSize + Len(Escaped(payload))
           v == Writes(addr, SubSeq(rsp_unescape(Escaped(payload)), 1, n))
           there == (addr .. addr + n - 1) \cap (Memory \cup MmioSpace)
           k == IF Resets(addr, payload) THEN KnownAfterReset(known) ELSE known
           g == [a \in there |-> payload[a - addr + 1]]
<1>1. /\ sim \in Sim /\ known \in Knowledge /\ True(known, sim) /\ sim.mmio["do_reset"] = 0
      /\ addr \in Nat /\ payload \in Seq(Byte) /\ n \in Nat
      /\ \A i \in 1 .. n : payload[i] \in Byte
  BY DebugAssumption DEF Inv
<1>2. Accepted(size) /\ v = Writes(addr, payload)
  BY Taken
<1>4. /\ sim' = v.sim
      /\ last' = Request("X", addr, n, CASE v.sim.exited -> NoReply [] v.refused -> E01 [] OTHER -> OK)
      /\ known' = IF v.refused \/ Resets(addr, payload)
                  THEN [k EXCEPT !.byte = Forgets(k.byte, there)]
                  ELSE [k EXCEPT !.byte = Learns(k.byte, g)]
  <2>1. Accepted(size)
    BY <1>2
  <2> QED BY <2>1 DEF rsp_write_mem_bin
<1>5. PICK w : Run(w, addr, payload) /\ v = w[n]
  BY <1>1, <1>2, WritesRun DEF Run
<1>6. /\ v \in Writing /\ Calm(v)
      /\ v.addr >= addr /\ v.addr <= addr + n
      /\ ~v.sim.exited /\ ~v.refused => v.addr = addr + n
      /\ \A c \in Memory : c \notin addr .. addr + n - 1 =>
           simDebugRead(v.sim, c) = simDebugRead(sim, c)
  BY <1>1, <1>5, RunAt
<1>7. ~Resets(addr, payload) /\ ~v.sim.exited =>
        /\ v.sim.gpr = sim.gpr /\ v.sim.apsr = sim.apsr
        /\ \A c \in Space :
             simDebugRead(v.sim, c) = IF c \in addr .. v.addr - 1 THEN payload[c - addr + 1]
                                      ELSE simDebugRead(sim, c)
  BY <1>1, <1>5, QuietRun
<1>8. v.sim \in Sim /\ v.sim.mmio["do_reset"] = 0 /\ v.addr \in Nat /\ v.refused \in BOOLEAN
      /\ v.sim.exited \in BOOLEAN
  BY <1>6 DEF Writing, Calm, Sim
<1>9. /\ k \in Knowledge
      /\ \A r \in Regs : k.reg[r] = IF Resets(addr, payload) THEN -1 ELSE known.reg[r]
      /\ \A a \in Space : k.byte[a] = IF Resets(addr, payload) /\ a \in MmioSpace THEN -1
                                      ELSE known.byte[a]
  BY <1>1, ForgottenAtReset
<1>10. \A a \in Space : /\ a \in Nat /\ (a \in there <=> a \in addr .. addr + n - 1)
                        /\ (a \in addr .. addr + n - 1 => a - addr + 1 \in 1 .. n)
  <2>1. SUFFICES ASSUME NEW a \in Space
                 PROVE  /\ a \in Nat /\ (a \in there <=> a \in addr .. addr + n - 1)
                        /\ (a \in addr .. addr + n - 1 => a - addr + 1 \in 1 .. n)
    BY Zenon
  <2>2. a \in Nat
    BY SpaceIsValid
  <2> HIDE DEF n
  <2> QED BY <1>1, <2>2 DEF Space
<1>11. \A a \in there : a \in Space /\ g[a] = payload[a - addr + 1] /\ g[a] \in Int
  <2>1. \A a \in there : a \in Space
    BY DEF Space
  <2>2. \A a \in there : g[a] = payload[a - addr + 1]
    OBVIOUS
  <2>3. \A i \in 1 .. n : payload[i] \in Int
    BY <1>1, Sizes DEF Byte
  <2> HIDE DEF there, n, g
  <2> QED BY <1>10, <2>1, <2>2, <2>3
<1>12. DOMAIN g = there
  OBVIOUS
<1> HIDE DEF v, k, g, there, size
<1>13. RequestsAndRepliesFit' /\ Told
  <2>1. /\ last'.reply.text = << >> /\ last'.reply.kind # "data"
        /\ last'.reply.kind = "none" => v.sim.exited
    BY <1>4 DEF Request, NoReply, E01, OK
  <2> QED BY <1>4, <2>1, EmptyFits DEF RequestsAndRepliesFit, Told
<1>14. CASE v.refused \/ Resets(addr, payload)
  <2>1. /\ known' \in Knowledge /\ known'.reg = k.reg
        /\ \A a \in Space : known'.byte[a] = IF a \in there THEN -1 ELSE k.byte[a]
    <3> DEFINE f == Forgets(k.byte, there)
    <3>1. f \in [Space -> Int] /\ \A a \in Space : f[a] = IF a \in there THEN -1 ELSE k.byte[a]
      <4>1. Forgot(k, there)
        BY <1>9, Forgotten, Zenon
      <4> QED BY <4>1 DEF Forgot
    <3>2. known' = [k EXCEPT !.byte = f]
      BY <1>4, <1>14
    <3> HIDE DEF f
    <3> QED BY <1>9, <3>1, <3>2 DEF Knowledge
  <2>2. ASSUME ~v.sim.exited PROVE True(known', v.sim)
    <3>1. ASSUME NEW r \in Regs PROVE known'.reg[r] \in {-1, Believed(r, Register(v.sim, r))}
      <4>1. CASE Resets(addr, payload)
        BY <1>9, <2>1, <4>1
      <4>2. CASE ~Resets(addr, payload)
        <5>1. Register(v.sim, r) = Register(sim, r)
          BY <1>1, <1>7, <1>8, <2>2, <4>2, RegisterSame
        <5> QED BY <1>1, <1>9, <2>1, <4>2, <5>1 DEF True
      <4> QED BY <4>1, <4>2
    <3>2. ASSUME NEW a \in Space PROVE known'.byte[a] \in {-1, simDebugRead(v.sim, a)}
      <4>1. CASE a \in there
        BY <2>1, <4>1
      <4>2. CASE a \notin there /\ ~Resets(addr, payload)
        <5>1. a \notin addr .. v.addr - 1
          <6>1. a \notin addr .. addr + n - 1 /\ a \in Nat
            BY <1>10, <4>2
          <6> HIDE DEF n
          <6> QED BY <1>1, <1>6, <1>8, <6>1
        <5>2. simDebugRead(v.sim, a) = simDebugRead(sim, a)
          BY <1>7, <2>2, <4>2, <5>1
        <5> QED BY <1>1, <1>9, <2>1, <4>2, <5>2 DEF True
      <4>3. CASE a \notin there /\ Resets(addr, payload) /\ a \in MmioSpace
        BY <1>9, <2>1, <4>3
      <4>4. CASE a \notin there /\ a \notin MmioSpace
        <5>1. a \in Memory /\ a \notin addr .. addr + n - 1
          BY <1>10, <4>4 DEF Space
        <5>2. simDebugRead(v.sim, a) = simDebugRead(sim, a)
          BY <1>6, <5>1
        <5>3. known'.byte[a] = known.byte[a]
          BY <1>9, <2>1, <4>4
        <5> QED BY <1>1, <5>2, <5>3 DEF True
      <4> QED BY <4>1, <4>2, <4>3, <4>4
    <3> QED BY <3>1, <3>2 DEF True
  <2>3. Inv'
    BY <1>4, <1>8, <2>1, <2>2 DEF Inv
  <2> QED BY <1>13, <2>3
<1>15. CASE ~v.refused /\ ~Resets(addr, payload)
  <2>1. /\ known' \in Knowledge /\ known'.reg = k.reg
        /\ \A a \in Space : known'.byte[a] = IF a \in there THEN g[a] ELSE k.byte[a]
    <3> DEFINE f == Learns(k.byte, g)
    <3>1. k.byte \in [Space -> Int]
      BY <1>9 DEF Knowledge
    <3>2. f = [a \in Space |-> IF a \in there THEN g[a] ELSE k.byte[a]]
      BY <1>12, <3>1 DEF Learns
    <3>3. f \in [Space -> Int] /\ \A a \in Space : f[a] = IF a \in there THEN g[a] ELSE k.byte[a]
      BY <1>11, <3>1, <3>2
    <3>4. known' = [k EXCEPT !.byte = f]
      BY <1>4, <1>15
    <3> HIDE DEF f
    <3> QED BY <1>9, <3>3, <3>4 DEF Knowledge
  <2>2. ASSUME ~v.sim.exited PROVE True(known', v.sim)
    <3>1. v.addr = addr + n /\ v.addr - 1 = addr + n - 1
      BY <1>1, <1>6, <1>15, <2>2
    <3>2. ASSUME NEW r \in Regs PROVE known'.reg[r] \in {-1, Believed(r, Register(v.sim, r))}
      <4>1. Register(v.sim, r) = Register(sim, r)
        BY <1>1, <1>7, <1>8, <1>15, <2>2, RegisterSame
      <4> QED BY <1>1, <1>9, <1>15, <2>1, <4>1 DEF True
    <3>3. ASSUME NEW a \in Space PROVE known'.byte[a] \in {-1, simDebugRead(v.sim, a)}
      <4>1. CASE a \in there
        <5>1. simDebugRead(v.sim, a) = payload[a - addr + 1]
          BY <1>7, <1>10, <1>15, <2>2, <3>1, <4>1
        <5> QED BY <1>11, <2>1, <4>1, <5>1
      <4>2. CASE a \notin there
        <5>1. simDebugRead(v.sim, a) = simDebugRead(sim, a)
          BY <1>7, <1>10, <1>15, <2>2, <3>1, <4>2
        <5> QED BY <1>1, <1>9, <1>15, <2>1, <4>2, <5>1 DEF True
      <4> QED BY <4>1, <4>2
    <3> QED BY <3>2, <3>3 DEF True
  <2>3. Inv'
    BY <1>4, <1>8, <2>1, <2>2 DEF Inv
  <2> QED BY <1>13, <2>3
<1> QED BY <1>8, <1>14, <1>15

\* A word stored: everything keeps its type, no reset is left pending, and the
\* memories hold what they held, but for the word.
LEMMA StoreDoes ==
  ASSUME NEW s \in Sim, s.mmio["do_reset"] = 0, NEW a \in Nat, a % WordBytes = 0, NEW w \in Word
  PROVE  /\ simStoreData(s, a, w) \in Sim
         /\ simStoreData(s, a, w).mmio["do_reset"] = 0
         /\ a \notin Space => simStoreData(s, a, w).exited
         /\ a \in Memory => /\ simStoreData(s, a, w).gpr = s.gpr
                            /\ simStoreData(s, a, w).apsr = s.apsr
         /\ \A c \in Memory : (a \in Memory => c \notin a .. a + WordBytes - 1) =>
              simDebugRead(simStoreData(s, a, w), c) = simDebugRead(s, c)
<1>1. CASE a \in MmioSpace
  <2> DEFINE x == Or(Put(s.mmio[Name(a)], 0, 0), w)
             u == [s EXCEPT !.mmio[Name(a)] = x]
  <2>1. a \notin Memory /\ a \in Space /\ Name(a) \in MmioNames
    BY <1>1, AlignedIs, NameIs DEF Space
  <2>2. simStoreData(s, a, w) = sim_command(u)
    BY <1>1, <2>1 DEF simStoreData
  <2>3. x \in Word
    <3>1. s.mmio[Name(a)] \in Word
      BY <2>1 DEF Sim
    <3>2. 0 \in 0 .. WordBytes - 1 /\ 0 \in Byte
      BY Sizes DEF Byte
    <3>3. Put(s.mmio[Name(a)], 0, 0) \in Word
      BY <3>1, <3>2, PutByte
    <3> QED BY <3>3, OrType
  <2> HIDE DEF x
  <2>4. u \in Sim /\ u.word = s.word
    BY <2>1, <2>3 DEF Sim
  <2> HIDE DEF u
  <2>5. sim_command(u) \in Sim /\ sim_command(u).word = s.word /\ sim_command(u).mmio["do_reset"] = 0
    BY <2>4, CommandDoes
  <2>6. ASSUME NEW c \in Memory PROVE simDebugRead(sim_command(u), c) = simDebugRead(s, c)
    <3>1. c \notin MmioSpace /\ c \in Space
      BY AlignedIs DEF Space
    <3> QED BY <2>5, <3>1, ReadSame
  <2> QED BY <2>1, <2>2, <2>5, <2>6
<1>2. CASE a \notin MmioSpace /\ a \in Memory
  <2> DEFINE t == [s EXCEPT !.word[a] = w]
  <2>1. simStoreData(s, a, w) = t /\ a \in Words /\ a \in Space
    BY <1>2 DEF simStoreData, Words, Space
  <2>2. /\ t \in Sim /\ t.mmio = s.mmio /\ t.gpr = s.gpr /\ t.apsr = s.apsr
        /\ \A n \in Words : n # a => t.word[n] = s.word[n]
    BY <2>1 DEF Sim
  <2> HIDE DEF t
  <2>3. ASSUME NEW c \in Memory, c \notin a .. a + WordBytes - 1
        PROVE  simDebugRead(t, c) = simDebugRead(s, c)
    <3>1. /\ c \notin MmioSpace /\ Aligned(c) \in Words /\ c = Aligned(c) + (c % WordBytes)
          /\ c % WordBytes \in 0 .. WordBytes - 1 /\ c \in Nat
      BY AlignedIs
    <3>2. Aligned(c) # a
      <4> DEFINE r == c % WordBytes
      <4>1. r \in 0 .. WordBytes - 1 /\ c = Aligned(c) + r
        BY <3>1
      <4> HIDE DEF r
      <4>2. SUFFICES ASSUME Aligned(c) = a PROVE FALSE
        OBVIOUS
      <4> QED BY <2>3, <3>1, <4>1, <4>2, Sizes
    <3> QED BY <2>2, <3>1, <3>2 DEF simDebugRead
  <2> QED BY <1>2, <2>1, <2>2, <2>3
<1>3. CASE a \notin MmioSpace /\ a \notin Memory
  <2> DEFINE t == [s EXCEPT !.exited = TRUE]
  <2>1. simStoreData(s, a, w) = t
    BY <1>3 DEF simStoreData
  <2>2. t \in Sim /\ t.mmio = s.mmio /\ t.word = s.word /\ t.exited
    BY DEF Sim
  <2> HIDE DEF t
  <2>3. \A c \in Memory : simDebugRead(t, c) = simDebugRead(s, c)
    BY <2>2 DEF simDebugRead
  <2> QED BY <1>3, <2>1, <2>2, <2>3
<1> QED BY <1>1, <1>2, <1>3

\* The instruction over: the PC and the cycles have gone on.
LEMMA AdvanceDoes ==
  ASSUME NEW s \in Sim
  PROVE  /\ Advance(s) \in Sim /\ Advance(s).word = s.word
         /\ Advance(s).mmio["do_reset"] = s.mmio["do_reset"]
         /\ Advance(s).apsr = s.apsr /\ Advance(s).exited = s.exited
         /\ \A r \in 0 .. PC_REGNUM : r # PC_REGNUM => Advance(s).gpr[r] = s.gpr[r]
<1> DEFINE p == (s.gpr[PC_REGNUM] + 2) % WordMod
           c == (s.mmio["cyclesSinceCP"] + TIMING_MEM) % WordMod
           t == [s EXCEPT !.gpr[PC_REGNUM] = p, !.mmio["cyclesSinceCP"] = c]
<1>1. PC_REGNUM \in 0 .. PC_REGNUM /\ "cyclesSinceCP" \in MmioNames /\ TIMING_MEM \in Int
  BY Layout, Names, DebugAssumption
<1>2. s.gpr[PC_REGNUM] \in Word /\ s.mmio["cyclesSinceCP"] \in Word
  BY <1>1 DEF Sim
<1>3. s.gpr[PC_REGNUM] + 2 \in Int /\ s.mmio["cyclesSinceCP"] + TIMING_MEM \in Int
  BY <1>1, <1>2, WordSmall
<1>4. p \in Word /\ c \in Word
  BY <1>3, WordRemainder
<1>5. Advance(s) = t
  BY DEF Advance
<1> HIDE DEF p, c
<1> DEFINE g == [s.gpr EXCEPT ![PC_REGNUM] = p]
           m == [s.mmio EXCEPT !["cyclesSinceCP"] = c]
<1>6. s.gpr \in [0 .. PC_REGNUM -> Word] /\ s.mmio \in [MmioNames -> Word]
  BY DEF Sim
<1>7. /\ g \in [0 .. PC_REGNUM -> Word] /\ m \in [MmioNames -> Word]
      /\ m["do_reset"] = s.mmio["do_reset"]
      /\ \A r \in 0 .. PC_REGNUM : r # PC_REGNUM => g[r] = s.gpr[r]
  BY <1>1, <1>4, <1>6, Names
<1>8. t = [s EXCEPT !.gpr = g, !.mmio = m]
  OBVIOUS
<1> HIDE DEF g, m, t
<1>9. t \in Sim /\ t.word = s.word /\ t.apsr = s.apsr /\ t.exited = s.exited /\ t.gpr = g /\ t.mmio = m
  BY <1>7, <1>8 DEF Sim
<1> QED BY <1>5, <1>7, <1>9

\* A step makes the client forget what the instruction and a reset may change.
LEMMA StepStep ==
  ASSUME Inv, ~sim.exited, NEW a \in Addrs, a % WordBytes = 0, rsp_step(a)
  PROVE  Inv' /\ RequestsAndRepliesFit' /\ Told
<1> DEFINE s == simStoreData(sim, a, sim.gpr[0])
           t == IF s.exited THEN s ELSE Advance(s)
<1>1. /\ sim' = t
      /\ last' = Request("s", a, WordBytes, IF s.exited THEN NoReply ELSE S05)
      /\ known' = IF a \in Memory
                  THEN [reg |-> Forgets(known.reg, {PC_REGNUM}),
                        byte |-> Forgets(known.byte, MmioSpace \cup a .. a + WordBytes - 1)]
                  ELSE KnownAfterReset(known)
  BY DEF rsp_step
<1>2. /\ sim \in Sim /\ known \in Knowledge /\ True(known, sim) /\ sim.mmio["do_reset"] = 0
      /\ a \in Nat
  BY DebugAssumption DEF Inv
<1>3. sim.gpr[0] \in Word
  <2>1. 0 \in 0 .. PC_REGNUM
    BY Layout
  <2> QED BY <1>2, <2>1 DEF Sim
<1>4. /\ s \in Sim /\ s.mmio["do_reset"] = 0
      /\ a \notin Space => s.exited
      /\ a \in Memory => s.gpr = sim.gpr /\ s.apsr = sim.apsr
      /\ \A c \in Memory : (a \in Memory => c \notin a .. a + WordBytes - 1) =>
           simDebugRead(s, c) = simDebugRead(sim, c)
  BY <1>2, <1>3, StoreDoes
<1>5. s.exited \in BOOLEAN
  BY <1>4 DEF Sim
<1> HIDE DEF s
<1>6. /\ t \in Sim /\ t.mmio["do_reset"] = 0 /\ t.word = s.word /\ t.exited = s.exited
      /\ t.apsr = s.apsr /\ \A r \in 0 .. PC_REGNUM : r # PC_REGNUM => t.gpr[r] = s.gpr[r]
  BY <1>4, <1>5, AdvanceDoes
<1> HIDE DEF t
<1>7. RequestsAndRepliesFit' /\ Told
  <2>1. /\ last'.reply.text = << >> /\ last'.reply.kind # "data"
        /\ last'.reply.kind = "none" => s.exited
    BY <1>1, <1>5 DEF Request, NoReply, S05
  <2> QED BY <1>1, <1>6, <2>1, EmptyFits DEF RequestsAndRepliesFit, Told
<1>8. ASSUME NEW c \in Memory, a \in Memory => c \notin a .. a + WordBytes - 1
      PROVE  simDebugRead(t, c) = simDebugRead(sim, c)
  <2>1. c \in Space /\ c \notin MmioSpace
    BY AlignedIs DEF Space
  <2>2. simDebugRead(t, c) = simDebugRead(s, c)
    BY <1>4, <1>6, <2>1, ReadSame
  <2> QED BY <1>4, <1>8, <2>2
<1>9. CASE a \in Memory
  <2> DEFINE places == MmioSpace \cup a .. a + WordBytes - 1
             f == Forgets(known.reg, {PC_REGNUM})
             g == Forgets(known.byte, places)
  <2>1. /\ f \in [Regs -> Int] /\ \A r \in Regs : f[r] = IF r \in {PC_REGNUM} THEN -1 ELSE known.reg[r]
        /\ g \in [Space -> Int] /\ \A c \in Space : g[c] = IF c \in places THEN -1 ELSE known.byte[c]
    <3> HIDE DEF places
    <3>1. Forgot(known, {PC_REGNUM}) /\ Forgot(known, places)
      BY <1>2, Forgotten, Zenon
    <3> QED BY <3>1 DEF Forgot
  <2>2. known' = [reg |-> f, byte |-> g]
    BY <1>1, <1>9
  <2>3. \A c \in Space : c \notin places => c \in Memory /\ c \notin a .. a + WordBytes - 1
    BY DEF Space
  <2> HIDE DEF f, g, places
  <2>4. known' \in Knowledge /\ known'.reg = f /\ known'.byte = g
    BY <2>1, <2>2 DEF Knowledge
  <2>5. ASSUME NEW q \in Regs PROVE known'.reg[q] \in {-1, Believed(q, Register(t, q))}
    <3>1. CASE q = PC_REGNUM
      BY <2>1, <2>4, <3>1
    <3>2. CASE q # PC_REGNUM
      <4>1. Register(t, q) = Register(sim, q)
        <5>1. CASE q < MAX_GPRS
          <6>1. q \in 0 .. PC_REGNUM
            BY Layout, <5>1 DEF Regs
          <6> QED BY <1>4, <1>6, <1>9, <3>2, <5>1, <6>1 DEF Register
        <5>2. CASE ~(q < MAX_GPRS)
          BY <1>4, <1>6, <1>9, <3>2, <5>2 DEF Register
        <5> QED BY <5>1, <5>2
      <4> QED BY <1>2, <2>1, <2>4, <3>2, <4>1 DEF True
    <3> QED BY <3>1, <3>2
  <2>6. ASSUME NEW c \in Space PROVE known'.byte[c] \in {-1, simDebugRead(t, c)}
    <3>1. CASE c \in places
      BY <2>1, <2>4, <3>1
    <3>2. CASE c \notin places
      <4>1. simDebugRead(t, c) = simDebugRead(sim, c)
        BY <1>8, <2>3, <3>2
      <4> QED BY <1>2, <2>1, <2>4, <3>2, <4>1 DEF True
    <3> QED BY <3>1, <3>2
  <2>7. True(known', t)
    BY <2>5, <2>6 DEF True
  <2>8. Inv'
    BY <1>1, <1>6, <2>4, <2>7 DEF Inv
  <2> QED BY <1>7, <2>8
<1>10. CASE a \notin Memory
  <2>1. known' = KnownAfterReset(known)
    BY <1>1, <1>10
  <2>2. /\ known' \in Knowledge
        /\ \A r \in Regs : known'.reg[r] = -1
        /\ \A c \in Space : known'.byte[c] = IF c \in MmioSpace THEN -1 ELSE known.byte[c]
    BY <1>2, <2>1, ForgottenAtReset
  <2>3. ASSUME NEW c \in Space PROVE known'.byte[c] \in {-1, simDebugRead(t, c)}
    <3>1. CASE c \in MmioSpace
      BY <2>2, <3>1
    <3>2. CASE c \notin MmioSpace
      <4>1. c \in Memory
        BY <3>2 DEF Space
      <4>2. simDebugRead(t, c) = simDebugRead(sim, c)
        BY <1>8, <1>10, <4>1
      <4> QED BY <1>2, <2>2, <3>2, <4>2 DEF True
    <3> QED BY <3>1, <3>2
  <2>4. True(known', t)
    BY <2>2, <2>3 DEF True
  <2>5. Inv'
    BY <1>1, <1>6, <2>2, <2>4 DEF Inv
  <2> QED BY <1>7, <2>5
<1> QED BY <1>9, <1>10

-----------------------------------------------------------------------------
(***************************************************************************)
(* The specification.                                                      *)
(***************************************************************************)
\* The registers, the words and the flags of the start.
LEMMA InitInv == Init => Inv /\ RequestsAndRepliesFit
<1> SUFFICES ASSUME Init PROVE Inv /\ RequestsAndRepliesFit
  OBVIOUS
<1>1. /\ sim = [gpr  |-> [r \in 0 .. PC_REGNUM |-> IF r = PC_REGNUM THEN 7 ELSE r],
                apsr |-> 1,
                word |-> [a \in Words |-> IF a = 0 THEN RAM_START ELSE a + 1],
                mmio |-> [n \in MmioNames |-> IF n = "do_reset" THEN 0 ELSE 3],
                exited |-> FALSE]
      /\ last = Request("start", 0, 0, NoReply)
      /\ known = [reg |-> [r \in Regs |-> -1], byte |-> [a \in Space |-> -1]]
  BY DEF Init, Space
<1>2. WordMod \in Nat /\ WordMod >= 16 /\ MAX_GPRS < WordMod /\ RAM_START + RAM_SIZE < WordMod
  BY WordModType, WordsEven, Layout, DebugAssumption
<1>3. \A w \in Nat : w < WordMod => w \in Word
  BY <1>2 DEF Word
<1>4. [r \in 0 .. PC_REGNUM |-> IF r = PC_REGNUM THEN 7 ELSE r] \in [0 .. PC_REGNUM -> Word]
  <2>1. \A r \in 0 .. PC_REGNUM : (IF r = PC_REGNUM THEN 7 ELSE r) \in Word
    BY <1>2, <1>3, Layout
  <2> QED BY <2>1
<1>5. [a \in Words |-> IF a = 0 THEN RAM_START ELSE a + 1] \in [Words -> Word]
  <2>1. ASSUME NEW a \in Words PROVE (IF a = 0 THEN RAM_START ELSE a + 1) \in Word
    <3>1. RAM_START \in Word
      BY <1>2, <1>3, Layout
    <3>2. a \in Nat /\ a + 1 <= RAM_START + RAM_SIZE
      BY Layout DEF Words, Memory
    <3>3. a + 1 \in Word
      BY <1>2, <1>3, <3>2, Layout
    <3> QED BY <3>1, <3>3
  <2> QED BY <2>1
<1>6. [n \in MmioNames |-> IF n = "do_reset" THEN 0 ELSE 3] \in [MmioNames -> Word]
  BY <1>2, <1>3
<1>7. sim \in Sim /\ sim.mmio["do_reset"] = 0
  <2>1. 1 \in Word
    BY <1>2, <1>3
  <2>2. "do_reset" \in MmioNames
    BY Names
  <2> QED BY <1>1, <1>4, <1>5, <1>6, <2>1, <2>2 DEF Sim
<1>8. known \in Knowledge /\ True(known, sim)
  BY <1>1 DEF Knowledge, True
<1>9. RequestsAndRepliesFit
  BY <1>1, EmptyFits DEF RequestsAndRepliesFit, Request, NoReply
<1> QED BY <1>7, <1>8, <1>9 DEF Inv

\* Every request.
LEMMA NextInv == Inv /\ Next => Inv' /\ RequestsAndRepliesFit' /\ Told
<1> SUFFICES ASSUME Inv, Next PROVE Inv' /\ RequestsAndRepliesFit' /\ Told
  OBVIOUS
<1>1. ~sim.exited
  BY DEF Next
<1>2. ASSUME NEW r, rsp_read_reg(r) PROVE Inv' /\ RequestsAndRepliesFit' /\ Told
  BY <1>1, <1>2, StepReadReg
<1>3. ASSUME NEW r, NEW v \in Values, rsp_write_reg(r, v)
      PROVE  Inv' /\ RequestsAndRepliesFit' /\ Told
  BY <1>1, <1>3, StepWriteReg
<1>4. ASSUME rsp_read_all_regs PROVE Inv' /\ RequestsAndRepliesFit' /\ Told
  BY <1>1, <1>4, StepReadAll
<1>5. ASSUME NEW a \in Addrs, NEW len \in Lengths, rsp_read_mem(a, len)
      PROVE  Inv' /\ RequestsAndRepliesFit' /\ Told
  BY <1>1, <1>5, StepReadMem
<1>6. ASSUME NEW a \in Addrs, NEW p \in Payloads, rsp_write_mem_bin(a, p)
      PROVE  Inv' /\ RequestsAndRepliesFit' /\ Told
  BY <1>1, <1>6, StepWriteMem
<1>7. ASSUME NEW a \in Addrs, a % WordBytes = 0, rsp_step(a)
      PROVE  Inv' /\ RequestsAndRepliesFit' /\ Told
  BY <1>1, <1>7, StepStep
<1> QED BY <1>2, <1>3, <1>4, <1>5, <1>6, <1>7 DEF Next

\* A step that changes nothing.
LEMMA StutterInv == Inv /\ RequestsAndRepliesFit /\ UNCHANGED vars => Inv' /\ RequestsAndRepliesFit'
<1> SUFFICES ASSUME Inv, RequestsAndRepliesFit, sim' = sim, known' = known, last' = last
             PROVE  Inv' /\ RequestsAndRepliesFit'
  BY DEF vars
<1> QED BY DEF Inv, RequestsAndRepliesFit

\* The invariant: what the simulator holds is typed, no reset is pending between
\* two requests, and what the client believes is true.
THEOREM Invariant == Spec => [](Inv /\ RequestsAndRepliesFit)
<1>1. Init => Inv /\ RequestsAndRepliesFit
  BY InitInv
<1>2. Inv /\ RequestsAndRepliesFit /\ [Next]_vars => (Inv /\ RequestsAndRepliesFit)'
  BY NextInv, StutterInv
<1> QED BY <1>1, <1>2, PTL DEF Spec

\* Every register, word and variable of the simulator stays a word, and no
\* request leaves a reset pending (cpu_reset, sim_command, simDebugWrite and
\* simStoreData).
THEOREM StaysTyped == Spec => []TypeOK
<1>1. Inv => TypeOK
  <2> SUFFICES ASSUME Inv PROVE TypeOK
    OBVIOUS
  <2>1. /\ sim \in Sim /\ sim.mmio["do_reset"] = 0
    BY DEF Inv
  <2>2. /\ sim.gpr \in [0 .. PC_REGNUM -> Word] /\ sim.word \in [Words -> Word]
        /\ sim.mmio \in [MmioNames -> Word] /\ sim.apsr \in Word /\ sim.exited \in BOOLEAN
    BY <2>1 DEF Sim
  <2> QED BY <2>1, <2>2 DEF TypeOK
<1> QED BY <1>1, Invariant, PTL

\* Every request is answered unless it ends the simulation, and every reply fits
\* its buffer, for every size of the registers, the memories and the requests.
THEOREM AnswersFit == Spec => []RequestsAndRepliesFit
BY Invariant, PTL

\* What the client reads is what it last wrote or read there, for every address,
\* length, register, value and payload (the conversions of rsp-server.c and the
\* debugger's accesses of sim_support.c together).
THEOREM ReadsTheTruth == Spec => ReadsWhatWasWritten
<1>1. Inv /\ [Next]_vars => [Told]_vars
  BY NextInv
<1> QED BY <1>1, Invariant, PTL DEF Spec, ReadsWhatWasWritten, Told

-----------------------------------------------------------------------------
(***************************************************************************)
(* A reset asked for by a request X.                                       *)
(***************************************************************************)
\* What a byte written from do_reset on does: it asks for no reset and leaves
\* what a reset changes, or the reset is done.
Leaves(s, t)  == /\ t.mmio["wastedCycles"] = s.mmio["wastedCycles"]
                 /\ t.mmio["cyclesSinceCP"] = s.mmio["cyclesSinceCP"]
                 /\ t.gpr = s.gpr
Charges(s, t) == /\ t.mmio["wastedCycles"]
                      = (s.mmio["wastedCycles"] + s.mmio["cyclesSinceCP"]) % WordMod
                 /\ t.mmio["cyclesSinceCP"] = 0
                 /\ get_pc(t) = s.word[WordBytes]

\* One byte of a request X, at do_reset or behind it, does one of the two.
LEMMA ChargeStep ==
  ASSUME NEW s \in Sim, s.mmio["do_reset"] = 0, NEW a \in MmioSpace, NEW b \in Byte,
         Name(a) \in {"do_reset", "wdt_val"}
  PROVE  /\ simDebugWrite(s, a, b).word = s.word
         /\ \/ Leaves(s, simDebugWrite(s, a, b)) /\ Quiet(a, b)
            \/ Charges(s, simDebugWrite(s, a, b))
<1> DEFINE u == [s EXCEPT !.mmio[Name(a)] = Put(@, a % WordBytes, b)]
<1>1. a \notin Memory
  BY AlignedIs
<1>2. simDebugWrite(s, a, b) = sim_command(u)
  BY <1>1 DEF simDebugWrite
<1>3. /\ u \in Sim /\ u.mmio[Name(a)] = Put(s.mmio[Name(a)], a % WordBytes, b)
      /\ \A n \in MmioNames : n # Name(a) => u.mmio[n] = s.mmio[n]
  BY MmioPut
<1>4. u.word = s.word /\ u.gpr = s.gpr
  BY DEF Sim
<1> HIDE DEF u
<1>5. /\ u.mmio["wastedCycles"] = s.mmio["wastedCycles"]
      /\ u.mmio["cyclesSinceCP"] = s.mmio["cyclesSinceCP"]
  BY <1>3, Names
<1>6. sim_command(u).word = s.word
  BY <1>3, <1>4, CommandDoes
<1>7. CASE u.mmio["do_reset"] = 0
  <2>1. sim_command(u) = u
    BY <1>3, <1>7, CommandDoes
  <2>2. Leaves(s, u)
    BY <1>4, <1>5 DEF Leaves
  <2>3. ASSUME Name(a) = "do_reset" PROVE b = 0
    <3> DEFINE k == a % WordBytes
    <3>1. k \in 0 .. WordBytes - 1
      BY NameIs
    <3>2. Put(0, k, b) = 0
      BY <1>3, <1>7, <2>3
    <3> HIDE DEF k
    <3>3. 0 \in Word /\ 0 \in Byte
      BY WordModType, Sizes DEF Word, Byte
    <3>4. Lane(Put(0, k, b), k) = b /\ Lane(Put(0, k, 0), k) = 0
      BY <3>1, <3>3, PutByte
    <3>5. Put(0, k, 0) = 0
      BY <3>1, PutZero
    <3> QED BY <3>2, <3>4, <3>5
  <2>4. Quiet(a, b)
    BY <2>3 DEF Quiet
  <2> QED BY <1>2, <1>6, <2>1, <2>2, <2>4
<1>8. CASE u.mmio["do_reset"] # 0
  <2> DEFINE t == sim_command(u)
  <2>1. /\ t.mmio["wastedCycles"] = (u.mmio["wastedCycles"] + u.mmio["cyclesSinceCP"]) % WordMod
        /\ t.mmio["cyclesSinceCP"] = 0
        /\ t.gpr[PC_REGNUM] = (u.word[WordBytes] + 4) % WordMod
    BY <1>3, <1>8, CommandDoes
  <2> HIDE DEF t
  <2>2. s.word[WordBytes] \in Word
    BY VectorWords DEF Sim
  <2>3. get_pc(t) = s.word[WordBytes]
    BY <1>4, <2>1, <2>2, PcAfterReset DEF get_pc
  <2>4. Charges(s, t)
    BY <1>5, <2>1, <2>3 DEF Charges
  <2> QED BY <1>2, <1>6, <2>4 DEF t
<1> QED BY <1>7, <1>8

\* From do_reset on there are do_reset and wdt_val.
LEMMA NamesOn ==
  ASSUME NEW a \in MmioSpace, Name(a) = "do_reset", NEW c \in MmioSpace, c >= a
  PROVE  Name(c) \in {"do_reset", "wdt_val"}
<1>1. PICK i \in 0 .. 4 : /\ Name(a) = mmio[i + 1]
                          /\ a = MEMMAPIO_START + WordBytes * i + (a % WordBytes)
                          /\ a % WordBytes \in 0 .. WordBytes - 1
  BY NameIs
<1>2. PICK j \in 0 .. 4 : /\ Name(c) = mmio[j + 1]
                          /\ c = MEMMAPIO_START + WordBytes * j + (c % WordBytes)
                          /\ c % WordBytes \in 0 .. WordBytes - 1
  BY NameIs
<1>3. i = 3
  <2> DEFINE k == i + 1
  <2>1. k \in {1, 2, 3, 4, 5} /\ mmio[k] = "do_reset"
    BY <1>1
  <2> HIDE DEF k
  <2>2. k = 4
    BY <2>1, Names
  <2> QED BY <2>2 DEF k
<1>4. j \in {3, 4}
  <2> DEFINE r == a % WordBytes
             q == c % WordBytes
  <2>1. /\ a = MEMMAPIO_START + WordBytes * 3 + r /\ c = MEMMAPIO_START + WordBytes * j + q
        /\ r \in 0 .. WordBytes - 1 /\ q \in 0 .. WordBytes - 1
    BY <1>1, <1>2, <1>3
  <2>2. WordBytes \in {2, 4} /\ MEMMAPIO_START \in Nat
    BY Layout
  <2> HIDE DEF r, q
  <2>3. CASE WordBytes = 2
    BY <2>1, <2>2, <2>3
  <2>4. CASE WordBytes = 4
    BY <2>1, <2>2, <2>4
  <2> QED BY <2>2, <2>3, <2>4
<1>5. mmio[4] = "do_reset" /\ mmio[5] = "wdt_val"
  BY Names
<1>6. CASE j = 3
  BY <1>2, <1>5, <1>6
<1>7. CASE j = 4
  BY <1>2, <1>5, <1>7
<1> QED BY <1>4, <1>6, <1>7

\* A run from do_reset on, as long as it has not ended the simulation: the reset
\* is done and charged, once, or nothing has asked for it.
LEMMA ChargedRun ==
  ASSUME sim \in Sim, sim.mmio["do_reset"] = 0,
         NEW a \in MmioSpace, Name(a) = "do_reset", NEW p \in Seq(Byte), NEW w, Run(w, a, p)
  PROVE  \A k \in 0 .. Len(p) : ~w[k].sim.exited =>
           /\ w[k].sim.word = sim.word
           /\ \/ Charges(sim, w[k].sim)
              \/ /\ Leaves(sim, w[k].sim)
                 /\ \A j \in 1 .. Len(p) : a + j - 1 < w[k].addr => Quiet(a + j - 1, p[j])
<1> DEFINE n == Len(p)
           Q(x) == \A j \in 1 .. n : a + j - 1 < x => Quiet(a + j - 1, p[j])
           P(k) == ~w[k].sim.exited =>
                     /\ w[k].sim.word = sim.word
                     /\ \/ Charges(sim, w[k].sim)
                        \/ Leaves(sim, w[k].sim) /\ Q(w[k].addr)
           T == {k \in 0 .. n : P(k)}
<1>1. /\ n \in Nat /\ \A k \in 1 .. n : p[k] \in Byte /\ k - 1 \in 0 .. n /\ k \in 0 .. n
      /\ a \in Nat /\ a \in Space
  BY SpaceIsValid DEF Space
<1>2. /\ w[0] = [sim |-> sim, addr |-> a, refused |-> FALSE]
      /\ \A k \in 1 .. n : w[k] = WriteByte(w[k - 1], p[k])
  BY DEF Run
<1>3. \A k \in 0 .. n :
        /\ w[k] \in Writing /\ Calm(w[k]) /\ w[k].addr >= a
        /\ ~w[k].sim.exited /\ ~w[k].refused => w[k].addr = a + k
  BY <1>1, RunAt
<1> HIDE DEF n
<1>4. 0 \in T
  <2>1. 0 \in 0 .. n /\ w[0].sim = sim /\ w[0].addr = a
    BY <1>1, <1>2
  <2>2. Q(a)
    BY <1>1
  <2>3. Leaves(sim, sim)
    BY DEF Leaves
  <2> HIDE DEF Q
  <2>4. P(0)
    BY <2>1, <2>2, <2>3
  <2> HIDE DEF P
  <2> QED BY <2>1, <2>4
<1>5. ASSUME NEW k \in 1 .. n, k - 1 \in T PROVE k \in T
  <2> DEFINE u == w[k - 1]
             v == w[k]
             b == p[k]
  <2>1. /\ v = WriteByte(u, b) /\ b \in Byte /\ k \in 0 .. n
        /\ u \in Writing /\ Calm(u) /\ k - 1 \in 0 .. n /\ k \in Nat
        /\ u.addr >= a
        /\ ~u.sim.exited /\ ~u.refused => u.addr = a + (k - 1)
    BY <1>1, <1>2, <1>3
  <2>2. P(k - 1)
    BY <1>5
  <2>3. /\ u.sim \in Sim /\ u.addr \in Nat /\ u.sim.mmio["do_reset"] = 0
        /\ u.refused \in BOOLEAN /\ u.sim.exited \in BOOLEAN
    BY <2>1 DEF Writing, Calm, Sim
  <2> HIDE DEF Q
  <2>4. SUFFICES ASSUME ~v.sim.exited
                 PROVE  /\ v.sim.word = sim.word
                        /\ Charges(sim, v.sim) \/ (Leaves(sim, v.sim) /\ Q(v.addr))
    <3>1. P(k)
      BY <2>4
    <3> HIDE DEF P
    <3> QED BY <2>1, <3>1
  <2>5. ~u.sim.exited =>
          /\ u.sim.word = sim.word
          /\ Charges(sim, u.sim) \/ (Leaves(sim, u.sim) /\ Q(u.addr))
    BY <2>2
  <2> HIDE DEF u, v, P
  <2>6. CASE u.refused \/ u.sim.exited
    <3>1. v = u
      BY <2>1, <2>6 DEF WriteByte
    <3> QED BY <2>4, <2>5, <3>1
  <2>7. CASE ~u.refused /\ ~u.sim.exited /\ ~simValidMem(u.addr)
    <3>1. v = [u EXCEPT !.refused = TRUE]
      BY <2>1, <2>7 DEF WriteByte
    <3>2. v.addr = u.addr /\ v.sim = u.sim
      BY <2>1, <3>1 DEF Writing
    <3> QED BY <2>5, <2>7, <3>2
  <2>8. CASE ~u.refused /\ ~u.sim.exited /\ simValidMem(u.addr)
    <3> DEFINE t == simDebugWrite(u.sim, u.addr, b)
               x == u.addr + 1
               c == u.addr
    <3>1. v = [u EXCEPT !.sim = t, !.addr = x]
      BY <2>1, <2>8 DEF WriteByte
    <3>2. c = a + k - 1 /\ c \in Nat /\ x = c + 1 /\ c >= a /\ x \in Nat
      BY <2>1, <2>3, <2>8
    <3>3. v.sim = t /\ v.addr = x
      <4> HIDE DEF t, x
      <4> QED BY <2>1, <3>1 DEF Writing
    <3>4. c \in MmioSpace
      <4>1. c \notin Memory
        <5> HIDE DEF c
        <5>1. a >= MEMMAPIO_START
          BY Layout DEF MmioSpace
        <5> QED BY <1>1, <3>2, <5>1, Layout DEF Memory
      <4>2. SUFFICES ASSUME c \notin MmioSpace PROVE FALSE
        OBVIOUS
      <4>3. t = [u.sim EXCEPT !.exited = TRUE]
        BY <4>1, <4>2 DEF simDebugWrite
      <4>4. t.exited = TRUE
        BY <2>3, <4>3 DEF Sim
      <4> QED BY <2>4, <3>3, <4>4
    <3>5. Name(c) \in {"do_reset", "wdt_val"}
      BY <3>2, <3>4, NamesOn
    <3>6. /\ t.word = u.sim.word
          /\ (Leaves(u.sim, t) /\ Quiet(c, b)) \/ Charges(u.sim, t)
      BY <2>1, <2>3, <3>4, <3>5, ChargeStep
    <3> HIDE DEF t, x, c
    <3>7. t.word = sim.word
      BY <2>5, <2>8, <3>6
    <3>8. CASE Leaves(u.sim, t) /\ Quiet(c, b)
      <4>1. CASE Charges(sim, u.sim)
        <5>1. Charges(sim, t)
          BY <3>8, <4>1 DEF Leaves, Charges, get_pc
        <5> QED BY <3>3, <3>7, <5>1
      <4>2. CASE Leaves(sim, u.sim) /\ Q(u.addr)
        <5>1. Leaves(sim, t)
          BY <3>8, <4>2 DEF Leaves
        <5>2. Q(x)
          <6>1. SUFFICES ASSUME NEW j \in 1 .. n, a + j - 1 < x PROVE Quiet(a + j - 1, p[j])
            BY DEF Q
          <6>2. CASE a + j - 1 < c
            BY <4>2, <6>2 DEF Q, c
          <6>3. CASE ~(a + j - 1 < c)
            <7>1. j = k /\ a + j - 1 = c
              BY <1>1, <2>1, <3>2, <6>1, <6>3
            <7> QED BY <3>8, <7>1 DEF b
          <6> QED BY <6>2, <6>3
        <5> QED BY <3>3, <3>7, <5>1, <5>2
      <4> QED BY <2>5, <2>8, <4>1, <4>2
    <3>9. CASE Charges(u.sim, t)
      <4>1. CASE Charges(sim, u.sim)
        <5>1. "wastedCycles" \in MmioNames /\ "cyclesSinceCP" \in MmioNames
          BY Names
        <5>2. u.sim.mmio["wastedCycles"] \in Word
          BY <2>3, <5>1 DEF Sim
        <5>3. (u.sim.mmio["wastedCycles"] + 0) % WordMod = u.sim.mmio["wastedCycles"]
          BY <5>2, WordSmall
        <5>4. Charges(sim, t)
          BY <2>5, <2>8, <3>9, <4>1, <5>3 DEF Charges
        <5> QED BY <3>3, <3>7, <5>4
      <4>2. CASE Leaves(sim, u.sim) /\ Q(u.addr)
        <5>1. Charges(sim, t)
          BY <2>5, <2>8, <3>9, <4>2 DEF Leaves, Charges
        <5> QED BY <3>3, <3>7, <5>1
      <4> QED BY <2>5, <2>8, <4>1, <4>2
    <3> QED BY <3>6, <3>8, <3>9
  <2> QED BY <2>3, <2>6, <2>7, <2>8
<1>6. T \in SUBSET (0 .. n)
  OBVIOUS
<1> HIDE DEF T
<1>7. T = 0 .. n
  BY <1>1, <1>4, <1>5, <1>6, UpTo
<1> QED BY <1>7 DEF T, n

\* A request X that asks for a reset: however many bytes of do_reset it makes
\* other than 0, the reset is done and charged once.
LEMMA ResetOnce ==
  ASSUME Inv, NEW a \in Addrs \cap MmioSpace, NEW p \in Payloads,
         Name(a) = "do_reset", Resets(a, p), rsp_write_mem_bin(a, p), ~sim'.exited
  PROVE  Charges(sim, sim')
<1> DEFINE n == Len(p)
<1>1. /\ sim \in Sim /\ sim.mmio["do_reset"] = 0 /\ p \in Seq(Byte) /\ n \in Nat
      /\ a \in Addrs /\ a \in MmioSpace /\ a \in Nat /\ DOMAIN p = 1 .. n
  BY DebugAssumption DEF Inv
<1>2. PICK w : Run(w, a, p) /\ sim' = w[n].sim
  <2> DEFINE v == Writes(a, SubSeq(rsp_unescape(Escaped(p)), 1, Len(p)))
  <2>1. Accepted(HeaderSize + Len(Escaped(p))) /\ v = Writes(a, p)
    BY <1>1, Taken
  <2>2. sim' = v.sim
    BY <2>1 DEF rsp_write_mem_bin
  <2> HIDE DEF v
  <2>3. PICK w : Run(w, a, p) /\ Writes(a, p) = w[n]
    BY <1>1, WritesRun DEF Run
  <2> QED BY <2>1, <2>2, <2>3
<1> DEFINE v == w[n]
<1>3. /\ v \in Writing /\ v.addr >= a
      /\ v.refused => ~simValidMem(v.addr)
      /\ ~v.sim.exited /\ ~v.refused => v.addr = a + n
  BY <1>1, <1>2, RunAt
<1>4. \/ Charges(sim, v.sim)
      \/ \A j \in 1 .. n : a + j - 1 < v.addr => Quiet(a + j - 1, p[j])
  BY <1>1, <1>2, ChargedRun
<1>5. v.addr \in Nat /\ v.refused \in BOOLEAN /\ ~v.sim.exited /\ sim' = v.sim
  BY <1>2, <1>3 DEF Writing
<1>6. PICK j \in 1 .. n : /\ a + j - 1 \in MmioSpace /\ Name(a + j - 1) = "do_reset"
                          /\ p[j] # 0
  BY <1>1 DEF Resets
<1> HIDE DEF v, n
<1>7. a + j - 1 < v.addr
  <2>1. CASE v.refused
    <3>1. v.addr \notin MmioSpace
      BY <1>3, <2>1 DEF simValidMem
    <3>2. MEMMAPIO_START + MEMMAPIO_SIZE - 1 \in Int /\ MEMMAPIO_START \in Int
      BY Layout
    <3> QED BY <1>1, <1>3, <1>5, <1>6, <3>1, <3>2 DEF MmioSpace
  <2>2. CASE ~v.refused
    BY <1>1, <1>3, <1>5, <1>6, <2>2
  <2> QED BY <1>5, <2>1, <2>2
<1>8. ~Quiet(a + j - 1, p[j])
  BY <1>6 DEF Quiet
<1> QED BY <1>4, <1>5, <1>7, <1>8

\* However many bytes of do_reset a request makes other than 0, one reset is
\* charged: the cycles since the checkpoint are added to the wasted ones once,
\* and the PC is the reset vector (cpu_reset, sim_command and rsp_write_mem_bin).
THEOREM ChargedOnce == Spec => ResetChargedOnce
<1> DEFINE Once(a, p) ==
             Name(a) = "do_reset" /\ Resets(a, p) /\ rsp_write_mem_bin(a, p) /\ ~sim'.exited =>
               /\ sim'.mmio["wastedCycles"] =
                    (sim.mmio["wastedCycles"] + sim.mmio["cyclesSinceCP"]) % WordMod
               /\ sim'.mmio["cyclesSinceCP"] = 0
               /\ get_pc(sim') = sim.word[WordBytes]
<1>1. Inv => \A a \in Addrs \cap MmioSpace, p \in Payloads : Once(a, p)
  BY ResetOnce DEF Charges
<1>2. Inv /\ [Next]_vars => [\A a \in Addrs \cap MmioSpace, p \in Payloads : Once(a, p)]_vars
  BY <1>1
<1> QED BY <1>2, Invariant, PTL DEF Spec, ResetChargedOnce
=============================================================================
