--------------------------- MODULE PriceTextProofs ---------------------------
(***************************************************************************)
(* Proofs about the text of a price, for every precision and texts of any   *)
(* number of digits and decimals.  The argument: a number has one decimal  *)
(* form, m * 10^k with m not a multiple of 10 (Normal); rounding gives      *)
(* numbers that have no more digits than are printed, which rounding does   *)
(* not change; and what is printed of those is read as what they were.     *)
(***************************************************************************)
EXTENDS PriceText, WellFoundedInduction, TLAPS

-----------------------------------------------------------------------------
(* Induction over a set of numbers.                                        *)

\* A set that has 0, and the successor of every number it has, has all numbers.
LEMMA SetInduction ==
  ASSUME NEW T, 0 \in T, \A n \in Nat : n \in T => n + 1 \in T
  PROVE  \A n \in Nat : n \in T
<1> DEFINE R == OpToRel(<, Nat)
           S == Nat \ T
<1>1. \A x, y \in Nat : x < y => <<x, y>> \in R
  BY DEF OpToRel
<1>2. IsWellFoundedOn(R, Nat)
  BY NatLessThanWellFounded
<1> HIDE DEF R
<1>3. SUFFICES ASSUME S # {} PROVE FALSE
  OBVIOUS
<1>4. PICK x \in S : \A y \in S : ~(<<y, x>> \in R)
  <2>1. S \subseteq Nat
    OBVIOUS
  <2> HIDE DEF S
  <2> QED
    BY <1>2, <1>3, <2>1, WFMin
<1>5. x \in Nat /\ x \notin T /\ x # 0
  OBVIOUS
<1>6. x - 1 \in Nat /\ x - 1 < x /\ (x - 1) + 1 = x
  BY <1>5
<1>7. x - 1 \in S
  BY <1>5, <1>6
<1> QED
  BY <1>1, <1>4, <1>5, <1>6, <1>7

-----------------------------------------------------------------------------
(* The powers of 10.                                                       *)

\* f has the powers of 10 up to n.
Powers(f, n) == f = [i \in 0..n |-> IF i = 0 THEN 1 ELSE 10 * f[i - 1]]

\* There are powers of 10 up to every number.
LEMMA PowersExist == \A n \in Nat : \E f : Powers(f, n)
<1> DEFINE T == {n \in Nat : \E f : Powers(f, n)}
<1>1. 0 \in T
  <2> DEFINE f == [i \in 0..0 |-> 1]
  <2>1. f = [i \in 0..0 |-> IF i = 0 THEN 1 ELSE 10 * f[i - 1]]
    OBVIOUS
  <2>2. Powers(f, 0)
    BY <2>1 DEF Powers
  <2> QED
    BY <2>2
<1>2. ASSUME NEW n \in Nat, n \in T PROVE n + 1 \in T
  <2>1. PICK g : Powers(g, n)
    BY <1>2
  <2>2. \A i \in 0..n : g[i] = IF i = 0 THEN 1 ELSE 10 * g[i - 1]
    BY <2>1 DEF Powers
  <2> DEFINE f == [i \in 0 .. n + 1 |-> IF i = n + 1 THEN 10 * g[n] ELSE g[i]]
             c == [i \in 0 .. n + 1 |-> IF i = 0 THEN 1 ELSE 10 * f[i - 1]]
  <2>3. /\ \A i \in 0..n : f[i] = g[i]
        /\ f[n + 1] = 10 * g[n]
        /\ f = [i \in 0 .. n + 1 |-> f[i]]
    OBVIOUS
  <2> HIDE DEF f
  <2>4. ASSUME NEW i \in 0 .. n + 1
        PROVE  f[i] = IF i = 0 THEN 1 ELSE 10 * f[i - 1]
    <3>1. CASE i \in 0..n
      <4>1. i # 0 => i - 1 \in 0..n
        BY <3>1
      <4> QED
        BY <2>2, <2>3, <3>1, <4>1
    <3>2. CASE i = n + 1
      <4>1. i - 1 = n /\ n \in 0..n /\ i # 0
        BY <3>2
      <4> QED
        BY <2>3, <3>2, <4>1
    <3> QED
      BY <3>1, <3>2
  <2>5. f = c
    BY <2>3, <2>4
  <2>6. Powers(f, n + 1)
    BY <2>5 DEF Powers
  <2> QED
    BY <2>6
<1> HIDE DEF T
<1>3. \A n \in Nat : n \in T
  BY <1>1, <1>2, SetInduction
<1> QED
  BY <1>3 DEF T

\* And only one of each exponent.
LEMMA PowersUnique ==
  ASSUME NEW m \in Nat, NEW n \in Nat, m <= n, NEW f, NEW g, Powers(f, m), Powers(g, n)
  PROVE  f[m] = g[m]
<1> DEFINE T == {i \in Nat : i <= m => f[i] = g[i]}
<1>1. /\ \A i \in 0..m : f[i] = IF i = 0 THEN 1 ELSE 10 * f[i - 1]
      /\ \A i \in 0..n : g[i] = IF i = 0 THEN 1 ELSE 10 * g[i - 1]
  BY DEF Powers
<1>2. 0 \in T
  BY <1>1
<1>3. ASSUME NEW i \in Nat, i \in T PROVE i + 1 \in T
  <2>1. SUFFICES ASSUME i + 1 <= m PROVE f[i + 1] = g[i + 1]
    OBVIOUS
  <2>2. i + 1 \in 0..m /\ i + 1 \in 0..n /\ i + 1 # 0 /\ (i + 1) - 1 = i /\ i <= m
    BY <2>1
  <2>3. f[i] = g[i]
    BY <1>3, <2>2
  <2> QED
    BY <1>1, <2>2, <2>3
<1> HIDE DEF T
<1>4. \A i \in Nat : i \in T
  BY <1>2, <1>3, SetInduction
<1> QED
  BY <1>4 DEF T

\* The powers of 10 are what their name says.
LEMMA TenSteps ==
  /\ Ten[0] = 1
  /\ \A n \in Nat : Ten[n] \in Nat \ {0} /\ Ten[n + 1] = 10 * Ten[n]
<1> DEFINE P == [n \in Nat |-> (CHOOSE h : Powers(h, n))[n]]
           c == [n \in Nat |-> IF n = 0 THEN 1 ELSE 10 * P[n - 1]]
<1>1. \A n \in Nat : Powers(CHOOSE h : Powers(h, n), n)
  BY PowersExist
<1>2. ASSUME NEW n \in Nat PROVE P[n] = IF n = 0 THEN 1 ELSE 10 * P[n - 1]
  <2> DEFINE f == CHOOSE h : Powers(h, n)
             g == CHOOSE h : Powers(h, n - 1)
  <2>1. P[n] = f[n] /\ Powers(f, n)
    BY <1>1
  <2>2. n # 0 => P[n - 1] = g[n - 1] /\ Powers(g, n - 1)
    BY <1>1
  <2> HIDE DEF P, f, g
  <2>3. f[n] = IF n = 0 THEN 1 ELSE 10 * f[n - 1]
    BY <2>1 DEF Powers
  <2>4. n # 0 => g[n - 1] = f[n - 1]
    BY <2>1, <2>2, PowersUnique
  <2> QED
    BY <2>1, <2>2, <2>3, <2>4
<1>0. P = [n \in Nat |-> P[n]]
  OBVIOUS
<1> HIDE DEF P
<1>3. P = c
  BY <1>0, <1>2
<1>4. P = [n \in Nat |-> IF n = 0 THEN 1 ELSE 10 * P[n - 1]]
  BY <1>3
<1>5. Ten = [n \in Nat |-> IF n = 0 THEN 1 ELSE 10 * Ten[n - 1]]
  BY <1>4, Zenon DEF Ten
<1>6. Ten[0] = 1
  BY <1>5
<1>7. \A n \in Nat : Ten[n + 1] = 10 * Ten[n]
  <2> TAKE n \in Nat
  <2>1. n + 1 \in Nat /\ n + 1 # 0 /\ (n + 1) - 1 = n
    OBVIOUS
  <2> QED
    BY <1>5, <2>1
<1> DEFINE T == {n \in Nat : Ten[n] \in Nat \ {0}}
<1>8. 0 \in T
  BY <1>6
<1>9. \A n \in Nat : n \in T => n + 1 \in T
  BY <1>7
<1> HIDE DEF T
<1>10. \A n \in Nat : n \in T
  BY <1>8, <1>9, SetInduction
<1> QED
  BY <1>6, <1>7, <1>10 DEF T

\* Powers are multiplied by adding their exponents.
LEMMA TenAdd ==
  \A a, b \in Nat : Ten[a + b] = Ten[a] * Ten[b]
<1> SUFFICES ASSUME NEW a \in Nat PROVE \A b \in Nat : Ten[a + b] = Ten[a] * Ten[b]
  OBVIOUS
<1> DEFINE T == {b \in Nat : Ten[a + b] = Ten[a] * Ten[b]}
<1>1. 0 \in T
  BY TenSteps
<1>2. ASSUME NEW b \in Nat, b \in T PROVE b + 1 \in T
  <2>1. a + b \in Nat /\ a + (b + 1) = (a + b) + 1
    OBVIOUS
  <2>2. Ten[a + (b + 1)] = 10 * Ten[a + b] /\ Ten[b + 1] = 10 * Ten[b]
    BY <2>1, TenSteps
  <2>3. Ten[a + b] = Ten[a] * Ten[b] /\ Ten[a] \in Nat /\ Ten[b] \in Nat
    BY <1>2, TenSteps
  <2>4. 10 * (Ten[a] * Ten[b]) = Ten[a] * (10 * Ten[b])
    BY <2>3
  <2> QED
    BY <2>2, <2>3, <2>4
<1> HIDE DEF T
<1>3. \A b \in Nat : b \in T
  BY <1>1, <1>2, SetInduction
<1> QED
  BY <1>3 DEF T

\* A power is no more than that of a greater exponent, and less than a tenth of it
\* if they differ.
LEMMA TenMonotone ==
  ASSUME NEW a \in Nat, NEW b \in Nat, a <= b
  PROVE  Ten[a] <= Ten[b] /\ (a < b => 10 * Ten[a] <= Ten[b])
<1> DEFINE x == Ten[a]
           y == Ten[b - a]
<1>1. b - a \in Nat /\ a + (b - a) = b
  OBVIOUS
<1>2. Ten[b] = x * y /\ x \in Nat \ {0} /\ y \in Nat \ {0}
  <2>1. Ten[a + (b - a)] = x * y
    BY <1>1, TenAdd
  <2>2. x \in Nat \ {0} /\ y \in Nat \ {0}
    BY <1>1, TenSteps
  <2> QED
    BY <1>1, <2>1, <2>2
<1>3. a < b => y >= 10
  <2>1. SUFFICES ASSUME a < b PROVE y >= 10
    OBVIOUS
  <2>2. (b - a) - 1 \in Nat /\ ((b - a) - 1) + 1 = b - a
    BY <2>1
  <2>3. y = 10 * Ten[(b - a) - 1] /\ Ten[(b - a) - 1] \in Nat \ {0}
    BY <2>2, TenSteps
  <2> QED
    BY <2>3
<1> HIDE DEF x, y
<1>4. x <= x * y
  BY <1>2
<1>5. y >= 10 => 10 * x <= x * y
  BY <1>2
<1> QED
  BY <1>2, <1>3, <1>4, <1>5 DEF x

-----------------------------------------------------------------------------
(* Digits.                                                                 *)

\* Division leaves a remainder, and undoes multiplication.
LEMMA Multiples ==
  ASSUME NEW d \in Nat \ {0}, NEW n \in Nat
  PROVE  /\ n % d = 0 => n = d * (n \div d)
         /\ n \div d \in Nat
         /\ n % d \in 0 .. d - 1
         /\ n = d * (n \div d) + (n % d)
         /\ \A q \in Nat : n = d * q => n % d = 0 /\ n \div d = q
<1>1. n \div d \in Nat /\ n % d \in 0 .. d - 1 /\ n = d * (n \div d) + (n % d)
  OBVIOUS
<1>2. \A q \in Nat : n = d * q => n % d = 0 /\ n \div d = q
  OBVIOUS
<1>3. n % d = 0 => n = d * (n \div d)
  OBVIOUS
<1> QED
  BY <1>1, <1>2, <1>3

\* The numbers of up to MaxDigits digits, and of these the first with one more.
Limit == Ten[MaxDigits]

LEMMA LimitFacts ==
  /\ MaxDigits \in Nat \ {0}
  /\ PRICE_PRECISION \in Nat \ {0} /\ PRICE_PRECISION <= MaxDigits
  /\ Limit \in Nat /\ Limit >= 10
<1>1. /\ MaxDigits \in Nat \ {0}
      /\ PRICE_PRECISION \in Nat \ {0} /\ PRICE_PRECISION <= MaxDigits
  BY BoundsAssumption, PrecisionAssumption
<1>2. Limit \in Nat /\ 10 * Ten[0] <= Limit
  BY <1>1, TenSteps, TenMonotone DEF Limit
<1> QED
  BY <1>1, <1>2, TenSteps

\* Of a set of numbers that has m, one not above m is the first.
LEMMA FirstOf ==
  ASSUME NEW S, NEW m \in Nat, m \in S
  PROVE  \E n \in 0..m : n \in S /\ \A i \in Nat : i < n => i \notin S
<1> SUFFICES ASSUME \A n \in 0..m : n \in S => \E i \in Nat : i < n /\ i \in S
             PROVE  FALSE
  OBVIOUS
<1> DEFINE T == {n \in Nat : \A i \in 0..n : i <= m => i \notin S}
<1>1. 0 \in T
  <2>1. \A i \in 0..0 : i = 0
    OBVIOUS
  <2>2. 0 \notin S
    <3>1. \A i \in Nat : ~(i < 0)
      OBVIOUS
    <3> QED
      BY <3>1
  <2> QED
    BY <2>1, <2>2
<1>2. ASSUME NEW n \in Nat, n \in T PROVE n + 1 \in T
  <2>1. SUFFICES ASSUME NEW i \in 0 .. n + 1, i <= m, i \in S PROVE FALSE
    OBVIOUS
  <2>2. i \notin 0..n
    BY <1>2, <2>1
  <2>3. i = n + 1 /\ i \in 0..m
    BY <2>1, <2>2
  <2>4. PICK j \in Nat : j < i /\ j \in S
    BY <2>1, <2>3
  <2>5. j \in 0..n /\ j <= m
    BY <2>3, <2>4
  <2> QED
    BY <1>2, <2>4, <2>5
<1> HIDE DEF T
<1>3. m \in T
  BY <1>1, <1>2, SetInduction
<1> QED
  BY <1>3 DEF T

\* A number has as many digits as NumDigits says.
LEMMA DigitsOf ==
  ASSUME NEW n \in Nat, n < Limit
  PROVE  /\ NumDigits(n) \in 1..MaxDigits
         /\ n < Ten[NumDigits(n)]
         /\ n # 0 => Ten[NumDigits(n) - 1] <= n
<1>1. MaxDigits \in Nat \ {0}
  BY LimitFacts
<1>2. CASE n = 0
  <2>1. NumDigits(n) = 1 /\ 1 \in 1..MaxDigits /\ 0 < Ten[1]
    BY <1>1, <1>2, TenSteps DEF NumDigits
  <2> QED
    BY <1>2, <2>1
<1>3. CASE n # 0
  <2> DEFINE S == {d \in Nat : n < Ten[d]}
  <2>1. PICK d \in 0..MaxDigits : d \in S /\ \A i \in Nat : i < d => i \notin S
    <3>1. MaxDigits \in S
      BY <1>1 DEF Limit
    <3> HIDE DEF S
    <3> QED
      BY <1>1, <3>1, FirstOf
  <2>2. d # 0
    BY <1>3, <2>1, TenSteps
  <2>3. d - 1 \in Nat /\ d - 1 < d /\ d \in 1..MaxDigits
    BY <1>1, <2>1, <2>2
  <2>4. Ten[d - 1] <= n /\ n < Ten[d]
    <3>1. d - 1 \notin S /\ Ten[d - 1] \in Nat
      BY <2>1, <2>3, TenSteps
    <3> QED
      BY <2>1, <2>3, <3>1
  <2>5. NumDigits(n) = CHOOSE e \in 1..MaxDigits : Ten[e - 1] <= n /\ n < Ten[e]
    BY <1>3 DEF NumDigits
  <2> QED
    BY <2>3, <2>4, <2>5
<1> QED
  BY <1>2, <1>3

\* A number has no more than p digits if it is less than the power of p.
LEMMA FewDigits ==
  ASSUME NEW n \in Nat, n < Limit, NEW p \in Nat \ {0}
  PROVE  NumDigits(n) <= p <=> n < Ten[p]
<1> DEFINE d == NumDigits(n)
<1>1. d \in Nat \ {0} /\ n < Ten[d] /\ (n # 0 => Ten[d - 1] <= n)
  BY DigitsOf, LimitFacts
<1>2. n = 0 => d = 1
  BY DEF NumDigits
<1> HIDE DEF d
<1>3. Ten[d] \in Nat /\ Ten[p] \in Nat /\ d - 1 \in Nat /\ Ten[d - 1] \in Nat
  BY <1>1, TenSteps
<1>4. CASE d <= p
  <2>1. Ten[d] <= Ten[p]
    BY <1>1, <1>4, TenMonotone
  <2> QED
    BY <1>1, <1>3, <1>4, <2>1 DEF d
<1>5. CASE ~(d <= p)
  <2>1. p <= d - 1
    BY <1>1, <1>5
  <2>2. Ten[p] <= Ten[d - 1]
    BY <1>3, <2>1, TenMonotone
  <2>3. n # 0
    BY <1>1, <1>2, <1>5
  <2> QED
    BY <1>1, <1>3, <1>5, <2>2, <2>3 DEF d
<1> QED
  BY <1>4, <1>5

\* A number has as many zeros at its end as TrailingZeros says: without them it is not
\* a multiple of 10.
LEMMA ZerosOf ==
  ASSUME NEW n \in Nat \ {0}, n <= Limit
  PROVE  /\ TrailingZeros(n) \in 0..MaxDigits
         /\ n % Ten[TrailingZeros(n)] = 0
         /\ n % Ten[TrailingZeros(n) + 1] # 0
<1> DEFINE S == {z \in Nat : n % Ten[z + 1] # 0}
<1>1. MaxDigits \in Nat /\ Limit \in Nat
  BY LimitFacts
<1>2. MaxDigits \in S
  <2>1. Ten[MaxDigits + 1] = 10 * Limit
    BY <1>1, TenSteps DEF Limit
  <2>2. n < 10 * Limit /\ 10 * Limit \in Nat
    BY <1>1
  <2>3. n % (10 * Limit) = n
    BY <2>2
  <2> QED
    BY <1>1, <2>1, <2>3
<1>3. PICK z \in 0..MaxDigits : z \in S /\ \A i \in Nat : i < z => i \notin S
  <2> HIDE DEF S
  <2> QED
    BY <1>1, <1>2, FirstOf
<1>4. n % Ten[z] = 0
  <2>1. CASE z = 0
    BY <2>1, TenSteps
  <2>2. CASE z # 0
    <3>1. z - 1 \in Nat /\ z - 1 < z /\ (z - 1) + 1 = z
      BY <1>1, <2>2
    <3> QED
      BY <1>3, <3>1
  <2> QED
    BY <2>1, <2>2
<1>5. TrailingZeros(n) = CHOOSE i \in 0..MaxDigits : n % Ten[i] = 0 /\ n % Ten[i + 1] # 0
  BY DEF TrailingZeros
<1> QED
  BY <1>3, <1>4, <1>5

-----------------------------------------------------------------------------
(* Decimal numbers.                                                        *)

\* A number in its one decimal form.
Normal(v) ==
  /\ v \in [m : 0 .. Limit - 1, k : Int]
  /\ v.m = 0 => v.k = 0
  /\ v.m # 0 => v.m % 10 # 0

\* A number that is not a multiple of 10 gets as many zeros as its power has.
LEMMA ZerosOfMultiple ==
  ASSUME NEW m \in Nat, m % 10 # 0, NEW j \in Nat, m * Ten[j] <= Limit
  PROVE  m * Ten[j] \in Nat \ {0} /\ TrailingZeros(m * Ten[j]) = j
<1> DEFINE n == m * Ten[j]
           z == TrailingZeros(n)
<1>1. Ten[j] \in Nat \ {0} /\ m # 0
  BY TenSteps
<1>2. n \in Nat \ {0} /\ n <= Limit
  <2> DEFINE x == Ten[j]
  <2>1. x \in Nat \ {0}
    BY <1>1
  <2> HIDE DEF x
  <2>2. m * x \in Nat /\ m * x # 0
    BY <1>1, <2>1
  <2> QED
    BY <2>2 DEF x
<1> HIDE DEF n
<1>3. z \in Nat /\ n % Ten[z] = 0 /\ n % Ten[z + 1] # 0
  BY <1>2, ZerosOf, LimitFacts
<1> HIDE DEF z
<1>4. CASE z < j
  <2> DEFINE i == j - (z + 1)
             a == Ten[z + 1]
             b == Ten[i]
  <2>1. i \in Nat /\ z + 1 \in Nat /\ (z + 1) + i = j
    BY <1>3, <1>4
  <2>2. a \in Nat \ {0} /\ b \in Nat /\ Ten[j] = a * b
    <3>1. Ten[(z + 1) + i] = Ten[z + 1] * Ten[i]
      BY <2>1, TenAdd
    <3> QED
      BY <2>1, <3>1, TenSteps
  <2> HIDE DEF a, b
  <2>3. n = a * (m * b) /\ m * b \in Nat
    BY <2>2 DEF n
  <2>4. n % a = 0
    BY <1>2, <2>2, <2>3, Multiples
  <2> QED
    BY <1>3, <2>4 DEF a
<1>5. CASE z > j
  <2> DEFINE i == z - (j + 1)
             x == Ten[j]
             b == Ten[i]
             q == n \div Ten[z]
  <2>1. i \in Nat /\ j + 1 \in Nat /\ (j + 1) + i = z
    BY <1>3, <1>5
  <2>2. x \in Nat \ {0} /\ b \in Nat /\ Ten[z] = (10 * x) * b /\ Ten[z] \in Nat \ {0}
    <3>1. Ten[(j + 1) + i] = Ten[j + 1] * Ten[i]
      BY <2>1, TenAdd
    <3>2. Ten[j + 1] = 10 * Ten[j]
      BY TenSteps
    <3> QED
      BY <1>3, <2>1, <3>1, <3>2, TenSteps
  <2>3. q \in Nat /\ n = Ten[z] * q
    BY <1>2, <1>3, <2>2, Multiples
  <2>4. n = m * x
    BY DEF n
  <2> HIDE DEF x, b, q
  <2>5. x * m = x * (10 * (b * q))
    <3>1. ((10 * x) * b) * q = x * (10 * (b * q))
      BY <2>2, <2>3
    <3>2. m * x = x * m
      BY <2>2
    <3> QED
      BY <2>2, <2>3, <2>4, <3>1, <3>2
  <2>6. m = 10 * (b * q) /\ b * q \in Nat
    <3> DEFINE y == 10 * (b * q)
    <3>1. y \in Nat /\ b * q \in Nat
      BY <2>2, <2>3
    <3>2. x * m = x * y
      BY <2>5
    <3> HIDE DEF y
    <3>3. m = y
      BY <2>2, <3>1, <3>2
    <3> QED
      BY <3>1, <3>3 DEF y
  <2>7. m % 10 = 0
    BY <2>6, Multiples
  <2> QED
    BY <2>7
<1> QED
  BY <1>2, <1>3, <1>4, <1>5 DEF n, z

\* A number with zeros added at its end is read as itself.
LEMMA DecimalOfMultiple ==
  ASSUME NEW v, Normal(v), NEW j \in Nat, v.m * Ten[j] <= Limit,
         NEW k \in Int, v.m # 0 => k + j = v.k
  PROVE  Decimal(v.m * Ten[j], k) = v
<1>1. v = [m |-> v.m, k |-> v.k] /\ v.m \in Nat /\ v.k \in Int
  BY LimitFacts DEF Normal
<1>2. Ten[j] \in Nat \ {0}
  BY TenSteps
<1>3. CASE v.m = 0
  <2>1. v.m * Ten[j] = 0 /\ v.k = 0
    BY <1>2, <1>3 DEF Normal
  <2> QED
    BY <1>1, <1>3, <2>1 DEF Decimal
<1>4. CASE v.m # 0
  <2> DEFINE n == v.m * Ten[j]
             x == Ten[j]
  <2>1. n \in Nat \ {0} /\ TrailingZeros(n) = j
    BY <1>1, <1>4, ZerosOfMultiple DEF Normal
  <2>2. Decimal(n, k) = [m |-> n \div Ten[j], k |-> k + j]
    BY <2>1 DEF Decimal
  <2>3. n = x * v.m
    BY <1>1, <1>2
  <2> HIDE DEF n, x
  <2>4. n \div x = v.m
    BY <1>1, <1>2, <2>1, <2>3, Multiples DEF x
  <2> QED
    BY <1>1, <1>4, <2>2, <2>4 DEF n, x
<1> QED
  BY <1>3, <1>4

\* What is read is in decimal form: the digits without the zeros at their end.
LEMMA DecimalIsNormal ==
  ASSUME NEW n \in Nat, n <= Limit, NEW k \in Int
  PROVE  /\ Normal(Decimal(n, k))
         /\ Decimal(n, k).m <= n
         /\ n = 0 => Decimal(n, k) = [m |-> 0, k |-> 0]
         /\ n # 0 => \E j \in 0..MaxDigits : /\ n = Decimal(n, k).m * Ten[j]
                                             /\ Decimal(n, k).k = k + j
<1>1. Limit \in Nat /\ Limit >= 10 /\ MaxDigits \in Nat \ {0}
  BY LimitFacts
<1>2. CASE n = 0
  <2>1. Decimal(n, k) = [m |-> 0, k |-> 0]
    BY <1>2 DEF Decimal
  <2> QED
    BY <1>1, <1>2, <2>1 DEF Normal
<1>3. CASE n # 0
  <2> DEFINE z == TrailingZeros(n)
             x == Ten[z]
             m == n \div x
  <2>1. z \in 0..MaxDigits /\ n % x = 0 /\ n % Ten[z + 1] # 0
    BY <1>3, ZerosOf
  <2>2. x \in Nat \ {0} /\ Ten[z + 1] = 10 * x /\ z \in Nat
    BY <1>1, <2>1, TenSteps
  <2>3. Decimal(n, k) = [m |-> m, k |-> k + z]
    BY <1>3 DEF Decimal
  <2> HIDE DEF z
  <2>4. m \in Nat /\ n = x * m
    BY <2>1, <2>2, Multiples
  <2> HIDE DEF x, m
  <2>5. m <= n /\ m # 0 /\ n = m * x
    BY <1>3, <2>2, <2>4
  <2>6. m % 10 # 0
    <3>1. SUFFICES ASSUME m % 10 = 0 PROVE FALSE
      OBVIOUS
    <3> DEFINE q == m \div 10
    <3>2. q \in Nat /\ m = 10 * q
      BY <2>4, <3>1, Multiples
    <3> HIDE DEF q
    <3>3. n = (10 * x) * q
      BY <2>2, <2>4, <3>2
    <3>4. 10 * x \in Nat \ {0}
      BY <2>2
    <3>5. n % (10 * x) = 0
      BY <3>2, <3>3, <3>4, Multiples
    <3> QED
      BY <2>1, <2>2, <3>5
  <2>7. m < Limit
    <3>1. SUFFICES ASSUME m = Limit PROVE FALSE
      BY <1>1, <2>4, <2>5
    <3>2. MaxDigits - 1 \in Nat /\ (MaxDigits - 1) + 1 = MaxDigits
      BY <1>1
    <3>3. Limit = 10 * Ten[MaxDigits - 1] /\ Ten[MaxDigits - 1] \in Nat
      BY <3>2, TenSteps DEF Limit
    <3> QED
      BY <2>4, <2>6, <3>1, <3>3, Multiples
  <2>8. Normal(Decimal(n, k))
    BY <1>1, <2>2, <2>3, <2>4, <2>5, <2>6, <2>7 DEF Normal
  <2> QED
    BY <1>3, <2>1, <2>3, <2>5, <2>8 DEF x
<1> QED
  BY <1>2, <1>3

-----------------------------------------------------------------------------
(* Rounding and printing.                                                  *)

\* A number that is not rounded, or as far as rounding moves it: to n units, at most
\* half a unit away.
HalfUnit(v, n, drop) ==
  /\ n * Ten[drop] >= v.m => 2 * (n * Ten[drop] - v.m) <= Ten[drop]
  /\ n * Ten[drop] <= v.m => 2 * (v.m - n * Ten[drop]) <= Ten[drop]

\* A number that is rounded has no more digits than are printed.
LEMMA RoundedFacts ==
  ASSUME NEW v, Normal(v), NEW w \in Rounded(v, PRICE_PRECISION)
  PROVE  /\ Normal(w)
         /\ NumDigits(w.m) <= PRICE_PRECISION
         /\ NumDigits(v.m) <= PRICE_PRECISION => w = v
         /\ NumDigits(v.m) > PRICE_PRECISION =>
              LET drop == NumDigits(v.m) - PRICE_PRECISION
              IN \E n \in Nat : /\ n <= Limit
                                /\ w = Decimal(n, v.k + drop)
                                /\ HalfUnit(v, n, drop)
<1> DEFINE P == PRICE_PRECISION
           drop == NumDigits(v.m) - P
           unit == Ten[drop]
           q == v.m \div unit
           rest == v.m % unit
<1>1. v.m \in Nat /\ v.m < Limit /\ v.k \in Int /\ P \in Nat \ {0} /\ P <= MaxDigits
      /\ MaxDigits \in Nat /\ Limit \in Nat
  BY LimitFacts DEF Normal
<1>2. NumDigits(v.m) \in Nat \ {0} /\ v.m < Ten[NumDigits(v.m)]
  BY <1>1, DigitsOf
<1>3. CASE NumDigits(v.m) <= P
  <2>1. drop <= 0
    BY <1>1, <1>2, <1>3
  <2>2. Rounded(v, P) = {v}
    BY <2>1 DEF Rounded
  <2> QED
    BY <1>1, <1>2, <1>3, <2>2
<1>4. CASE ~(NumDigits(v.m) <= P)
  <2>1. drop \in Nat \ {0} /\ ~(drop <= 0) /\ P + drop = NumDigits(v.m)
    BY <1>1, <1>2, <1>4
  <2>2. PICK n \in {q, q + 1} : /\ w = Decimal(n, v.k + drop)
                                /\ IF n = q THEN 2 * rest <= unit ELSE 2 * rest >= unit
    BY <2>1 DEF Rounded
  <2>3. unit \in Nat \ {0} /\ Ten[P] \in Nat \ {0} /\ Ten[NumDigits(v.m)] = Ten[P] * unit
    <3>1. Ten[P + drop] = Ten[P] * Ten[drop]
      BY <1>1, <2>1, TenAdd
    <3> QED
      BY <1>1, <2>1, <3>1, TenSteps
  <2> DEFINE top == Ten[P]
  <2>4. q \in Nat /\ rest \in 0 .. unit - 1 /\ v.m = unit * q + rest
    <3> HIDE DEF unit
    <3> QED
      BY <1>1, <2>3, Multiples
  <2>5. v.m < top * unit /\ top \in Nat \ {0} /\ unit \in Nat \ {0}
    BY <1>2, <2>3
  <2> HIDE DEF q, rest, top, unit, drop
  <2>6. q < top
    <3>1. SUFFICES ASSUME top <= q PROVE FALSE
      BY <2>4, <2>5
    <3>2. top * unit <= q * unit
      BY <2>4, <2>5, <3>1
    <3>3. q * unit = unit * q
      BY <2>4, <2>5
    <3> QED
      BY <2>4, <2>5, <3>2, <3>3
  <2>7. n \in Nat /\ n <= top /\ top <= Limit
    <3>1. top <= Limit
      BY <1>1, TenMonotone DEF top, Limit
    <3> QED
      BY <2>2, <2>4, <2>5, <2>6, <3>1
  <2>8. n <= Limit
    BY <1>1, <2>5, <2>7
  <2>9. v.k + drop \in Int
    BY <1>1, <2>1
  <2>10. Normal(w) /\ w.m <= n
    BY <2>2, <2>7, <2>8, <2>9, DecimalIsNormal
  <2>11. w.m < top
    <3>1. w.m \in Nat
      BY <1>1, <2>10 DEF Normal
    <3>2. SUFFICES ASSUME w.m = top PROVE FALSE
      BY <2>5, <2>7, <2>10, <3>1
    <3>3. P - 1 \in Nat /\ (P - 1) + 1 = P
      BY <1>1
    <3>4. top = 10 * Ten[P - 1] /\ Ten[P - 1] \in Nat
      BY <3>3, TenSteps DEF top
    <3>5. w.m % 10 = 0
      BY <3>1, <3>2, <3>4, Multiples
    <3> QED
      BY <2>5, <2>10, <3>2, <3>5 DEF Normal
  <2>12. NumDigits(w.m) <= P
    <3>1. w.m \in Nat /\ w.m < Limit
      BY <1>1, <2>10 DEF Normal
    <3> QED
      BY <1>1, <2>11, <3>1, FewDigits DEF top
  <2>13. HalfUnit(v, n, drop)
    <3>1. CASE n = q
      <4>1. n * unit = unit * q
        BY <2>4, <2>5, <3>1
      <4>2. v.m - n * unit = rest /\ n * unit <= v.m /\ (n * unit >= v.m => rest = 0)
        BY <2>4, <2>5, <4>1
      <4>3. 2 * rest <= unit /\ n * unit \in Nat
        BY <2>2, <2>4, <2>5, <3>1
      <4> QED
        BY <1>1, <2>4, <2>5, <4>2, <4>3 DEF HalfUnit, unit
    <3>2. CASE n # q
      <4>1. n = q + 1 /\ 2 * rest >= unit
        BY <2>2, <3>2
      <4>2. n * unit = unit * q + unit
        BY <2>4, <2>5, <4>1
      <4>3. n * unit - v.m = unit - rest /\ ~(n * unit <= v.m)
        BY <2>4, <2>5, <4>2
      <4> QED
        BY <2>4, <2>5, <4>1, <4>3 DEF HalfUnit, unit
    <3> QED
      BY <3>1, <3>2
  <2> QED
    BY <1>1, <1>2, <1>4, <2>2, <2>7, <2>8, <2>10, <2>12, <2>13 DEF drop
<1> QED
  BY <1>3, <1>4

\* What is printed of a number of that many digits is read as that number.
LEMMA PrintedIsReadBack ==
  ASSUME NEW v, Normal(v), NumDigits(v.m) <= PRICE_PRECISION
  PROVE  stod(Printed(v)) = v
<1> DEFINE d == NumDigits(v.m)
           e == v.k + d - 1
<1>1. v.m \in Nat /\ v.m < Limit /\ v.k \in Int /\ PRICE_PRECISION <= MaxDigits
      /\ MaxDigits \in Nat /\ PRICE_PRECISION \in Nat /\ Limit \in Nat
  BY LimitFacts DEF Normal
<1>2. d \in Nat \ {0} /\ v.m < Ten[d]
  BY <1>1, DigitsOf
<1>3. Ten[0] = 1 /\ v.m * Ten[0] = v.m
  BY <1>1, TenSteps
<1> HIDE DEF d
<1>4. Decimal(v.m, v.k) = v
  BY <1>1, <1>3, DecimalOfMultiple
<1>5. CASE e < -4 \/ e >= PRICE_PRECISION
  <2>1. Printed(v) = [digits |-> v.m, decimals |-> d - 1, exponent |-> e]
    BY <1>5 DEF Printed, d
  <2>2. e - (d - 1) = v.k
    BY <1>1, <1>2
  <2> QED
    BY <1>4, <2>1, <2>2 DEF stod
<1>6. CASE ~(e < -4 \/ e >= PRICE_PRECISION) /\ v.k >= 0
  <2>1. Printed(v) = [digits |-> v.m * Ten[v.k], decimals |-> 0, exponent |-> 0]
    BY <1>6 DEF Printed, PlainText, d
  <2>2. v.m * Ten[v.k] <= Limit
    <3> DEFINE x == Ten[v.k]
               y == Ten[d]
    <3>1. v.k \in Nat /\ v.k + d <= MaxDigits /\ v.k + d \in Nat
      BY <1>1, <1>2, <1>6
    <3>2. x \in Nat \ {0} /\ y \in Nat /\ y * x = Ten[d + v.k]
      BY <1>2, <3>1, TenSteps, TenAdd
    <3>3. Ten[v.k + d] <= Limit /\ d + v.k = v.k + d
      BY <1>1, <1>2, <3>1, TenMonotone DEF Limit
    <3> HIDE DEF x, y
    <3>4. v.m * x <= y * x
      BY <1>1, <1>2, <3>2 DEF y
    <3>5. v.m * x \in Nat /\ y * x \in Nat
      BY <1>1, <3>2
    <3> QED
      BY <1>1, <3>2, <3>3, <3>4, <3>5 DEF x
  <2>3. v.k \in Nat /\ 0 + v.k = v.k /\ 0 - 0 = 0
    BY <1>1, <1>6
  <2>4. Decimal(v.m * Ten[v.k], 0) = v
    BY <2>2, <2>3, DecimalOfMultiple
  <2> QED
    BY <2>1, <2>3, <2>4 DEF stod
<1>7. CASE ~(e < -4 \/ e >= PRICE_PRECISION) /\ ~(v.k >= 0)
  <2>1. Printed(v) = [digits |-> v.m, decimals |-> -v.k, exponent |-> 0]
    BY <1>7 DEF Printed, PlainText, d
  <2>2. 0 - (-v.k) = v.k
    BY <1>1
  <2> QED
    BY <1>4, <2>1, <2>2 DEF stod
<1> QED
  BY <1>5, <1>6, <1>7

\* A text of the input is read as a number in decimal form, of its decimals or fewer.
LEMMA TextIsRead ==
  ASSUME NEW t \in Texts
  PROVE  /\ t = [digits |-> t.digits, decimals |-> t.decimals, exponent |-> 0]
         /\ t.digits \in 0 .. Limit - 1 /\ t.decimals \in 0..MaxDecimals
         /\ stod(t) = Decimal(t.digits, -t.decimals)
         /\ Normal(stod(t))
         /\ stod(t).k + MaxDecimals \in Nat
<1>1. PICK n \in 0 .. Limit - 1, d \in 0..MaxDecimals :
         t = [digits |-> n, decimals |-> d, exponent |-> 0]
  BY DEF Texts, PlainText, Limit
<1>2. MaxDecimals \in Nat /\ Limit \in Nat /\ MaxDigits \in Nat
  BY BoundsAssumption, LimitFacts
<1>3. n \in Nat /\ n <= Limit /\ d \in Nat /\ d <= MaxDecimals /\ 0 - d = -d /\ -d \in Int
  BY <1>2
<1>4. stod(t) = Decimal(n, -d)
  BY <1>1, <1>3 DEF stod
<1>5. Normal(Decimal(n, -d))
  BY <1>3, DecimalIsNormal
<1>6. Decimal(n, -d).k + MaxDecimals \in Nat
  <2>1. CASE n = 0
    BY <1>2, <2>1 DEF Decimal
  <2>2. CASE n # 0
    <3>1. PICK j \in 0..MaxDigits : Decimal(n, -d).k = -d + j
      BY <1>3, <2>2, DecimalIsNormal
    <3> QED
      BY <1>2, <1>3, <3>1
  <2> QED
    BY <2>1, <2>2
<1> QED
  BY <1>1, <1>2, <1>4, <1>5, <1>6

\* A canonical text is what is printed of the number it is read as.
LEMMA CanonicalIsPrinted ==
  ASSUME NEW t \in Texts, Canonical(t)
  PROVE  /\ Printed(stod(t)) = t
         /\ NumDigits(stod(t).m) <= PRICE_PRECISION
<1> DEFINE v == stod(t)
           n == t.digits
           c == t.decimals
           e == v.k + NumDigits(v.m) - 1
<1>1. /\ t = [digits |-> n, decimals |-> c, exponent |-> 0]
      /\ n \in Nat /\ n <= Limit /\ c \in Nat /\ v = Decimal(n, -c) /\ -c \in Int
      /\ Limit \in Nat /\ PRICE_PRECISION \in Nat
  BY TextIsRead, LimitFacts, BoundsAssumption
<1>2. Normal(v)
  BY TextIsRead
<1>3. v.m \in Nat /\ v.m < Limit /\ v.k \in Int
  BY <1>1, <1>2 DEF Normal
<1>4. NumDigits(v.m) \in Nat
  BY <1>3, DigitsOf, LimitFacts
<1>5. c > 0 => n % 10 # 0
  BY DEF Canonical
<1>6. NumDigits(v.m) <= PRICE_PRECISION /\ ~(e < -4 \/ e >= PRICE_PRECISION)
  <2>1. NumDigits(v.m) <= PRICE_PRECISION /\ e \in -4 .. PRICE_PRECISION - 1
    BY DEF Canonical, Significant, Exponent
  <2> QED
    BY <1>1, <1>3, <1>4, <2>1
<1> HIDE DEF v, n, c
<1>7. CASE n = 0
  <2>1. c = 0
    BY <1>1, <1>5, <1>7
  <2>2. v = [m |-> 0, k |-> 0]
    BY <1>1, <1>7, DecimalIsNormal
  <2>3. Printed(v) = [digits |-> 0 * Ten[0], decimals |-> 0, exponent |-> 0]
    BY <1>6, <2>2 DEF Printed, PlainText
  <2>4. 0 * Ten[0] = 0
    BY TenSteps
  <2> QED
    BY <1>1, <1>6, <1>7, <2>1, <2>3, <2>4 DEF v
<1>8. CASE n # 0
  <2>1. PICK j \in 0..MaxDigits : n = v.m * Ten[j] /\ v.k = -c + j
    BY <1>1, <1>8, DecimalIsNormal
  <2>2. j \in Nat /\ MaxDigits \in Nat
    BY LimitFacts
  <2>3. CASE c = 0
    <3>1. v.k = j /\ v.k >= 0
      BY <2>1, <2>2, <2>3
    <3>2. Printed(v) = [digits |-> v.m * Ten[v.k], decimals |-> 0, exponent |-> 0]
      BY <1>6, <3>1 DEF Printed, PlainText
    <3> QED
      BY <1>1, <1>6, <2>1, <2>3, <3>1, <3>2 DEF v
  <2>4. CASE c # 0
    <3>1. j = 0
      <4>1. SUFFICES ASSUME j # 0 PROVE n % 10 = 0
        BY <1>1, <1>5, <2>4
      <4> DEFINE x == Ten[j - 1]
      <4>2. j - 1 \in Nat /\ (j - 1) + 1 = j
        BY <2>2, <4>1
      <4>3. Ten[j] = 10 * x /\ x \in Nat
        BY <4>2, TenSteps
      <4> HIDE DEF x
      <4>4. n = 10 * (v.m * x) /\ v.m * x \in Nat
        BY <1>3, <2>1, <4>3
      <4> DEFINE p == v.m * x
      <4> HIDE DEF p
      <4>5. n = 10 * p /\ p \in Nat
        BY <4>4 DEF p
      <4> QED
        BY <1>1, <4>5, Multiples
    <3>2. v.m = n /\ v.k = -c /\ ~(v.k >= 0) /\ -v.k = c
      BY <1>1, <1>3, <2>1, <2>4, <3>1, TenSteps
    <3>3. Printed(v) = [digits |-> v.m, decimals |-> -v.k, exponent |-> 0]
      BY <1>6, <3>2 DEF Printed, PlainText
    <3> QED
      BY <1>1, <1>6, <3>2, <3>3 DEF v
  <2> QED
    BY <2>3, <2>4
<1> QED
  BY <1>7, <1>8

-----------------------------------------------------------------------------
(* The text of a price through the program.                                *)

\* The text in an inflated file is what was printed of the number the first text was
\* read as, rounded once.
IInv ==
  /\ original \in Texts
  /\ inflated \in BOOLEAN
  /\ ~inflated => text = original
  /\ inflated => \E w \in Rounded(stod(original), PRICE_PRECISION) : text = Printed(w)

\* The number behind the text of an inflated file.
LEMMA InflatedIsRead ==
  ASSUME IInv, inflated
  PROVE  /\ stod(text) \in Rounded(stod(original), PRICE_PRECISION)
         /\ text = Printed(stod(text))
         /\ ReadPrice(stod(text)) = {text}
<1>1. PICK w \in Rounded(stod(original), PRICE_PRECISION) : text = Printed(w)
  BY DEF IInv
<1>2. Normal(stod(original))
  BY TextIsRead DEF IInv
<1>3. Normal(w) /\ NumDigits(w.m) <= PRICE_PRECISION
  BY <1>2, RoundedFacts
<1>4. stod(text) = w
  BY <1>1, <1>3, PrintedIsReadBack
<1>5. Rounded(w, PRICE_PRECISION) = {w}
  <2>1. \A u \in Rounded(w, PRICE_PRECISION) : u = w
    BY <1>3, RoundedFacts
  <2>2. w \in Rounded(w, PRICE_PRECISION)
    <3>1. NumDigits(w.m) - PRICE_PRECISION <= 0
      <4>1. NumDigits(w.m) \in Nat /\ PRICE_PRECISION \in Nat
        BY <1>3, DigitsOf, LimitFacts DEF Normal
      <4> QED
        BY <1>3, <4>1
    <3> QED
      BY <3>1 DEF Rounded
  <2> QED
    BY <2>1, <2>2
<1>6. ReadPrice(w) = {text}
  BY <1>1, <1>5 DEF ReadPrice
<1> QED
  BY <1>1, <1>4, <1>6

LEMMA InitIInv == Init => IInv
BY DEF Init, IInv

LEMMA NextIInv ==
  ASSUME IInv, [Next]_vars
  PROVE  IInv'
<1>1. CASE CompressAndInflate
  <2>1. text' \in ReadPrice(stod(text)) /\ inflated' = TRUE /\ original' = original
    BY <1>1 DEF CompressAndInflate
  <2>2. \E w \in Rounded(stod(original), PRICE_PRECISION) : text' = Printed(w)
    <3>1. CASE inflated
      <4>1. text' = text
        BY <2>1, <3>1, InflatedIsRead
      <4> QED
        BY <3>1, <4>1 DEF IInv
    <3>2. CASE ~inflated
      BY <2>1, <3>2 DEF IInv, ReadPrice
    <3> QED
      BY <3>1, <3>2
  <2> QED
    BY <2>1, <2>2 DEF IInv
<1>2. CASE UNCHANGED vars
  BY <1>2 DEF IInv, vars
<1> QED
  BY <1>1, <1>2 DEF Next

\* The text in an inflated file is always the first one read, rounded and printed once,
\* however often it went through the program.
THEOREM InvHolds == Spec => []IInv
<1>1. Init => IInv
  BY InitIInv
<1>2. IInv /\ [Next]_vars => IInv'
  BY NextIInv
<1> QED
  BY <1>1, <1>2, PTL DEF Spec

\* A price in the form in which prices are printed comes back as it was.
THEOREM CanonicalIsKept == Spec => []CanonicalKept
<1>1. ASSUME IInv PROVE CanonicalKept
  <2>1. SUFFICES ASSUME Canonical(original), inflated PROVE text = original
    BY <1>1 DEF CanonicalKept, IInv
  <2>2. original \in Texts
    BY <1>1 DEF IInv
  <2>3. Printed(stod(original)) = original /\ NumDigits(stod(original).m) <= PRICE_PRECISION
    BY <2>1, <2>2, CanonicalIsPrinted
  <2>4. Normal(stod(original))
    BY <2>2, TextIsRead
  <2>5. PICK w \in Rounded(stod(original), PRICE_PRECISION) : text = Printed(w)
    BY <1>1, <2>1 DEF IInv
  <2>6. w = stod(original)
    BY <2>3, <2>4, RoundedFacts
  <2> QED
    BY <2>3, <2>5, <2>6
<1> QED
  BY <1>1, InvHolds, PTL

\* The text in an inflated file is not changed by compressing and inflating that file.
THEOREM InflatedIsStable == Spec => StableOnceInflated
<1>1. ASSUME IInv, [Next]_vars PROVE [inflated => text' = text]_vars
  <2>1. CASE CompressAndInflate
    <3>1. SUFFICES ASSUME inflated PROVE text' = text
      OBVIOUS
    <3>2. text' \in ReadPrice(stod(text))
      BY <2>1 DEF CompressAndInflate
    <3> QED
      BY <1>1, <3>1, <3>2, InflatedIsRead
  <2>2. CASE UNCHANGED vars
    BY <2>2
  <2> QED
    BY <1>1, <2>1, <2>2 DEF Next
<1> QED
  BY <1>1, InvHolds, PTL DEF Spec, StableOnceInflated

\* A number rounded to n units is half a unit away, in units of the last decimal.
LEMMA RoundedDistance ==
  ASSUME NEW v, Normal(v), v.k + MaxDecimals \in Nat, NEW drop \in Nat \ {0},
         NEW n \in Nat, n <= Limit, HalfUnit(v, n, drop)
  PROVE  2 * Distance(Decimal(n, v.k + drop), v) <= Ten[drop + v.k + MaxDecimals]
<1> DEFINE K == v.k + MaxDecimals
           w == Decimal(n, v.k + drop)
           x == Ten[K]
           u == Ten[drop]
<1>1. MaxDecimals \in Nat /\ MaxDigits \in Nat /\ K \in Nat /\ v.k \in Int /\ v.m \in Nat
      /\ v.k + drop \in Int
  BY BoundsAssumption, LimitFacts DEF Normal
<1>2. /\ x \in Nat \ {0} /\ u \in Nat \ {0}
      /\ Ten[drop + K] = u * x /\ drop + K = drop + v.k + MaxDecimals
  <2>1. Ten[drop + K] = Ten[drop] * Ten[K]
    BY <1>1, TenAdd
  <2> QED
    BY <1>1, <2>1, TenSteps
<1>3. Scaled(v) = v.m * x
  BY DEF Scaled
<1>4. Scaled(w) = (n * u) * x
  <2>1. CASE n = 0
    <3>1. w = [m |-> 0, k |-> 0]
      BY <2>1 DEF Decimal
    <3>2. Scaled(w) = 0 * Ten[MaxDecimals] /\ Ten[MaxDecimals] \in Nat
      BY <1>1, <3>1, TenSteps DEF Scaled
    <3>3. (n * u) * x = 0
      BY <1>2, <2>1
    <3> QED
      BY <3>2, <3>3
  <2>2. CASE n # 0
    <3> DEFINE m == w.m
    <3>1. PICK j \in 0..MaxDigits : n = m * Ten[j] /\ w.k = (v.k + drop) + j
      BY <1>1, <2>2, DecimalIsNormal
    <3>2. m \in Nat
      BY <1>1, DecimalIsNormal, LimitFacts DEF Normal
    <3> DEFINE y == Ten[j]
    <3>3. j \in Nat /\ drop + K \in Nat /\ w.k + MaxDecimals = j + (drop + K)
      BY <1>1, <3>1
    <3>4. Ten[w.k + MaxDecimals] = y * (u * x) /\ y \in Nat
      <4>1. Ten[j + (drop + K)] = Ten[j] * Ten[drop + K]
        BY <3>3, TenAdd
      <4> QED
        BY <1>2, <3>3, <4>1, TenSteps
    <3>5. Scaled(w) = m * Ten[w.k + MaxDecimals]
      BY DEF Scaled
    <3> HIDE DEF m, y, w, u, x
    <3>6. m * (y * (u * x)) = ((m * y) * u) * x
      BY <1>2, <3>2, <3>4
    <3> QED
      BY <3>1, <3>4, <3>5, <3>6 DEF y
  <2> QED
    BY <2>1, <2>2
<1> DEFINE a == n * u
           b == v.m
<1>5. a \in Nat /\ b \in Nat
  <2> HIDE DEF u
  <2> QED
    BY <1>1, <1>2
<1>6. (a >= b => 2 * (a - b) <= u) /\ (a <= b => 2 * (b - a) <= u)
  BY DEF HalfUnit
<1> HIDE DEF a, b, x, u, w
<1>7. CASE a >= b
  <2>1. a * x >= b * x /\ a * x - b * x = (a - b) * x
    BY <1>2, <1>5, <1>7
  <2>2. Distance(w, v) = (a - b) * x
    BY <1>3, <1>4, <2>1 DEF Distance, a, b
  <2>3. 2 * ((a - b) * x) = (2 * (a - b)) * x
    BY <1>2, <1>5
  <2>4. (2 * (a - b)) * x <= u * x
    BY <1>2, <1>5, <1>6, <1>7
  <2> QED
    BY <1>2, <2>2, <2>3, <2>4 DEF w
<1>8. CASE a < b
  <2>1. ~(a * x >= b * x) /\ b * x - a * x = (b - a) * x
    BY <1>2, <1>5, <1>8
  <2>2. Distance(w, v) = (b - a) * x
    BY <1>3, <1>4, <2>1 DEF Distance, a, b
  <2>3. 2 * ((b - a) * x) = (2 * (b - a)) * x
    BY <1>2, <1>5
  <2>4. (2 * (b - a)) * x <= u * x
    BY <1>2, <1>5, <1>6, <1>8
  <2> QED
    BY <1>2, <2>2, <2>3, <2>4 DEF w
<1> QED
  BY <1>5, <1>7, <1>8

\* The value of a price of no more digits than are printed is kept, and a longer one
\* is never moved by more than half a unit of the last digit printed.
THEOREM ValueIsKept == Spec => []ValueKept
<1>1. ASSUME IInv PROVE ValueKept
  <2> DEFINE v == stod(original)
             drop == NumDigits(v.m) - PRICE_PRECISION
  <2>1. Normal(v) /\ v.k + MaxDecimals \in Nat
    BY <1>1, TextIsRead DEF IInv
  <2>2. v.m \in Nat /\ v.m < Limit /\ v.k \in Int /\ MaxDecimals \in Nat
        /\ PRICE_PRECISION \in Nat
    BY <2>1, LimitFacts, BoundsAssumption DEF Normal
  <2>3. NumDigits(v.m) \in Nat
    BY <2>2, DigitsOf, LimitFacts
  <2> HIDE DEF v
  <2>4. CASE ~inflated
    <3>1. stod(text) = v
      BY <1>1, <2>4 DEF IInv, v
    <3>2. drop > 0 => 2 * Distance(v, v) <= Ten[drop + v.k + MaxDecimals]
      <4>1. SUFFICES ASSUME drop > 0
                     PROVE  2 * Distance(v, v) <= Ten[drop + v.k + MaxDecimals]
        OBVIOUS
      <4> DEFINE s == Scaled(v)
      <4>2. s \in Nat
        <5> DEFINE x == Ten[v.k + MaxDecimals]
        <5>1. x \in Nat
          BY <2>1, TenSteps
        <5> HIDE DEF x
        <5>2. v.m * x \in Nat
          BY <2>2, <5>1
        <5> QED
          BY <5>2 DEF Scaled, x
      <4>3. Distance(v, v) = s - s
        BY DEF Distance
      <4> HIDE DEF s
      <4>4. Distance(v, v) = 0
        BY <4>2, <4>3
      <4>5. drop + v.k + MaxDecimals \in Nat
        BY <2>1, <2>2, <2>3, <4>1
      <4> QED
        BY <4>4, <4>5, TenSteps
    <3> QED
      BY <2>2, <2>3, <3>1, <3>2 DEF ValueKept, Significant, v
  <2>5. CASE inflated
    <3>1. stod(text) \in Rounded(v, PRICE_PRECISION)
      BY <1>1, <2>5, InflatedIsRead DEF v
    <3>2. CASE drop <= 0
      <4>1. NumDigits(v.m) <= PRICE_PRECISION
        BY <2>2, <2>3, <3>2
      <4>2. stod(text) = v
        BY <2>1, <3>1, <4>1, RoundedFacts
      <4> QED
        BY <3>2, <4>2 DEF ValueKept, Significant, v
    <3>3. CASE ~(drop <= 0)
      <4>1. NumDigits(v.m) > PRICE_PRECISION /\ drop \in Nat \ {0}
        BY <2>2, <2>3, <3>3
      <4>2. PICK n \in Nat : /\ n <= Limit
                             /\ stod(text) = Decimal(n, v.k + drop)
                             /\ HalfUnit(v, n, drop)
        BY <2>1, <3>1, <4>1, RoundedFacts
      <4>3. 2 * Distance(stod(text), v) <= Ten[drop + v.k + MaxDecimals]
        BY <2>1, <4>1, <4>2, RoundedDistance
      <4> QED
        BY <3>3, <4>3 DEF ValueKept, Significant, v
    <3> QED
      BY <3>2, <3>3
  <2> QED
    BY <1>1, <2>4, <2>5 DEF IInv
<1> QED
  BY <1>1, InvHolds, PTL

=============================================================================
