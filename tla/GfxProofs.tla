------------------------------ MODULE GfxProofs -------------------------------
(***************************************************************************)
(* Theorems about Gfx, for every set of blocks and shapes, every width of  *)
(* usize_t and of the wire, and whatever fresh memory holds.               *)
(***************************************************************************)
EXTENDS Gfx, SequenceTheorems, WellFoundedInduction, TLAPS

\* A set of naturals that is not empty has a least element.
LEMMA LeastNatural ==
  ASSUME NEW S, S \subseteq Nat, S # {}
  PROVE  \E k \in S : \A j \in S : k <= j
<1>1. PICK k \in S : \A j \in S : << j, k >> \notin OpToRel(<, Nat)
  BY NatLessThanWellFounded, WFMin
<1>2. ASSUME NEW j \in S PROVE k <= j
  <2>1. j \in Nat /\ k \in Nat /\ ~(j < k)
    BY <1>1 DEF OpToRel
  <2> QED
    BY <2>1
<1> QED
  BY <1>2

\* A set that has 0, and with a number the next, has them all.
LEMMA EveryNatural ==
  ASSUME NEW T, 0 \in T, \A n \in Nat : n \in T => n + 1 \in T
  PROVE  \A n \in Nat : n \in T
<1> SUFFICES ASSUME Nat \ T # {} PROVE FALSE
  OBVIOUS
<1>1. PICK k \in Nat \ T : \A j \in Nat \ T : k <= j
  BY LeastNatural
<1>2. k # 0 /\ k - 1 \in Nat /\ ~(k <= k - 1) /\ (k - 1) + 1 = k
  BY <1>1
<1>3. k - 1 \in T
  BY <1>1, <1>2
<1> QED
  BY <1>1, <1>2, <1>3

(***************************************************************************)
(* Doubled is a recursive function: it has a value for every number of     *)
(* doublings.  Doubles(n, m, f) says that f has its first m.               *)
(***************************************************************************)
Doubles(n, m, f) == \A i \in 0 .. m : f[i] = IF i = 0 THEN n ELSE 2 * f[i - 1]

LEMMA DoublesExists ==
  ASSUME NEW n
  PROVE  \A m \in Nat : \E f : Doubles(n, m, f)
<1> DEFINE T == { m \in Nat : \E f : Doubles(n, m, f) }
<1>1. 0 \in T
  <2> DEFINE f == [i \in 0 .. 0 |-> n]
  <2>1. Doubles(n, 0, f)
    BY DEF Doubles
  <2> QED
    BY <2>1
<1>2. ASSUME NEW m \in Nat, m \in T PROVE m + 1 \in T
  <2>1. PICK f : Doubles(n, m, f)
    BY <1>2
  <2> DEFINE g == [i \in 0 .. m + 1 |-> IF i = m + 1 THEN 2 * f[m] ELSE f[i]]
  <2>2. g[m + 1] = 2 * f[m] /\ \A i \in 0 .. m : g[i] = f[i]
    OBVIOUS
  <2> HIDE DEF g
  <2>3. ASSUME NEW i \in 0 .. m + 1 PROVE g[i] = IF i = 0 THEN n ELSE 2 * g[i - 1]
    <3>1. CASE i = m + 1
      <4>1. i # 0 /\ i - 1 = m /\ m \in 0 .. m
        BY <3>1
      <4> QED
        BY <2>2, <3>1, <4>1
    <3>2. CASE i # m + 1
      <4>1. i \in 0 .. m /\ (i # 0 => i - 1 \in 0 .. m)
        BY <3>2
      <4> QED
        BY <2>1, <2>2, <4>1 DEF Doubles
    <3> QED
      BY <3>1, <3>2
  <2>4. Doubles(n, m + 1, g)
    BY <2>3 DEF Doubles
  <2> QED
    BY <2>4
<1> HIDE DEF T
<1>3. \A m \in Nat : m \in T
  BY <1>1, <1>2, EveryNatural
<1> QED
  BY <1>3 DEF T

LEMMA DoublesSame ==
  ASSUME NEW n, NEW m \in Nat, NEW k \in Nat, m <= k, NEW f, NEW g,
         Doubles(n, m, f), Doubles(n, k, g)
  PROVE  f[m] = g[m]
<1> DEFINE T == { i \in Nat : i \in 0 .. m => f[i] = g[i] }
<1>1. 0 \in T
  BY DEF Doubles
<1>2. ASSUME NEW i \in Nat, i \in T PROVE i + 1 \in T
  <2> SUFFICES ASSUME i + 1 \in 0 .. m PROVE f[i + 1] = g[i + 1]
    OBVIOUS
  <2>1. i \in 0 .. m /\ i + 1 \in 0 .. k /\ i + 1 # 0 /\ (i + 1) - 1 = i
    OBVIOUS
  <2>2. f[i + 1] = 2 * f[i] /\ g[i + 1] = 2 * g[i]
    BY <2>1 DEF Doubles
  <2>3. f[i] = g[i]
    BY <1>2, <2>1
  <2> QED
    BY <2>2, <2>3
<1> HIDE DEF T
<1>3. \A i \in Nat : i \in T
  BY <1>1, <1>2, EveryNatural
<1> QED
  BY <1>3 DEF T

LEMMA DoubledIs ==
  ASSUME NEW n \in Nat
  PROVE  /\ Doubled(n, 0) = n
         /\ \A k \in Nat : Doubled(n, k) \in Nat /\ Doubled(n, k + 1) = 2 * Doubled(n, k)
<1> DEFINE D(d) == d = [i \in Nat |-> IF i = 0 THEN n ELSE 2 * d[i - 1]]
           F(m) == CHOOSE f : Doubles(n, m, f)
           e == [m \in Nat |-> F(m)[m]]
<1>1. \A m \in Nat : Doubles(n, m, F(m))
  BY DoublesExists
<1> HIDE DEF F
<1>2. ASSUME NEW m \in Nat PROVE e[m] = IF m = 0 THEN n ELSE 2 * e[m - 1]
  <2>1. F(m)[m] = IF m = 0 THEN n ELSE 2 * F(m)[m - 1]
    BY <1>1 DEF Doubles
  <2>2. ASSUME m # 0 PROVE F(m)[m - 1] = F(m - 1)[m - 1]
    <3>1. m - 1 \in Nat /\ m - 1 <= m
      BY <2>2
    <3>2. Doubles(n, m - 1, F(m - 1)) /\ Doubles(n, m, F(m))
      BY <1>1, <3>1
    <3> HIDE DEF e
    <3> QED
      BY <3>1, <3>2, DoublesSame
  <2>3. e[m] = F(m)[m] /\ (m # 0 => e[m - 1] = F(m - 1)[m - 1])
    OBVIOUS
  <2> QED
    BY <2>1, <2>2, <2>3
<1>3. e = [m \in Nat |-> e[m]]
  OBVIOUS
<1> HIDE DEF e
<1>4. D(e)
  BY <1>2, <1>3
<1> DEFINE c == CHOOSE d : D(d)
<1>5. D(c)
  BY <1>4
<1>6. \A k : Doubled(n, k) = c[k]
  BY DEF Doubled
<1> HIDE DEF c
<1>7. \A i \in Nat : c[i] = IF i = 0 THEN n ELSE 2 * c[i - 1]
  BY <1>5
<1> HIDE DEF D
<1>8. c[0] = n /\ \A k \in Nat : c[k + 1] = 2 * c[k]
  <2>1. \A k \in Nat : k + 1 \in Nat /\ k + 1 # 0 /\ (k + 1) - 1 = k
    OBVIOUS
  <2> QED
    BY <1>7, <2>1
<1> DEFINE T == { k \in Nat : c[k] \in Nat }
<1>9. \A k \in Nat : k \in T
  <2>1. 0 \in T
    BY <1>8
  <2>2. ASSUME NEW k \in Nat, k \in T PROVE k + 1 \in T
    BY <1>8, <2>2
  <2> HIDE DEF T
  <2> QED
    BY <2>1, <2>2, EveryNatural
<1> QED
  BY <1>6, <1>8, <1>9

\* Arithmetic modulo w: the result is in range, and a value in range stays.
LEMMA Modulo ==
  ASSUME NEW n \in Nat, NEW w \in Nat, 0 < w
  PROVE  /\ n % w \in 0 .. w - 1
         /\ n < w => n % w = n
  OBVIOUS

\* What division leaves is unique, and goes with sums, products and cuts.
LEMMA Quotient ==
  ASSUME NEW n \in Nat, NEW w \in Nat, 0 < w
  PROVE  n \div w \in Nat /\ n = w * (n \div w) + (n % w)
  OBVIOUS

LEMMA Multiple ==
  ASSUME NEW d \in Int, NEW w \in Nat, 0 < w, -w < w * d, w * d < w
  PROVE  d = 0
<1>1. CASE d >= 1
  <2>1. w * d >= w * 1
    BY <1>1
  <2> QED
    BY <2>1
<1>2. CASE d <= -1
  <2>1. w * d <= w * (-1)
    BY <1>2
  <2> QED
    BY <2>1
<1> QED
  BY <1>1, <1>2

LEMMA Remainder ==
  ASSUME NEW n \in Nat, NEW w \in Nat, 0 < w,
         NEW q \in Nat, NEW r \in 0 .. w - 1, n = w * q + r
  PROVE  n % w = r
<1> DEFINE e == n \div w
           m == n % w
<1>1. e \in Nat /\ m \in 0 .. w - 1 /\ n = w * e + m
  BY Quotient
<1> HIDE DEF e, m
<1>2. w * q - w * e = m - r
  BY <1>1
<1>3. w * (q - e) = w * q - w * e
  BY <1>1
<1>4. q - e \in Int /\ -w < w * (q - e) /\ w * (q - e) < w
  BY <1>1, <1>2, <1>3
<1>5. q - e = 0
  BY <1>4, Multiple
<1>6. m = r
  BY <1>1, <1>2, <1>3, <1>5
<1> QED
  BY <1>6 DEF m

LEMMA AddRemainder ==
  ASSUME NEW a \in Nat, NEW b \in Nat, NEW w \in Nat, 0 < w
  PROVE  (a + b) % w = ((a % w) + (b % w)) % w
<1> DEFINE p == a \div w
           q == b \div w
           x == a % w
           y == b % w
           e == (x + y) \div w
           r == (x + y) % w
<1>1. p \in Nat /\ q \in Nat /\ x \in Nat /\ y \in Nat /\ a = w * p + x /\ b = w * q + y
  BY Quotient
<1> HIDE DEF p, q, x, y
<1>2. e \in Nat /\ r \in 0 .. w - 1 /\ x + y = w * e + r
  BY <1>1, Quotient
<1> HIDE DEF e, r
<1> DEFINE n == a + b
           d == p + q + e
<1>3. n \in Nat /\ d \in Nat /\ n = w * d + r
  BY <1>1, <1>2
<1> HIDE DEF n, d
<1>4. n % w = r
  BY <1>2, <1>3, Remainder
<1> QED
  BY <1>4 DEF n, r, x, y

LEMMA TimesRemainder ==
  ASSUME NEW a \in Nat, NEW b \in Nat, NEW w \in Nat, 0 < w
  PROVE  (a * b) % w = ((a % w) * (b % w)) % w
<1> DEFINE p == a \div w
           q == b \div w
           x == a % w
           y == b % w
           e == (x * y) \div w
           r == (x * y) % w
<1>1. p \in Nat /\ q \in Nat /\ x \in Nat /\ y \in Nat /\ a = w * p + x /\ b = w * q + y
  BY Quotient
<1> HIDE DEF p, q, x, y
<1>2. x * y \in Nat /\ a * b \in Nat
  BY <1>1
<1>3. e \in Nat /\ r \in 0 .. w - 1 /\ x * y = w * e + r
  BY <1>2, Quotient
<1> HIDE DEF e, r
<1> DEFINE c == w * p * q + p * y + x * q + e
<1>4. c \in Nat
  BY <1>1, <1>3
<1>5. a * b = w * c + r
  <2>1. a * b = (w * p + x) * (w * q + y)
    BY <1>1
  <2>2. (w * p + x) * (w * q + y) = w * (w * p * q + p * y + x * q) + x * y
    BY <1>1
  <2>3. w * c = w * (w * p * q + p * y + x * q) + w * e
    BY <1>1, <1>3
  <2> QED
    BY <1>1, <1>2, <1>3, <1>4, <2>1, <2>2, <2>3
<1> DEFINE n == a * b
<1>6. n \in Nat /\ n = w * c + r
  BY <1>2, <1>5
<1> HIDE DEF c, n
<1>7. n % w = r
  BY <1>3, <1>4, <1>6, Remainder
<1> QED
  BY <1>7 DEF n, r, x, y

\* Cutting to a multiple of w first changes nothing.
LEMMA CutRemainder ==
  ASSUME NEW n \in Nat, NEW w \in Nat, 0 < w, NEW v \in Nat, 0 < v, v % w = 0
  PROVE  (n % v) % w = n % w
<1> DEFINE p == n \div v
           x == n % v
           k == v \div w
           e == x \div w
           r == x % w
<1>1. p \in Nat /\ x \in Nat /\ n = v * p + x
  BY Quotient
<1>2. k \in Nat /\ v = w * k
  BY Quotient
<1> HIDE DEF p, x, k
<1>3. e \in Nat /\ r \in 0 .. w - 1 /\ x = w * e + r
  BY <1>1, Quotient
<1> HIDE DEF e, r
<1>4. v * p = w * (k * p)
  BY <1>1, <1>2
<1>5. k * p + e \in Nat
  BY <1>1, <1>2, <1>3
<1>6. n = w * (k * p + e) + r
  BY <1>1, <1>2, <1>3, <1>4
<1>7. n % w = r
  BY <1>3, <1>5, <1>6, Remainder
<1> QED
  BY <1>7 DEF r, x

\* The numbers an int32_t tells apart.
WireRange == 2 * (WireMax + 1)

LEMMA WordFacts ==
  /\ Word \in Nat /\ WireMax \in Nat /\ 2 * (WireMax + 1) <= Word
  /\ WireRange \in Nat /\ WireMax < WireRange /\ WireRange <= Word /\ Word % WireRange = 0
  /\ 0 < Word /\ 0 < WireRange
<1>1. Word \in Nat
  BY DoubledIs, GfxAssumption DEF Word
<1> QED
  BY <1>1, GfxAssumption DEF WireRange

LEMMA ToInt32Facts ==
  ASSUME NEW n \in Nat
  PROVE  /\ ToInt32(n) \in Int /\ ToInt32(n) <= WireMax /\ ToInt32(n) <= n
         /\ n <= WireMax => ToInt32(n) = n
         /\ ToInt32(n) >= 0 \/ n % WireRange <= WireMax => ToInt32(n) = n % WireRange
<1> DEFINE w == WireRange
           r == n % w
<1>1. w \in Nat /\ 0 < w /\ WireMax \in Nat /\ WireMax < w
  BY WordFacts
<1>2. ToInt32(n) = IF r <= WireMax THEN r ELSE r - w
  BY DEF ToInt32, WireRange
<1> HIDE DEF w
<1>3. r \in 0 .. w - 1 /\ (n < w => r = n)
  BY <1>1, Modulo
<1>4. r <= n
  BY <1>1, <1>3
<1> HIDE DEF r
<1>5. /\ ToInt32(n) \in Int /\ ToInt32(n) <= WireMax /\ ToInt32(n) <= n
      /\ n <= WireMax => ToInt32(n) = n
      /\ ToInt32(n) >= 0 \/ r <= WireMax => ToInt32(n) = r
  BY <1>1, <1>2, <1>3, <1>4
<1> QED
  BY <1>5 DEF r, w

LEMMA RequestFacts ==
  ASSUME NEW s \in Shapes
  PROVE  /\ s.width \in Nat /\ s.height \in Nat /\ s.stride \in Nat
         /\ Bytes[s] = s.stride * s.height /\ Bytes[s] \in Nat
         /\ WireBytes(s) \in Int
         /\ Bytes[s] % Word \in 0 .. Word - 1
         /\ Bytes[s] < Word => Bytes[s] % Word = Bytes[s]
<1>1. Word \in Nat /\ 0 < Word
  BY WordFacts
<1>2. s.width \in Nat /\ s.height \in Nat /\ s.stride \in Nat
  BY <1>1, GfxAssumption
<1>3. Bytes[s] = s.stride * s.height
  BY DEF Bytes
<1>4. s.stride * s.height \in Nat
  BY <1>2
<1>5. WireBytes(s) \in Int
  <2> DEFINE a == ToInt32(s.stride)
             b == ToInt32(s.height)
  <2>1. a \in Int /\ b \in Int
    BY <1>2, ToInt32Facts
  <2> HIDE DEF a, b
  <2>2. a * b \in Int
    BY <2>1
  <2> QED
    BY <2>2 DEF a, b, WireBytes
<1> HIDE DEF Bytes
<1> QED
  BY <1>1, <1>2, <1>3, <1>4, <1>5, Modulo

\* A buffer the compositor takes has as many bytes for it as the client counts,
\* up to whole ranges of the wire.
LEMMA AcceptedBytes ==
  ASSUME NEW s \in Shapes, Acceptable(s)
  PROVE  /\ WireBytes(s) \in 1 .. WireMax
         /\ (Bytes[s] % Word) % WireRange = WireBytes(s)
<1> DEFINE a == ToInt32(s.stride)
           b == ToInt32(s.height)
           x == s.stride % WireRange
           y == s.height % WireRange
<1>1. /\ WireRange \in Nat /\ 0 < WireRange /\ WireMax < WireRange /\ WireMax \in Nat
      /\ Word \in Nat /\ 0 < Word /\ Word % WireRange = 0
  BY WordFacts
<1>2. s.stride \in Nat /\ s.height \in Nat /\ Bytes[s] = s.stride * s.height /\ Bytes[s] \in Nat
  BY RequestFacts
<1>3. ToInt32(s.width) \in Int /\ a \in Int /\ b \in Int
  BY RequestFacts, ToInt32Facts
<1>4. ToInt32(s.width) > 0 /\ b > 0 /\ ToInt32(s.width) <= a /\ WireBytes(s) <= WireMax
  BY DEF Acceptable
<1>5. a > 0 /\ b > 0
  BY <1>3, <1>4
<1>6. a = x /\ b = y
  BY <1>2, <1>3, <1>5, ToInt32Facts
<1>7. WireBytes(s) = x * y
  BY <1>6 DEF WireBytes
<1>8. (Bytes[s] % Word) % WireRange = Bytes[s] % WireRange
  BY <1>1, <1>2, CutRemainder
<1>9. Bytes[s] % WireRange = (x * y) % WireRange
  <2>1. (s.stride * s.height) % WireRange = (x * y) % WireRange
    BY <1>1, <1>2, TimesRemainder, Zenon
  <2> QED
    BY <1>2, <2>1
<1> HIDE DEF x, y, a, b
<1>10. x * y \in Nat /\ x * y >= 1
  BY <1>3, <1>5, <1>6
<1> DEFINE m == x * y
<1>11. m \in Nat /\ m >= 1 /\ m <= WireMax
  BY <1>4, <1>7, <1>10
<1> HIDE DEF m
<1>12. m % WireRange = m
  BY <1>1, <1>11, Modulo
<1>13. m = x * y
  BY DEF m
<1> QED
  BY <1>1, <1>7, <1>8, <1>9, <1>11, <1>12, <1>13

\* The compositor takes a proper shape, whole.
LEMMA ProperAccepted ==
  ASSUME NEW s \in Shapes, Proper(s)
  PROVE  Acceptable(s) /\ WireBytes(s) = Bytes[s]
<1>1. /\ s.width \in Nat /\ s.height \in Nat /\ s.stride \in Nat
      /\ Bytes[s] = s.stride * s.height
  BY RequestFacts
<1>2. s.width \in 1 .. s.stride /\ s.height >= 1 /\ Bytes[s] <= WireMax
  BY DEF Proper
<1>3. WireMax \in Nat
  BY WordFacts
<1>4. s.stride <= s.stride * s.height
  <2>1. s.stride * 1 <= s.stride * s.height
    BY <1>1, <1>2
  <2> QED
    BY <1>1, <2>1
<1>5. s.height <= s.stride * s.height
  <2>1. s.stride >= 1
    BY <1>1, <1>2
  <2>2. 1 * s.height <= s.stride * s.height
    BY <1>1, <2>1
  <2> QED
    BY <1>1, <2>2
<1> DEFINE m == s.stride * s.height
<1>6. m \in Nat /\ m <= WireMax /\ s.stride <= m /\ s.height <= m
  BY <1>1, <1>2, <1>4, <1>5
<1> HIDE DEF m
<1>7. /\ ToInt32(s.width) = s.width /\ ToInt32(s.height) = s.height
      /\ ToInt32(s.stride) = s.stride
  <2>1. s.width <= WireMax /\ s.height <= WireMax /\ s.stride <= WireMax
    BY <1>1, <1>2, <1>3, <1>6
  <2> QED
    BY <1>1, <2>1, ToInt32Facts
<1>8. WireBytes(s) = Bytes[s]
  BY <1>1, <1>7 DEF WireBytes
<1> QED
  BY <1>1, <1>2, <1>7, <1>8 DEF Acceptable

\* What the doublings give: enough for the request, and a usize_t.
LEMMA NewCapacityFacts ==
  ASSUME NEW req, Enough(req) # {}, pool.capacity \in Nat
  PROVE  NewCapacity(req) \in 0 .. Word - 1 /\ NewCapacity(req) >= End(req)
<1> DEFINE least == CHOOSE k \in Enough(req) : \A j \in Enough(req) : k <= j
<1>1. Enough(req) \subseteq Nat
  BY GfxAssumption DEF Enough
<1>2. least \in Enough(req)
  BY <1>1, LeastNatural
<1>3. NewCapacity(req) = Capacity(least)
  BY DEF NewCapacity
<1> HIDE DEF least
<1>4. Capacity(least) >= End(req)
  BY <1>2 DEF Enough
<1>5. Capacity(least) \in 0 .. Word - 1
  <2>1. Word \in Nat /\ 0 < Word
    BY WordFacts
  <2>2. Doubled(pool.capacity, least) \in Nat
    BY <1>1, <1>2, DoubledIs
  <2> QED
    BY <2>1, <2>2, Modulo DEF Capacity
<1> QED
  BY <1>3, <1>4, <1>5

-------------------------------------------------------------------------------

\* Taking an element out of a sequence, or putting one in, leaves a sequence.
LEMMA RemoveFirstType ==
  ASSUME NEW S, NEW s \in Seq(S), NEW e
  PROVE  RemoveFirst(s, e) \in Seq(S)
<1> DEFINE I == { i \in 1 .. Len(s) : s[i] = e }
<1>1. CASE I = {}
  BY <1>1 DEF RemoveFirst
<1>2. CASE I # {}
  <2>1. PICK k \in I : \A j \in I : k <= j
    <3>1. I \subseteq Nat
      OBVIOUS
    <3> QED
      BY <1>2, <3>1, LeastNatural
  <2>2. SelectInSeq(s, LAMBDA v : v = e) = Min(I)
    BY <1>2 DEF SelectInSeq
  <2>3. Min(I) \in I
    BY <2>1 DEF Min
  <2>4. RemoveFirst(s, e) = RemoveAt(s, Min(I))
    BY <1>2, <2>2 DEF RemoveFirst
  <2> DEFINE i == Min(I)
  <2>5. i \in 1 .. Len(s)
    BY <2>3
  <2> HIDE DEF i
  <2>6. SubSeq(s, 1, i - 1) \in Seq(S)
    <3>1. \A j \in 1 .. i - 1 : s[j] \in S
      BY <2>5
    <3> QED
      BY <2>5, <3>1, SubSeqProperties
  <2>7. SubSeq(s, i + 1, Len(s)) \in Seq(S)
    <3>1. \A j \in i + 1 .. Len(s) : s[j] \in S
      BY <2>5
    <3> QED
      BY <2>5, <3>1, SubSeqProperties
  <2> QED
    BY <2>4, <2>6, <2>7, ConcatProperties DEF RemoveAt, i
<1> QED
  BY <1>1, <1>2

LEMMA AppendOnceType ==
  ASSUME NEW S, NEW s \in Seq(S), NEW e \in S
  PROVE  AppendOnce(s, e) \in Seq(S)
  BY DEF AppendOnce

-------------------------------------------------------------------------------
(***************************************************************************)
(* The list operations map memories to memories.                           *)
(***************************************************************************)
LEMMA ListPushType ==
  ASSUME NEW m \in Memory, NEW l \in Lists, NEW b \in Links
  PROVE  ListPush(m, l, b) \in Memory
  BY PointersDistinct DEF ListPush, ListInsertAfter, Memory, Ptr, Fault

LEMMA ListRemoveType ==
  ASSUME NEW m \in Memory, NEW l \in Lists, NEW b \in Links
  PROVE  ListRemove(m, l, b) \in Memory
  BY PointersDistinct DEF ListRemove, Memory, Ptr, Fault

LEMMA ListPopFrontType ==
  ASSUME NEW m \in Memory, NEW l \in Lists
  PROVE  ListPopFront(m, l) \in Memory /\ ListFront(m, l) \in Links \union {NULL}
<1>1. m.head[l] \in Links \union {NULL}
  BY DEF Memory
<1> QED
  BY <1>1, ListRemoveType DEF ListPopFront, ListFront

LEMMA ZeroedType ==
  ASSUME NEW m \in Memory, NEW l \in Lists
  PROVE  Zeroed(m, l) \in Memory /\ Fault(m) \in Memory
  BY DEF Zeroed, Fault, Memory

LEMMA FollowType ==
  ASSUME NEW f \in [Links -> Ptr], NEW p
  PROVE  Follow(f, p) \in Ptr
  BY DEF Follow, Ptr

-------------------------------------------------------------------------------
(***************************************************************************)
(* Type correctness.                                                       *)
(***************************************************************************)
LEMMA ListNames == Free \in Lists /\ Chain \in Lists
  BY GfxAssumption

\* The values of wl.
WlPool == [ ok : BOOLEAN, size : Nat,
            offset : [Blocks -> Int \union {None}], users : SUBSET Blocks ]

LEMMA InitTypeOK == Init => TypeOK
<1> SUFFICES ASSUME Init PROVE TypeOK
  OBVIOUS
<1>1. Word \in Nat /\ WireMax \in Nat /\ PoolSize \in 0 .. Word - 1
  BY WordFacts, GfxAssumption
<1>2. mem \in Memory
  BY DEF Init, Memory, Ptr, Blocks
<1>3. pool \in [alive : BOOLEAN, used : 0 .. Word - 1, capacity : 0 .. Word - 1]
  BY <1>1 DEF Init, InitPool
<1>4. wl \in WlPool
  BY <1>1 DEF Init, WlPool
<1>5. call \in [op : Ops, link : Ptr, next : Ptr, shape : Shapes \union {None}]
  BY DEF Init, Idle, Ops, Ptr
<1>6. swapchain \in [alive : BOOLEAN, shape : Shapes \union {None}]
  BY DEF Init
<1>7. shape \in [Blocks -> Shapes \union {None}] /\ busy \in [Blocks -> BOOLEAN]
  BY DEF Init
<1>8. held \subseteq Blocks /\ dropped \subseteq Blocks /\ tainted \in BOOLEAN
  BY DEF Init
<1>9. freeSeq \in Seq(Blocks) /\ chainSeq \in Seq(Blocks)
  BY DEF Init
<1> QED
  BY <1>2, <1>3, <1>4, <1>5, <1>6, <1>7, <1>8, <1>9 DEF TypeOK, WlPool

\* The compositor's operations keep its side in its type.
LEMMA WlPoolResizeType ==
  ASSUME NEW w \in WlPool, NEW n \in Nat
  PROVE  WlPoolResize(w, ToInt32(n)) \in WlPool
<1> DEFINE i == ToInt32(n)
<1>1. i \in Int
  BY ToInt32Facts
<1> HIDE DEF i
<1>2. CASE w.ok /\ i >= w.size
  <2>1. i \in Nat
    BY <1>1, <1>2 DEF WlPool
  <2> QED
    BY <1>2, <2>1 DEF WlPoolResize, WlPool, i
<1>3. CASE ~(w.ok /\ i >= w.size)
  BY <1>3 DEF WlPoolResize, WlPool, i
<1> QED
  BY <1>2, <1>3

LEMMA WlBufferTypes ==
  ASSUME NEW w \in WlPool, NEW b \in Blocks, NEW n \in Nat, NEW s
  PROVE  /\ WlCreateBuffer(w, b, ToInt32(n), s) \in WlPool
         /\ WlDestroyBuffer(w, b) \in WlPool
<1> DEFINE i == ToInt32(n)
<1>1. i \in Int
  BY ToInt32Facts
<1> HIDE DEF i
<1>2. WlCreateBuffer(w, b, i, s) \in WlPool
  BY <1>1 DEF WlCreateBuffer, WlPool
<1>3. WlDestroyBuffer(w, b) \in WlPool
  BY DEF WlDestroyBuffer, WlPool
<1> QED
  BY <1>2, <1>3 DEF i

\* A step of create_buffer, on a pool that has grown or not.
LEMMA CreateBufferType ==
  ASSUME TypeOK, call.shape \in Shapes,
         NEW w \in WlPool,
         NEW c \in 0 .. Word - 1, CreateBuffer(w, c)
  PROVE  TypeOK'
<1>1. PICK b \in Blocks, n \in FreshPtr, p \in FreshPtr :
        /\ shape[b] = None
        /\ wl' = WlCreateBuffer(w, b, ToInt32(pool.used), call.shape)
        /\ pool' = [pool EXCEPT !.used = End(Request), !.capacity = c]
        /\ shape' = [shape EXCEPT ![b] = call.shape]
        /\ busy' = [busy EXCEPT ![b] = FALSE]
        /\ mem' = [mem EXCEPT !.next[b] = n, !.prev[b] = p]
        /\ held' = held \union {b}
        /\ call' = Idle
        /\ UNCHANGED << swapchain, freeSeq, chainSeq, dropped, tainted >>
  BY DEF CreateBuffer
<1>2. wl' \in WlPool
  BY <1>1, WlBufferTypes DEF TypeOK, WlPool
<1>3. End(Request) \in 0 .. Word - 1
  <2>1. Request \in Nat /\ pool.used \in Nat /\ Word \in Nat /\ 0 < Word
    BY RequestFacts, WordFacts DEF TypeOK, Request
  <2> QED
    BY <2>1, Modulo DEF End
<1>4. pool' \in [alive : BOOLEAN, used : 0 .. Word - 1, capacity : 0 .. Word - 1]
  BY <1>1, <1>3 DEF TypeOK
<1>5. mem' \in Memory
  BY <1>1, GfxAssumption DEF TypeOK, Memory, Ptr, Blocks
<1> QED
  BY <1>1, <1>2, <1>4, <1>5 DEF TypeOK, Idle, Ops, Ptr, WlPool

\* A step of the search of shm_pool_allocate, and of what follows it.
LEMMA SearchTypeOK ==
  ASSUME TypeOK, Search, call.op = "search" => call.shape \in Shapes
  PROVE  TypeOK'
<1>1. CASE AllocateSkip
  BY <1>1, FollowType DEF AllocateSkip, TypeOK, history, Memory
<1>2. CASE AllocateReuse
  <2>1. mem' \in Memory /\ freeSeq' \in Seq(Blocks)
    BY <1>2, ListRemoveType, RemoveFirstType, ListNames DEF AllocateReuse, TypeOK, Blocks
  <2> QED
    BY <1>2, <2>1 DEF AllocateReuse, TypeOK, Idle, Ops, Ptr
<1>3. CASE AllocateInPlace
  <2>1. wl \in WlPool /\ pool.capacity \in 0 .. Word - 1 /\ call.shape \in Shapes
    BY <1>3 DEF AllocateInPlace, Missed, TypeOK, WlPool
  <2> QED
    BY <1>3, <2>1, CreateBufferType DEF AllocateInPlace
<1>4. CASE AllocateGrow
  <2> DEFINE new == NewCapacity(Request)
             w   == WlPoolResize(wl, ToInt32(new))
  <2>1. new \in 0 .. Word - 1 /\ call.shape \in Shapes
    BY <1>4, NewCapacityFacts DEF AllocateGrow, Missed, TypeOK
  <2>2. new \in Nat
    BY <2>1, WordFacts
  <2> HIDE DEF new
  <2>3. w \in WlPool
    BY <2>2, WlPoolResizeType DEF TypeOK, WlPool
  <2>4. CreateBuffer(w, new)
    BY <1>4 DEF AllocateGrow, new
  <2> HIDE DEF w
  <2> QED
    BY <2>1, <2>3, <2>4, CreateBufferType
<1>5. CASE AllocateGrowFails
  BY <1>5 DEF AllocateGrowFails, TypeOK, Idle, Ops, Ptr, history
<1>6. CASE AllocateBufferFails
  <2> DEFINE new == NewCapacity(Request)
             w   == WlPoolResize(wl, ToInt32(new))
  <2>1. CASE UNCHANGED << pool, wl >>
    BY <1>6, <2>1 DEF AllocateBufferFails, TypeOK, Idle, Ops, Ptr, history
  <2>2. CASE Enough(Request) # {} /\ pool' = [pool EXCEPT !.capacity = new] /\ wl' = w
    <3>1. new \in 0 .. Word - 1
      BY <2>2, NewCapacityFacts DEF TypeOK
    <3>2. new \in Nat
      BY <3>1, WordFacts
    <3> HIDE DEF new
    <3>3. w \in WlPool
      BY <3>2, WlPoolResizeType DEF TypeOK, WlPool
    <3> HIDE DEF w
    <3> QED
      BY <1>6, <2>2, <3>1, <3>3
         DEF AllocateBufferFails, TypeOK, Idle, Ops, Ptr, history, WlPool
  <2> QED
    BY <1>6, <2>1, <2>2 DEF AllocateBufferFails
<1>7. CASE AllocateSpins
  BY <1>7 DEF AllocateSpins, TypeOK, Ops, history
<1> QED
  BY <1>1, <1>2, <1>3, <1>4, <1>5, <1>6, <1>7 DEF Search

-------------------------------------------------------------------------------
(***************************************************************************)
(* The inductive invariant of the pool.                                    *)
(***************************************************************************)
LiveBuffers == { b \in Blocks : wl.offset[b] # None }
EndOf(b) == wl.offset[b] + WireBytes(shape[b])

\* A search belongs to a pool that is alive and looks for a shape.
SearchOK == call.op = "search" => pool.alive /\ call.shape \in Shapes

\* Every buffer the compositor has belongs to an allocated block.
LiveAllocated == \A b \in LiveBuffers : shape[b] # None

\* Where the client's next buffer begins, as the compositor sees it.
Drawn == pool.used % WireRange

\* Until a request is refused, the live buffers lie apart below the int32_t that
\* pool_used is cut to, and that inside the compositor's pool.  (It need not be
\* pool_used: a stride past int32_t may arrive as a small one.)  The size of the
\* pool is the client's capacity unless a doubling left int32_t; then a later
\* doubling may wrap to a size that is accepted, so that only "not smaller than
\* before" and "not larger than the client's" are left.
Carved ==
  wl.ok =>
    /\ wl.size <= WireMax
    /\ \A a, b \in LiveBuffers :
         a # b => EndOf(a) <= wl.offset[b] \/ EndOf(b) <= wl.offset[a]
    /\ \A b \in LiveBuffers : EndOf(b) <= wl.size
    /\ pool.alive =>
         /\ Drawn <= wl.size /\ wl.size <= pool.capacity
         /\ \A b \in LiveBuffers : EndOf(b) <= Drawn
         /\ pool.capacity <= WireMax => wl.size = pool.capacity

\* pool_used stays inside the mapping.
UsedInPool == pool.alive => pool.used <= pool.capacity

PoolInv == TypeOK /\ SearchOK /\ LiveAllocated /\ Carved /\ UsedInPool /\ RefusalCause

LEMMA InitPoolInv == Init => PoolInv
<1> SUFFICES ASSUME Init PROVE PoolInv
  OBVIOUS
<1>1. PoolSize \in Nat /\ PoolSize <= WireMax
  BY GfxAssumption
<1>2. LiveBuffers = {}
  BY DEF Init, LiveBuffers
<1>3. wl.ok /\ wl.size = PoolSize /\ pool = InitPool /\ call = Idle
  BY DEF Init
<1>4. Drawn = 0
  BY <1>3, WordFacts, Modulo DEF Drawn, InitPool
<1>5. Carved /\ UsedInPool
  BY <1>1, <1>2, <1>3, <1>4 DEF Carved, UsedInPool, InitPool
<1> QED
  BY <1>2, <1>3, <1>5, InitTypeOK
     DEF PoolInv, SearchOK, LiveAllocated, RefusalCause, Idle

\* Growing: the compositor refuses the new size only when it left int32_t, or
\* when an earlier one had, and what it accepts is no smaller than before.
LEMMA GrowPool ==
  ASSUME PoolInv, call.op = "search", NeedsGrow(Request), Enough(Request) # {},
         NEW c, c = NewCapacity(Request), NEW w, w = WlPoolResize(wl, ToInt32(c))
  PROVE  /\ c \in 0 .. Word - 1 /\ c >= End(Request) /\ c > pool.capacity
         /\ w \in WlPool /\ w.offset = wl.offset
         /\ w.ok => /\ wl.ok /\ wl.size <= w.size /\ w.size <= WireMax /\ w.size <= c
                    /\ c <= WireMax => w.size = c
         /\ ~w.ok => c > WireMax \/ \E b \in Allocated : ~Proper(shape[b])
<1>1. wl \in WlPool /\ pool.capacity \in 0 .. Word - 1 /\ pool.used \in 0 .. Word - 1
  BY DEF PoolInv, TypeOK, WlPool
<1>2. Word \in Nat /\ WireMax \in Nat /\ 2 * (WireMax + 1) <= Word
  BY WordFacts
<1>3. Request \in 0 .. Word - 1
  BY RequestFacts DEF PoolInv, SearchOK, Request
<1>4. End(Request) \in 0 .. Word - 1
  BY <1>1, <1>2, <1>3, Modulo DEF End
<1>5. c \in 0 .. Word - 1 /\ c >= End(Request)
  BY <1>1, NewCapacityFacts
<1>6. End(Request) > pool.capacity
  BY DEF NeedsGrow
<1>7. c > pool.capacity
  BY <1>1, <1>4, <1>5, <1>6
<1> DEFINE i == ToInt32(c)
<1>8. i \in Int /\ i <= WireMax /\ i <= c /\ (c <= WireMax => i = c)
  BY <1>2, <1>5, ToInt32Facts
<1>9. w \in WlPool
  BY <1>1, <1>2, <1>5, WlPoolResizeType
<1> HIDE DEF i
<1>10. w = IF wl.ok /\ i >= wl.size THEN [wl EXCEPT !.size = i] ELSE [wl EXCEPT !.ok = FALSE]
  BY DEF WlPoolResize, i
<1>11. w.offset = wl.offset
  BY <1>1, <1>10 DEF WlPool
<1>12. w.ok => wl.ok /\ i >= wl.size /\ w.size = i
  BY <1>1, <1>10 DEF WlPool
<1>13. ASSUME ~w.ok
       PROVE  c > WireMax \/ \E b \in Allocated : ~Proper(shape[b])
  <2>1. CASE wl.ok
    <3>1. ~(i >= wl.size)
      BY <1>1, <1>10, <1>13, <2>1 DEF WlPool
    <3>2. CASE pool.capacity <= WireMax
      <4>1. wl.size = pool.capacity
        BY <2>1, <3>2 DEF PoolInv, Carved, SearchOK
      <4> QED
        BY <1>1, <1>2, <1>5, <1>7, <1>8, <3>1, <4>1
    <3>3. CASE ~(pool.capacity <= WireMax)
      BY <1>1, <1>2, <1>5, <1>7, <3>3
    <3> QED
      BY <3>2, <3>3
  <2>2. CASE ~wl.ok
    BY <1>1, <1>2, <1>5, <1>7, <2>2 DEF PoolInv, RefusalCause, SearchOK
  <2> QED
    BY <2>1, <2>2
<1> QED
  BY <1>1, <1>5, <1>7, <1>8, <1>9, <1>11, <1>12, <1>13 DEF WlPool

\* Carving: the new buffer begins where pool_used was, past all the others.
LEMMA CarveBuffer ==
  ASSUME PoolInv, call.op = "search",
         NEW w \in WlPool, NEW c \in 0 .. Word - 1, c >= End(Request), c >= pool.capacity,
         w.offset = wl.offset,
         w.ok => /\ wl.ok /\ wl.size <= w.size /\ w.size <= WireMax /\ w.size <= c
                 /\ c <= WireMax => w.size = c,
         ~w.ok => c > WireMax \/ \E b \in Allocated : ~Proper(shape[b]),
         CreateBuffer(w, c)
  PROVE  PoolInv'
<1>1. PICK b \in Blocks :
        /\ shape[b] = None
        /\ wl' = WlCreateBuffer(w, b, ToInt32(pool.used), call.shape)
        /\ pool' = [pool EXCEPT !.used = End(Request), !.capacity = c]
        /\ shape' = [shape EXCEPT ![b] = call.shape]
        /\ call' = Idle
  BY DEF CreateBuffer
<1>2. TypeOK'
  BY CreateBufferType DEF PoolInv, SearchOK
<1>3. SearchOK'
  BY <1>1 DEF SearchOK, Idle
<1> DEFINE s     == call.shape
           bytes == WireBytes(s)
           i     == ToInt32(pool.used)
<1>4. call.shape \in Shapes /\ call.shape # None /\ pool.alive
  BY GfxAssumption DEF PoolInv, SearchOK
<1>5. /\ bytes \in Int /\ Request \in 0 .. Word - 1
      /\ Bytes[s] \in Nat /\ (Bytes[s] < Word => Request = Bytes[s])
      /\ Acceptable(s) => bytes \in 1 .. WireMax /\ Request % WireRange = bytes
      /\ Proper(s) => Acceptable(s) /\ bytes = Bytes[s] /\ Bytes[s] <= WireMax
  BY <1>4, RequestFacts, AcceptedBytes, ProperAccepted DEF Request, Proper
<1>6. /\ pool \in [alive : BOOLEAN, used : 0 .. Word - 1, capacity : 0 .. Word - 1]
      /\ shape \in [Blocks -> Shapes \union {None}] /\ wl \in WlPool
  BY DEF PoolInv, TypeOK, WlPool
<1>7. /\ Word \in Nat /\ WireMax \in Nat /\ 2 * (WireMax + 1) <= Word
      /\ WireRange \in Nat /\ WireMax < WireRange /\ Word % WireRange = 0
      /\ 0 < Word /\ 0 < WireRange
  BY WordFacts
<1>8. /\ i \in Int /\ i <= WireMax /\ (pool.used <= WireMax => i = pool.used)
      /\ Drawn <= WireMax => i = Drawn
  BY <1>6, <1>7, ToInt32Facts DEF Drawn
<1> HIDE DEF bytes, i
<1>9. /\ wl'.offset = [wl.offset EXCEPT ![b] = i] /\ wl'.size = w.size
      /\ wl'.ok <=> w.ok /\ Acceptable(s) /\ i >= 0 /\ i + bytes <= w.size
  <2>1. wl' = [w EXCEPT !.offset[b] = i,
                        !.ok = @ /\ Acceptable(s) /\ i >= 0 /\ i + bytes <= w.size]
    BY <1>1 DEF WlCreateBuffer, bytes, i
  <2> QED
    BY <2>1 DEF WlPool
<1>10. pool'.alive /\ pool'.used = End(Request) /\ pool'.capacity = c
  BY <1>1, <1>4, <1>6
<1>11. shape'[b] = call.shape /\ \A a \in Blocks : a # b => shape'[a] = shape[a]
  BY <1>1, <1>6
<1>12. wl'.offset[b] = i /\ \A a \in Blocks : a # b => wl'.offset[a] = wl.offset[a]
  BY <1>6, <1>9 DEF WlPool
<1>13. LiveBuffers' \subseteq LiveBuffers \union {b}
  BY <1>12 DEF LiveBuffers
<1>14. b \notin LiveBuffers
  BY <1>1 DEF PoolInv, LiveAllocated
<1>15. LiveAllocated'
  BY <1>4, <1>11, <1>13 DEF LiveAllocated, PoolInv, LiveBuffers
<1>16. Allocated' = Allocated \union {b}
  BY <1>4, <1>11 DEF Allocated
<1>17. EndOf(b)' = i + bytes /\ \A a \in LiveBuffers : EndOf(a)' = EndOf(a)
  BY <1>11, <1>12, <1>14 DEF EndOf, LiveBuffers, bytes
<1>18. \A a \in LiveBuffers : EndOf(a) \in Int /\ wl.offset[a] \in Int
  <2> SUFFICES ASSUME NEW a \in LiveBuffers PROVE EndOf(a) \in Int /\ wl.offset[a] \in Int
    OBVIOUS
  <2>1. wl.offset[a] \in Int /\ shape[a] \in Shapes
    BY <1>6 DEF LiveBuffers, PoolInv, LiveAllocated, WlPool
  <2> QED
    BY <2>1, RequestFacts DEF EndOf
<1>19. wl.ok => /\ Drawn <= wl.size /\ wl.size \in Nat
                /\ \A a \in LiveBuffers : EndOf(a) <= Drawn
                /\ \A a, d \in LiveBuffers :
                     a # d => EndOf(a) <= wl.offset[d] \/ EndOf(d) <= wl.offset[a]
  BY <1>4, <1>6 DEF PoolInv, Carved, WlPool
<1>20. w.size \in Nat /\ w.ok \in BOOLEAN
  BY DEF WlPool
<1>21. Drawn \in Nat /\ (w.ok => i = Drawn /\ Drawn <= w.size)
  <2>1. Drawn \in Nat
    BY <1>6, <1>7, Modulo DEF Drawn
  <2> QED
    BY <1>6, <1>7, <1>8, <1>19, <1>20, <2>1
<1>22. /\ pool.used \in 0 .. Word - 1 /\ End(Request) = (pool.used + Request) % Word
       /\ End(Request) \in 0 .. Word - 1
  <2>1. pool.used \in 0 .. Word - 1 /\ pool.used + Request \in Nat /\ 0 < Word
    BY <1>5, <1>6, <1>7
  <2> QED
    BY <1>7, <2>1, Modulo DEF End
<1>23. Drawn' = End(Request) % WireRange
  BY <1>10 DEF Drawn
<1>24. wl'.ok => /\ w.ok /\ i = Drawn /\ Drawn + bytes <= w.size
                 /\ bytes \in 1 .. WireMax /\ Drawn' = Drawn + bytes
  <2> SUFFICES ASSUME wl'.ok
               PROVE  /\ w.ok /\ i = Drawn /\ Drawn + bytes <= w.size
                      /\ bytes \in 1 .. WireMax /\ Drawn' = Drawn + bytes
    OBVIOUS
  <2>1. /\ w.ok /\ i = Drawn /\ Drawn + bytes <= w.size /\ w.size <= WireMax
        /\ bytes \in 1 .. WireMax /\ Request % WireRange = bytes
    BY <1>5, <1>9, <1>21
  <2> DEFINE sum == pool.used + Request
  <2>2. sum \in Nat /\ pool.used \in Nat /\ Request \in Nat
    BY <1>5, <1>7, <1>22
  <2>3. (sum % Word) % WireRange = sum % WireRange
    <3> HIDE DEF sum
    <3> QED
      BY <1>7, <2>2, CutRemainder, Zenon
  <2>4. sum % WireRange = (Drawn + bytes) % WireRange
    <3>1. sum % WireRange = ((pool.used % WireRange) + (Request % WireRange)) % WireRange
      BY <1>7, <2>2, AddRemainder, Zenon
    <3> QED
      BY <2>1, <3>1 DEF Drawn
  <2>5. Drawn + bytes \in Nat /\ Drawn + bytes < WireRange
    BY <1>7, <1>20, <1>21, <2>1
  <2>6. (Drawn + bytes) % WireRange = Drawn + bytes
    BY <1>7, <2>5, Modulo
  <2> QED
    BY <1>22, <1>23, <2>1, <2>3, <2>4, <2>6
<1>25. Carved'
  <2> SUFFICES ASSUME wl'.ok PROVE Carved'
    BY DEF Carved
  <2>1. /\ w.ok /\ wl.ok /\ w.size <= WireMax /\ wl.size <= w.size /\ w.size <= c
        /\ c <= WireMax => w.size = c
    BY <1>24
  <2>2. \A a, d \in LiveBuffers' :
          a # d => EndOf(a)' <= wl'.offset[d] \/ EndOf(d)' <= wl'.offset[a]
    <3> SUFFICES ASSUME NEW a \in LiveBuffers', NEW d \in LiveBuffers', a # d
                 PROVE  EndOf(a)' <= wl'.offset[d] \/ EndOf(d)' <= wl'.offset[a]
      OBVIOUS
    <3>1. CASE a = b
      BY <1>12, <1>13, <1>17, <1>19, <1>24, <2>1, <3>1
    <3>2. CASE d = b
      BY <1>12, <1>13, <1>17, <1>19, <1>24, <2>1, <3>2
    <3>3. CASE a # b /\ d # b
      BY <1>12, <1>13, <1>17, <1>19, <2>1, <3>3 DEF LiveBuffers
    <3> QED
      BY <3>1, <3>2, <3>3
  <2>3. \A a \in LiveBuffers' : EndOf(a)' \in Int
    BY <1>5, <1>8, <1>13, <1>17, <1>18
  <2>4. \A a \in LiveBuffers' : EndOf(a)' <= Drawn'
    <3> SUFFICES ASSUME NEW a \in LiveBuffers' PROVE EndOf(a)' <= Drawn'
      OBVIOUS
    <3>1. CASE a = b
      BY <1>17, <1>21, <1>24, <3>1
    <3>2. CASE a # b
      <4>1. a \in LiveBuffers /\ EndOf(a)' = EndOf(a) /\ EndOf(a) <= Drawn
        BY <1>13, <1>17, <1>19, <2>1, <3>2
      <4> QED
        BY <1>18, <1>21, <1>24, <4>1
    <3> QED
      BY <3>1, <3>2
  <2>5. Drawn' <= w.size /\ Drawn' \in Int
    BY <1>21, <1>24
  <2>6. \A a \in LiveBuffers' : EndOf(a)' <= w.size
    BY <1>20, <2>3, <2>4, <2>5
  <2> QED
    BY <1>9, <1>10, <2>1, <2>2, <2>4, <2>5, <2>6 DEF Carved
<1>26. UsedInPool'
  BY <1>10 DEF UsedInPool
<1>27. RefusalCause'
  <2> SUFFICES ASSUME ~wl'.ok, ~(c > WireMax)
               PROVE  \E a \in Allocated' : ~Proper(shape'[a])
    BY <1>10 DEF RefusalCause
  <2>1. CASE w.ok
    <3>1. c <= WireMax /\ w.size = c /\ pool.used <= c
      <4>1. pool.used <= pool.capacity
        BY <1>4 DEF PoolInv, UsedInPool
      <4> QED
        BY <1>6, <1>7, <2>1, <4>1
    <3>2. CASE Proper(s)
      <4>1. Acceptable(s) /\ bytes = Bytes[s] /\ Bytes[s] \in 0 .. WireMax
        BY <1>5, <1>7, <3>2
      <4>2. i = pool.used
        BY <1>6, <1>7, <1>8, <3>1
      <4>3. Request = bytes /\ pool.used + bytes \in Nat /\ pool.used + bytes < Word
        BY <1>5, <1>7, <1>22, <3>1, <4>1
      <4>4. End(Request) = pool.used + bytes
        <5> DEFINE sum == pool.used + bytes
        <5>1. sum \in Nat /\ sum < Word /\ End(Request) = sum % Word
          BY <1>22, <4>3
        <5> HIDE DEF sum
        <5>2. sum % Word = sum
          BY <1>7, <5>1, Modulo
        <5> QED
          BY <5>1, <5>2 DEF sum
      <4> QED
        BY <1>9, <1>22, <2>1, <3>1, <4>1, <4>2, <4>4
    <3>3. CASE ~Proper(s)
      BY <1>11, <1>16, <3>3
    <3> QED
      BY <3>2, <3>3
  <2>2. CASE ~w.ok
    <3>1. PICK a \in Allocated : ~Proper(shape[a])
      BY <2>2
    <3>2. a # b
      BY <1>1 DEF Allocated
    <3> QED
      BY <1>11, <1>16, <3>1, <3>2 DEF Allocated
  <2> QED
    BY <2>1, <2>2
<1> QED
  BY <1>2, <1>3, <1>15, <1>25, <1>26, <1>27 DEF PoolInv

-------------------------------------------------------------------------------
(***************************************************************************)
(* The calls that carve nothing.  First what they do to the types.         *)
(***************************************************************************)
LEMMA OtherTypeOK ==
  ASSUME TypeOK, [Next]_vars, ~Search
  PROVE  TypeOK'
<1> USE DEF TypeOK
<1>1. CASE \E s \in Shapes : AllocateBegin(s) \/ SwapchainInit(s) \/ ResizeBegin(s)
  <2>1. PICK s \in Shapes : AllocateBegin(s) \/ SwapchainInit(s) \/ ResizeBegin(s)
    BY <1>1
  <2>2. CASE AllocateBegin(s)
    BY <2>2, FollowType, ListNames DEF AllocateBegin, Memory, Ops, Ptr, history
  <2>3. CASE SwapchainInit(s)
    BY <2>3, ZeroedType, ListNames DEF SwapchainInit, history
  <2>4. CASE ResizeBegin(s)
    BY <2>4, FollowType, ListNames DEF ResizeBegin, HandOver, Memory, Ops, Ptr, history
  <2> QED
    BY <2>1, <2>2, <2>3, <2>4
<1>2. CASE \E b \in Blocks : Deallocate(b) \/ Reclaim(b) \/ Attach(b) \/ BufferRelease(b)
  <2>1. PICK b \in Blocks : Deallocate(b) \/ Reclaim(b) \/ Attach(b) \/ BufferRelease(b)
    BY <1>2
  <2>2. CASE Deallocate(b)
    <3>1. mem' \in Memory /\ freeSeq' \in Seq(Blocks)
      BY <2>2, ListPushType, AppendOnceType, ListNames DEF Deallocate, Blocks
    <3>2. tainted' \in BOOLEAN
      BY <2>2 DEF Deallocate, Taints
    <3> QED
      BY <2>2, <3>1, <3>2 DEF Deallocate
  <2>3. CASE Reclaim(b)
    <3>1. mem' \in Memory /\ chainSeq' \in Seq(Blocks)
      BY <2>3, ListPushType, AppendOnceType, ListNames DEF Reclaim, Blocks
    <3>2. tainted' \in BOOLEAN
      BY <2>3 DEF Reclaim, Taints
    <3> QED
      BY <2>3, <3>1, <3>2 DEF Reclaim
  <2>4. CASE Attach(b)
    BY <2>4 DEF Attach, history
  <2>5. CASE BufferRelease(b)
    BY <2>5 DEF BufferRelease, history
  <2> QED
    BY <2>1, <2>2, <2>3, <2>4, <2>5
<1>3. CASE Acquire
  <2>1. mem' \in Memory /\ chainSeq' \in Seq(Blocks)
    BY <1>3, ListPopFrontType, RemoveFirstType, ListNames DEF Acquire
  <2> QED
    BY <1>3, <2>1 DEF Acquire
<1>4. CASE AcquireBusy
  <2>1. mem' \in Memory /\ chainSeq' \in Seq(Blocks)
    BY <1>4, ListPopFrontType, RemoveFirstType, ListNames DEF AcquireBusy
  <2> QED
    BY <1>4, <2>1 DEF AcquireBusy
<1>5. CASE AcquireEmpty
  BY <1>5 DEF AcquireEmpty, Idle, Ops, Ptr, history
<1>6. CASE SwapchainDeinitBegin
  BY <1>6, FollowType, ListNames DEF SwapchainDeinitBegin, HandOver, Memory, Ops, Ptr, history
<1>7. CASE PoolDeinitBegin
  BY <1>7, FollowType, ListNames DEF PoolDeinitBegin, Memory, Ops, Ptr, history
<1>8. CASE HandOverBlock
  <2>1. mem' \in Memory /\ freeSeq' \in Seq(Blocks) /\ chainSeq' \in Seq(Blocks)
    BY <1>8, ListPushType, AppendOnceType, RemoveFirstType, ListNames
       DEF HandOverBlock, Blocks
  <2>2. tainted' \in BOOLEAN
    BY <1>8 DEF HandOverBlock, Taints
  <2>3. call' \in [op : Ops, link : Ptr, next : Ptr, shape : Shapes \union {None}]
    <3>1. Follow(mem'.next, call.next) \in Ptr
      BY <2>1, FollowType DEF Memory
    <3> QED
      BY <1>8, <3>1 DEF HandOverBlock
  <2> QED
    BY <1>8, <2>1, <2>2, <2>3 DEF HandOverBlock
<1>9. CASE HandOverEnd
  BY <1>9, ZeroedType, ListNames DEF HandOverEnd, Idle, Ops, Ptr, history
<1>10. CASE DestroyBlock
  <2>1. CASE shape[call.link] = None
    BY <1>10, <2>1, ZeroedType, ListNames DEF DestroyBlock
  <2>2. CASE shape[call.link] # None
    <3>1. wl' \in WlPool
      <4>1. wl \in WlPool /\ call.link \in Blocks /\ 0 \in Nat
        BY <1>10 DEF DestroyBlock, WlPool
      <4>2. WlDestroyBuffer(wl, call.link) \in WlPool
        BY <4>1, WlBufferTypes
      <4>3. wl' = WlDestroyBuffer(wl, call.link)
        BY <1>10, <2>2 DEF DestroyBlock
      <4> QED
        BY <4>2, <4>3
    <3>2. freeSeq' \in Seq(Blocks)
      BY <1>10, <2>2, RemoveFirstType DEF DestroyBlock
    <3>3. call' \in [op : Ops, link : Ptr, next : Ptr, shape : Shapes \union {None}]
      <4>1. Follow(mem.next, call.next) \in Ptr
        BY FollowType DEF Memory
      <4> QED
        BY <1>10, <2>2, <4>1 DEF DestroyBlock
    <3>4. shape' \in [Blocks -> Shapes \union {None}]
      BY <1>10, <2>2 DEF DestroyBlock
    <3> QED
      BY <1>10, <2>2, <3>1, <3>2, <3>3, <3>4 DEF DestroyBlock, WlPool
  <2> QED
    BY <2>1, <2>2
<1>11. CASE PoolDeinitEnd
  <2>1. 0 \in 0 .. Word - 1
    BY WordFacts
  <2> QED
    BY <1>11, <2>1, ZeroedType, ListNames DEF PoolDeinitEnd, Idle, Ops, Ptr, history
<1>12. CASE LoopFaults
  BY <1>12, ZeroedType, ListNames DEF LoopFaults, history
<1>13. CASE UNCHANGED vars
  BY <1>13 DEF vars
<1> QED
  BY <1>1, <1>2, <1>3, <1>4, <1>5, <1>6, <1>7, <1>8, <1>9, <1>10, <1>11, <1>12, <1>13
     DEF Next, Run

\* A call that leaves pool, shapes, buffers and the compositor's pool alone
\* leaves alone what the invariant says of them.
LEMMA NothingCarved ==
  ASSUME PoolInv, TypeOK', UNCHANGED << pool, shape >>,
         wl'.ok = wl.ok, wl'.size = wl.size, wl'.offset = wl.offset,
         SearchOK', call.op = "destroy" => call'.op = "destroy"
  PROVE  PoolInv'
<1>1. LiveBuffers' = LiveBuffers /\ Allocated' = Allocated
  BY DEF LiveBuffers, Allocated
<1>2. \A b : EndOf(b)' = EndOf(b)
  BY DEF EndOf
<1>3. LiveAllocated'
  BY <1>1 DEF PoolInv, LiveAllocated
<1>4. Carved' /\ UsedInPool'
  BY <1>1, <1>2 DEF PoolInv, Carved, UsedInPool, Drawn
<1>5. RefusalCause'
  BY <1>1 DEF PoolInv, RefusalCause
<1> QED
  BY <1>3, <1>4, <1>5 DEF PoolInv

\* shm_pool_deinit takes buffers away, and at last the pool.
LEMMA DestroyInv ==
  ASSUME PoolInv, TypeOK', DestroyBlock
  PROVE  PoolInv'
<1>1. call.op = "destroy" /\ call.link \in Blocks /\ pool' = pool
  BY DEF DestroyBlock
<1>2. call'.op = "destroy"
  BY <1>1 DEF DestroyBlock, PoolInv, TypeOK
<1>3. SearchOK' /\ RefusalCause'
  BY <1>2 DEF SearchOK, RefusalCause
<1>4. CASE shape[call.link] = None
  BY <1>1, <1>2, <1>3, <1>4, NothingCarved DEF DestroyBlock
<1>5. CASE shape[call.link] # None
  <2>1. wl \in WlPool /\ shape \in [Blocks -> Shapes \union {None}]
    BY DEF PoolInv, TypeOK, WlPool
  <2>2. /\ wl'.ok = wl.ok /\ wl'.size = wl.size
        /\ wl'.offset = [wl.offset EXCEPT ![call.link] = None]
        /\ shape' = [shape EXCEPT ![call.link] = None]
    BY <1>5, <2>1 DEF DestroyBlock, WlDestroyBuffer, WlPool
  <2>3. LiveBuffers' = LiveBuffers \ {call.link}
    BY <1>1, <2>1, <2>2 DEF LiveBuffers, WlPool
  <2>4. \A b \in LiveBuffers' : wl'.offset[b] = wl.offset[b] /\ shape'[b] = shape[b]
    BY <2>1, <2>2, <2>3 DEF LiveBuffers, WlPool
  <2>5. \A b \in LiveBuffers' : EndOf(b)' = EndOf(b)
    BY <2>4 DEF EndOf
  <2>6. LiveAllocated'
    BY <2>3, <2>4 DEF LiveAllocated, PoolInv
  <2>7. Carved' /\ UsedInPool'
    BY <1>1, <2>2, <2>3, <2>4, <2>5 DEF Carved, PoolInv, Drawn, UsedInPool
  <2> QED
    BY <1>3, <2>6, <2>7 DEF PoolInv
<1> QED
  BY <1>4, <1>5

LEMMA DeinitInv ==
  ASSUME PoolInv, TypeOK', PoolDeinitEnd
  PROVE  PoolInv'
<1>1. ~pool'.alive /\ call' = Idle /\ UNCHANGED << wl, shape >>
  BY DEF PoolDeinitEnd
<1>2. LiveBuffers' = LiveBuffers /\ \A b : EndOf(b)' = EndOf(b)
  BY <1>1 DEF LiveBuffers, EndOf
<1>3. LiveAllocated' /\ SearchOK' /\ RefusalCause'
  BY <1>1, <1>2 DEF PoolInv, LiveAllocated, SearchOK, RefusalCause, Idle
<1>4. Carved' /\ UsedInPool'
  BY <1>1, <1>2 DEF PoolInv, Carved, UsedInPool
<1> QED
  BY <1>3, <1>4 DEF PoolInv

\* The steps of shm_pool_allocate.
LEMMA SearchInv ==
  ASSUME PoolInv, Search
  PROVE  PoolInv'
<1>1. TypeOK'
  BY SearchTypeOK DEF PoolInv, SearchOK
<1>2. call.op = "search"
  BY DEF Search, AllocateSkip, AllocateReuse, AllocateInPlace, AllocateGrow,
         AllocateGrowFails, AllocateBufferFails, AllocateSpins, Missed
<1>3. CASE AllocateSkip
  <2>1. call'.shape = call.shape /\ pool' = pool
    BY <1>3 DEF AllocateSkip, PoolInv, TypeOK
  <2>2. SearchOK'
    BY <1>2, <2>1 DEF SearchOK, PoolInv
  <2> QED
    BY <1>1, <1>2, <1>3, <2>2, NothingCarved DEF AllocateSkip
<1>4. CASE AllocateReuse
  BY <1>1, <1>2, <1>4, NothingCarved DEF AllocateReuse, SearchOK, Idle
<1>5. CASE AllocateInPlace
  <2>1. wl \in WlPool /\ pool.capacity \in 0 .. Word - 1
    BY DEF PoolInv, TypeOK, WlPool
  <2>2. pool.capacity >= End(Request)
    <3>1. Request \in 0 .. Word - 1 /\ Word \in Nat /\ 0 < Word
      BY <1>2, RequestFacts, WordFacts DEF PoolInv, SearchOK, Request
    <3>2. pool.used \in 0 .. Word - 1
      BY DEF PoolInv, TypeOK
    <3>3. End(Request) \in 0 .. Word - 1
      BY <3>1, <3>2, Modulo DEF End
    <3> QED
      BY <1>5, <2>1, <3>1, <3>3 DEF AllocateInPlace, NeedsGrow
  <2>3. wl.ok => /\ wl.ok /\ wl.size <= wl.size /\ wl.size <= WireMax
                 /\ wl.size <= pool.capacity
                 /\ pool.capacity <= WireMax => wl.size = pool.capacity
    BY <1>2, <2>1 DEF PoolInv, Carved, SearchOK, WlPool
  <2>4. ~wl.ok => \/ pool.capacity > WireMax
                  \/ \E b \in Allocated : ~Proper(shape[b])
    BY <1>2 DEF PoolInv, RefusalCause, SearchOK
  <2>5. pool.capacity >= pool.capacity
    BY <2>1
  <2> QED
    BY <1>2, <1>5, <2>1, <2>2, <2>3, <2>4, <2>5, CarveBuffer DEF AllocateInPlace
<1>6. CASE AllocateGrow
  <2> DEFINE c == NewCapacity(Request)
             w == WlPoolResize(wl, ToInt32(c))
  <2>1. NeedsGrow(Request) /\ Enough(Request) # {} /\ CreateBuffer(w, c)
    BY <1>6 DEF AllocateGrow
  <2> HIDE DEF w
  <2>2. w = WlPoolResize(wl, ToInt32(c))
    BY DEF w
  <2> HIDE DEF c
  <2>3. c = NewCapacity(Request)
    BY DEF c
  <2>4. /\ c \in 0 .. Word - 1 /\ c >= End(Request) /\ c > pool.capacity
        /\ w \in WlPool /\ w.offset = wl.offset
        /\ w.ok => /\ wl.ok /\ wl.size <= w.size /\ w.size <= WireMax /\ w.size <= c
                   /\ c <= WireMax => w.size = c
        /\ ~w.ok => c > WireMax \/ \E b \in Allocated : ~Proper(shape[b])
    BY <1>2, <2>1, <2>2, <2>3, GrowPool
  <2>5. c >= pool.capacity
    BY <2>4, WordFacts DEF PoolInv, TypeOK
  <2> QED
    BY <1>2, <2>1, <2>4, <2>5, CarveBuffer
<1>7. CASE AllocateGrowFails
  BY <1>1, <1>2, <1>7, NothingCarved DEF AllocateGrowFails, SearchOK, Idle
<1>8. CASE AllocateBufferFails
  <2>1. CASE UNCHANGED << pool, wl >>
    BY <1>1, <1>2, <1>8, <2>1, NothingCarved DEF AllocateBufferFails, SearchOK, Idle
  <2>2. CASE /\ NeedsGrow(Request) /\ Enough(Request) # {}
             /\ pool' = [pool EXCEPT !.capacity = NewCapacity(Request)]
             /\ wl' = WlPoolResize(wl, ToInt32(NewCapacity(Request)))
    <3> DEFINE c == NewCapacity(Request)
    <3>1. wl' = WlPoolResize(wl, ToInt32(c)) /\ pool' = [pool EXCEPT !.capacity = c]
      BY <2>2
    <3> HIDE DEF c
    <3>2. c = NewCapacity(Request)
      BY DEF c
    <3>3. /\ c \in 0 .. Word - 1 /\ c > pool.capacity
          /\ wl'.offset = wl.offset /\ wl' \in WlPool
          /\ wl'.ok => /\ wl.ok /\ wl.size <= wl'.size /\ wl'.size <= WireMax
                       /\ wl'.size <= c
                       /\ c <= WireMax => wl'.size = c
          /\ ~wl'.ok => c > WireMax \/ \E b \in Allocated : ~Proper(shape[b])
      BY <1>2, <2>2, <3>1, <3>2, GrowPool
    <3>4. shape' = shape /\ call' = Idle
      BY <1>8 DEF AllocateBufferFails
    <3>5. LiveBuffers' = LiveBuffers /\ Allocated' = Allocated
      BY <3>3, <3>4 DEF LiveBuffers, Allocated
    <3>6. \A b : EndOf(b)' = EndOf(b)
      BY <3>3, <3>4 DEF EndOf
    <3>7. pool'.alive = pool.alive /\ pool'.used = pool.used /\ pool'.capacity = c
      BY <3>1 DEF PoolInv, TypeOK
    <3>8. LiveAllocated' /\ SearchOK' /\ RefusalCause'
      BY <3>3, <3>4, <3>5, <3>7
         DEF PoolInv, LiveAllocated, SearchOK, RefusalCause, Idle
    <3>10. UsedInPool'
      BY <3>3, <3>7, WordFacts DEF PoolInv, TypeOK, UsedInPool
    <3>9. ASSUME wl'.ok PROVE Carved'
      <4>1. /\ wl.size \in Nat /\ wl'.size \in Nat /\ Drawn \in Nat /\ Drawn' = Drawn
            /\ wl.size <= wl'.size /\ Drawn <= wl.size
        <5>1. Drawn \in Nat
          BY WordFacts, Modulo DEF PoolInv, TypeOK, Drawn
        <5> QED
          BY <1>2, <3>3, <3>7, <3>9, <5>1
             DEF PoolInv, TypeOK, Carved, SearchOK, WlPool, Drawn
      <4>2. \A b \in LiveBuffers : EndOf(b) \in Int /\ EndOf(b) <= wl.size
        <5> SUFFICES ASSUME NEW b \in LiveBuffers
                     PROVE  EndOf(b) \in Int /\ EndOf(b) <= wl.size
          OBVIOUS
        <5>1. wl.offset[b] \in Int /\ shape[b] \in Shapes
          BY DEF PoolInv, TypeOK, LiveAllocated, LiveBuffers
        <5> QED
          BY <3>3, <3>9, <5>1, RequestFacts DEF PoolInv, Carved, EndOf
      <4> QED
        BY <1>2, <3>3, <3>5, <3>6, <3>7, <3>9, <4>1, <4>2
           DEF PoolInv, Carved, SearchOK
    <3> QED
      BY <1>1, <3>8, <3>9, <3>10 DEF PoolInv, Carved
  <2> QED
    BY <1>8, <2>1, <2>2 DEF AllocateBufferFails
<1>9. CASE AllocateSpins
  <2>1. call'.op = "spin"
    BY <1>9 DEF AllocateSpins, PoolInv, TypeOK
  <2> QED
    BY <1>1, <1>2, <1>9, <2>1, NothingCarved DEF AllocateSpins, SearchOK
<1> QED
  BY <1>3, <1>4, <1>5, <1>6, <1>7, <1>8, <1>9 DEF Search

LEMMA NextPoolInv ==
  ASSUME PoolInv, [Next]_vars
  PROVE  PoolInv'
<1>1. CASE Search
  BY <1>1, SearchInv
<1>2. CASE ~Search
  <2>1. TypeOK'
    BY <1>2, OtherTypeOK DEF PoolInv
  <2>2. CASE DestroyBlock
    BY <2>1, <2>2, DestroyInv
  <2>3. CASE PoolDeinitEnd
    BY <2>1, <2>3, DeinitInv
  <2>4. CASE \E s \in Shapes : AllocateBegin(s) \/ SwapchainInit(s) \/ ResizeBegin(s)
    <3>1. PICK s \in Shapes : AllocateBegin(s) \/ SwapchainInit(s) \/ ResizeBegin(s)
      BY <2>4
    <3>2. call.op # "destroy"
      BY <3>1 DEF AllocateBegin, SwapchainInit, ResizeBegin, HandOver, CanCall, Idle
    <3>3. SearchOK'
      BY <3>1 DEF AllocateBegin, SwapchainInit, ResizeBegin, HandOver, CanCall, Idle, SearchOK
    <3> QED
      BY <2>1, <3>1, <3>2, <3>3, NothingCarved
         DEF AllocateBegin, SwapchainInit, ResizeBegin, HandOver
  <2>5. CASE \E b \in Blocks : Deallocate(b) \/ Reclaim(b)
    BY <2>1, <2>5, NothingCarved DEF Deallocate, Reclaim, SearchOK, PoolInv
  <2>6. CASE \E b \in Blocks : Attach(b) \/ BufferRelease(b)
    <3>1. wl \in WlPool
      BY DEF PoolInv, TypeOK, WlPool
    <3>2. wl'.ok = wl.ok /\ wl'.size = wl.size /\ wl'.offset = wl.offset
      BY <2>6, <3>1 DEF Attach, BufferRelease, WlPool
    <3> QED
      BY <2>1, <2>6, <3>2, NothingCarved DEF Attach, BufferRelease, SearchOK, PoolInv
  <2>7. CASE Acquire \/ AcquireBusy
    BY <2>1, <2>7, NothingCarved DEF Acquire, AcquireBusy, SearchOK, PoolInv
  <2>8. CASE AcquireEmpty
    <3>1. call.op # "destroy" /\ SearchOK'
      BY <2>8 DEF AcquireEmpty, CanCall, Idle, SearchOK
    <3> QED
      BY <2>1, <2>8, <3>1, NothingCarved DEF AcquireEmpty
  <2>9. CASE SwapchainDeinitBegin \/ PoolDeinitBegin
    <3>1. call.op # "destroy" /\ SearchOK'
      BY <2>9 DEF SwapchainDeinitBegin, HandOver, PoolDeinitBegin, CanCall, Idle, SearchOK
    <3> QED
      BY <2>1, <2>9, <3>1, NothingCarved DEF SwapchainDeinitBegin, HandOver, PoolDeinitBegin
  <2>10. CASE HandOverBlock
    <3>1. call.op # "destroy" /\ SearchOK'
      BY <2>10 DEF HandOverBlock, SearchOK, PoolInv, TypeOK
    <3> QED
      BY <2>1, <2>10, <3>1, NothingCarved DEF HandOverBlock
  <2>11. CASE HandOverEnd
    <3>1. call.op # "destroy" /\ SearchOK'
      BY <2>11 DEF HandOverEnd, SearchOK, Idle
    <3> QED
      BY <2>1, <2>11, <3>1, NothingCarved DEF HandOverEnd
  <2>12. CASE LoopFaults
    BY <2>1, <2>12, NothingCarved DEF LoopFaults, SearchOK, PoolInv
  <2>13. CASE UNCHANGED vars
    BY <2>1, <2>13, NothingCarved DEF vars, SearchOK, PoolInv
  <2> QED
    BY <1>2, <2>2, <2>3, <2>4, <2>5, <2>6, <2>7, <2>8, <2>9, <2>10, <2>11, <2>12, <2>13
       DEF Next, Run
<1> QED
  BY <1>1, <1>2

LEMMA PoolInvariant == Spec => []PoolInv
  BY InitPoolInv, NextPoolInv, PTL DEF Spec

-------------------------------------------------------------------------------
(***************************************************************************)
(* The theorems.                                                           *)
(***************************************************************************)

\* Whatever the application does with blocks, links, lists, the pool, the chain
\* and the compositor stay what their types say.
THEOREM GfxTypeOK == Spec => []TypeOK
<1>1. PoolInv => TypeOK
  BY DEF PoolInv
<1> QED
  BY <1>1, PoolInvariant, PTL

\* shm_pool_allocate never gives two live buffers a byte in common, and keeps
\* them inside the pool the compositor knows and that inside the mapping, for
\* every shape, also one that is cut to int32_t on the wire, every order of calls
\* and every growth, until the compositor refuses a request.
THEOREM GfxBuffersDisjoint == Spec => []BuffersDisjoint
<1>1. PoolInv => BuffersDisjoint
  BY DEF PoolInv, Carved, LiveBuffers, EndOf, BuffersDisjoint
<1> QED
  BY <1>1, PoolInvariant, PTL

\* A capacity past int32_t, or a shape no compositor can take whole, is the only
\* thing that makes the compositor refuse: no order of calls does, and no failure
\* of ftruncate, mmap or wl_shm_pool_create_buffer.
THEOREM GfxRefusalCause == Spec => []RefusalCause
<1>1. PoolInv => RefusalCause
  BY DEF PoolInv
<1> QED
  BY <1>1, PoolInvariant, PTL

\* What the compositor uses stays allocated and busy: a release event finds its
\* block, also between two iterations of shm_pool_deinit.
THEOREM GfxReleaseFindsBlock == Spec => []ReleaseFindsBlock
<1>1. Init => ReleaseFindsBlock
  BY DEF Init, ReleaseFindsBlock
<1>2. ASSUME PoolInv, ReleaseFindsBlock, [Next]_vars
      PROVE  ReleaseFindsBlock'
  <2> USE DEF ReleaseFindsBlock
  <2>1. wl \in WlPool /\ shape \in [Blocks -> Shapes \union {None}] /\ busy \in [Blocks -> BOOLEAN]
    BY <1>2 DEF PoolInv, TypeOK, WlPool
  <2>2. CASE UNCHANGED << shape, busy, wl >>
    BY <1>2, <2>2
  <2>3. CASE \E w, c : CreateBuffer(w, c) /\ w \in WlPool /\ w.users = wl.users
    <3>1. PICK w, c : CreateBuffer(w, c) /\ w \in WlPool /\ w.users = wl.users
      BY <2>3
    <3>2. PICK b \in Blocks :
            /\ shape[b] = None
            /\ wl' = WlCreateBuffer(w, b, ToInt32(pool.used), call.shape)
            /\ shape' = [shape EXCEPT ![b] = call.shape]
            /\ busy' = [busy EXCEPT ![b] = FALSE]
      BY <3>1 DEF CreateBuffer
    <3>3. wl'.users = wl.users
      BY <3>1, <3>2 DEF WlCreateBuffer, WlPool
    <3>4. b \notin wl.users
      BY <1>2, <3>2
    <3> QED
      BY <1>2, <2>1, <3>2, <3>3, <3>4 DEF WlPool
  <2>4. ASSUME NEW n PROVE WlPoolResize(wl, n).users = wl.users
    BY <2>1 DEF WlPoolResize, WlPool
  <2>5. CASE AllocateInPlace
    BY <2>1, <2>3, <2>5 DEF AllocateInPlace
  <2>6. CASE AllocateGrow
    <3> DEFINE w == WlPoolResize(wl, ToInt32(NewCapacity(Request)))
    <3>1. w \in WlPool /\ w.users = wl.users
      <4>1. NewCapacity(Request) \in Nat
        BY <1>2, <2>6, NewCapacityFacts, WordFacts DEF AllocateGrow, PoolInv, TypeOK
      <4> QED
        BY <2>1, <2>4, <4>1, WlPoolResizeType
    <3>2. CreateBuffer(w, NewCapacity(Request))
      BY <2>6 DEF AllocateGrow
    <3> HIDE DEF w
    <3> QED
      BY <2>3, <3>1, <3>2
  <2>7. CASE AllocateBufferFails
    BY <1>2, <2>4, <2>7 DEF AllocateBufferFails
  <2>8. CASE \E b \in Blocks : Attach(b)
    <3>1. PICK b \in Blocks : Attach(b)
      BY <2>8
    <3>2. shape[b] # None
      BY <1>2, <3>1 DEF Attach, PoolInv, LiveAllocated, LiveBuffers
    <3> QED
      BY <1>2, <2>1, <3>1, <3>2 DEF Attach, WlPool
  <2>9. CASE \E b \in Blocks : BufferRelease(b)
    BY <1>2, <2>1, <2>9 DEF BufferRelease, WlPool
  <2>10. CASE DestroyBlock
    <3>1. CASE shape[call.link] = None
      BY <2>2, <2>10, <3>1 DEF DestroyBlock
    <3>2. CASE shape[call.link] # None
      <4>1. /\ wl'.users = wl.users \ {call.link} /\ busy' = busy
            /\ shape' = [shape EXCEPT ![call.link] = None]
        BY <2>1, <2>10, <3>2 DEF DestroyBlock, WlDestroyBuffer, WlPool
      <4> QED
        BY <1>2, <2>1, <4>1 DEF WlPool
    <3> QED
      BY <3>1, <3>2
  <2>11. CASE AllocateSkip \/ AllocateReuse \/ AllocateGrowFails \/ AllocateSpins
    BY <2>2, <2>11 DEF AllocateSkip, AllocateReuse, AllocateGrowFails, AllocateSpins
  <2>12. CASE \E s \in Shapes : AllocateBegin(s) \/ SwapchainInit(s) \/ ResizeBegin(s)
    BY <2>2, <2>12 DEF AllocateBegin, SwapchainInit, ResizeBegin, HandOver
  <2>13. CASE \E b \in Blocks : Deallocate(b) \/ Reclaim(b)
    BY <2>2, <2>13 DEF Deallocate, Reclaim
  <2>14. CASE Acquire \/ AcquireBusy \/ AcquireEmpty
    BY <2>2, <2>14 DEF Acquire, AcquireBusy, AcquireEmpty
  <2>15. CASE SwapchainDeinitBegin \/ PoolDeinitBegin
    BY <2>2, <2>15 DEF SwapchainDeinitBegin, HandOver, PoolDeinitBegin
  <2>16. CASE HandOverBlock \/ HandOverEnd \/ PoolDeinitEnd \/ LoopFaults
    BY <2>2, <2>16 DEF HandOverBlock, HandOverEnd, PoolDeinitEnd, LoopFaults
  <2>17. CASE UNCHANGED vars
    BY <2>2, <2>17 DEF vars
  <2> QED
    BY <1>2, <2>5, <2>6, <2>7, <2>8, <2>9, <2>10, <2>11, <2>12, <2>13, <2>14, <2>15, <2>16, <2>17
       DEF Next, Run, Search
<1> QED
  BY <1>1, <1>2, PoolInvariant, PTL DEF Spec

\* Only the search of shm_pool_allocate can give the application a block that
\* the compositor still uses, and only one it found on the free list: a new block
\* has no user, and the swapchain gives out only blocks that are not busy.
THEOREM GfxInUseOnlyFromPool == Spec => InUseOnlyFromPool
<1>1. ASSUME TypeOK, ReleaseFindsBlock, [Next]_vars,
             NEW b \in held' \ held, b \in wl.users
      PROVE  call.op = "search" /\ call.link = b
  <2>1. CASE AllocateReuse
    BY <1>1, <2>1 DEF AllocateReuse
  <2>2. CASE Acquire
    <3>1. held' = held \union {ListFront(mem, Chain)} /\ ~busy[ListFront(mem, Chain)]
      BY <2>2 DEF Acquire
    <3> QED
      BY <1>1, <3>1 DEF ReleaseFindsBlock
  <2>3. CASE \E c \in Blocks : Deallocate(c) \/ Reclaim(c)
    BY <1>1, <2>3 DEF Deallocate, Reclaim
  <2>4. CASE held' = held
    BY <1>1, <2>4
  <2>5. CASE \E s \in Shapes : AllocateBegin(s) \/ SwapchainInit(s) \/ ResizeBegin(s)
    BY <2>4, <2>5 DEF AllocateBegin, SwapchainInit, ResizeBegin, HandOver, history
  <2>6. CASE \E c \in Blocks : Attach(c) \/ BufferRelease(c)
    BY <2>4, <2>6 DEF Attach, BufferRelease, history
  <2>7. CASE AcquireBusy \/ AcquireEmpty
    BY <2>4, <2>7 DEF AcquireBusy, AcquireEmpty, history
  <2>8. CASE SwapchainDeinitBegin \/ PoolDeinitBegin
    BY <2>4, <2>8 DEF SwapchainDeinitBegin, PoolDeinitBegin, HandOver, history
  <2>9. CASE HandOverBlock \/ HandOverEnd \/ DestroyBlock \/ PoolDeinitEnd \/ LoopFaults
    BY <2>4, <2>9 DEF HandOverBlock, HandOverEnd, DestroyBlock, PoolDeinitEnd, LoopFaults,
           history
  <2>10. CASE UNCHANGED vars
    BY <2>4, <2>10 DEF vars
  <2>11. ASSUME NEW w, NEW new, CreateBuffer(w, new) PROVE FALSE
    <3>1. PICK c \in Blocks : shape[c] = None /\ held' = held \union {c}
      BY <2>11 DEF CreateBuffer
    <3>2. b = c
      BY <1>1, <3>1
    <3> QED
      BY <1>1, <3>1, <3>2 DEF ReleaseFindsBlock
  <2>12. CASE AllocateInPlace \/ AllocateGrow
    BY <2>11, <2>12 DEF AllocateInPlace, AllocateGrow
  <2>13. CASE AllocateSkip \/ AllocateGrowFails \/ AllocateBufferFails \/ AllocateSpins
    BY <2>4, <2>13 DEF AllocateSkip, AllocateGrowFails, AllocateBufferFails, AllocateSpins,
           history
  <2> QED
    BY <1>1, <2>1, <2>2, <2>3, <2>5, <2>6, <2>7, <2>8, <2>9, <2>10, <2>12, <2>13
       DEF Next, Run, Search
<1>2. TypeOK /\ ReleaseFindsBlock /\ [Next]_vars =>
        [ \A b \in held' \ held :
            b \in wl.users => call.op = "search" /\ call.link = b ]_vars
  BY <1>1
<1> QED
  BY <1>2, GfxTypeOK, GfxReleaseFindsBlock, PTL DEF Spec, InUseOnlyFromPool

-------------------------------------------------------------------------------
(***************************************************************************)
(* The growth loop.  While a value stays below one that is at most half    *)
(* the range, doubling it does not wrap; and a number that is not zero,    *)
(* doubled WordBits times, is past the range.                              *)
(***************************************************************************)
LEMMA LoopEnds ==
  ASSUME TypeOK, pool.capacity # 0, NEW req, End(req) \in Nat,
         NeedsGrow(req), Enough(req) = {}
  PROVE  End(req) > Word \div 2
<1> SUFFICES ASSUME ~(End(req) > Word \div 2) PROVE FALSE
  OBVIOUS
<1> DEFINE c == pool.capacity
           end == End(req)
           half == Word \div 2
           big(k) == Doubled(c, k)
           one(k) == Doubled(1, k)
           T == { k \in Nat : k <= WordBits => big(k) < end /\ one(k) <= big(k) }
<1>1. Word \in Nat /\ half \in Nat /\ 2 * half <= Word /\ 0 < Word
  BY WordFacts
<1>2. c \in Nat /\ c # 0 /\ c < end /\ end \in Nat /\ end <= half
  BY <1>1 DEF TypeOK, NeedsGrow
<1>3. /\ big(0) = c /\ \A k \in Nat : big(k) \in Nat /\ big(k + 1) = 2 * big(k)
      /\ one(0) = 1 /\ \A k \in Nat : one(k) \in Nat /\ one(k + 1) = 2 * one(k)
  BY <1>2, DoubledIs
<1>4. \A k \in 1 .. WordBits : ~(big(k) % Word >= end)
  BY DEF Enough, Capacity
<1>5. WordBits \in Nat /\ one(WordBits) = Word
  BY GfxAssumption DEF Word
<1> HIDE DEF c, end, half, big, one
<1>6. 0 \in T
  BY <1>2, <1>3
<1>7. ASSUME NEW k \in Nat, k \in T PROVE k + 1 \in T
  <2> SUFFICES ASSUME k + 1 <= WordBits
               PROVE  big(k + 1) < end /\ one(k + 1) <= big(k + 1)
    OBVIOUS
  <2>1. big(k) < end /\ one(k) <= big(k)
    BY <1>5, <1>7
  <2>2. /\ big(k) \in Nat /\ one(k) \in Nat
        /\ big(k + 1) = 2 * big(k) /\ one(k + 1) = 2 * one(k)
    BY <1>3
  <2>3. one(k + 1) <= big(k + 1) /\ big(k + 1) \in Nat /\ big(k + 1) < Word
    BY <1>1, <1>2, <2>1, <2>2
  <2>4. big(k + 1) % Word = big(k + 1)
    BY <1>1, <2>3, Modulo
  <2>5. k + 1 \in 1 .. WordBits
    BY <1>5
  <2>6. ~(big(k + 1) >= end)
    BY <1>4, <2>4, <2>5
  <2> QED
    BY <1>2, <2>3, <2>6
<1> HIDE DEF T
<1>8. WordBits \in T
  BY <1>5, <1>6, <1>7, EveryNatural
<1>9. big(WordBits) < end /\ one(WordBits) <= big(WordBits)
  BY <1>5, <1>8 DEF T
<1> QED
  BY <1>1, <1>2, <1>3, <1>5, <1>9

LEMMA EndType ==
  ASSUME PoolInv, call.op = "search"
  PROVE  End(Request) \in Nat
<1>1. Request \in 0 .. Word - 1 /\ pool.used \in 0 .. Word - 1
  BY RequestFacts DEF PoolInv, SearchOK, TypeOK, Request
<1>2. Word \in Nat /\ 0 < Word
  BY WordFacts
<1>3. pool.used + Request \in Nat
  BY <1>1, <1>2
<1> HIDE DEF Request
<1> QED
  BY <1>2, <1>3, Modulo DEF End

\* The search that has no end is the only way into that state, and nothing
\* leads out of it.
LEMMA OnlySpins ==
  ASSUME PoolInv, Next, ~AllocateSpins
  PROVE  call'.op # "spin"
<1>1. CASE call' = call /\ call.op # "spin"
  BY <1>1
<1>2. CASE call' = Idle
  BY <1>2 DEF Idle
<1>3. ASSUME CanCall PROVE call.op # "spin"
  BY <1>3 DEF CanCall, Idle
<1>4. ASSUME NEW w, NEW new, CreateBuffer(w, new) PROVE call' = Idle
  BY <1>4 DEF CreateBuffer
<1>5. CASE AllocateInPlace \/ AllocateGrow
  BY <1>2, <1>4, <1>5 DEF AllocateInPlace, AllocateGrow
<1>6. CASE AllocateReuse \/ AllocateGrowFails \/ AllocateBufferFails
  BY <1>2, <1>6 DEF AllocateReuse, AllocateGrowFails, AllocateBufferFails
<1>7. CASE AllocateSkip
  BY <1>7 DEF AllocateSkip, PoolInv, TypeOK
<1>8. CASE \E s \in Shapes : AllocateBegin(s) \/ SwapchainInit(s) \/ ResizeBegin(s)
  BY <1>1, <1>3, <1>8 DEF AllocateBegin, SwapchainInit, ResizeBegin, HandOver
<1>9. CASE \E b \in Blocks : Deallocate(b) \/ Reclaim(b) \/ Attach(b) \/ BufferRelease(b)
  BY <1>1, <1>3, <1>9 DEF Deallocate, Reclaim, Attach, BufferRelease
<1>10. CASE Acquire \/ AcquireBusy
  BY <1>1, <1>3, <1>10 DEF Acquire, AcquireBusy
<1>11. CASE AcquireEmpty \/ SwapchainDeinitBegin \/ PoolDeinitBegin
  BY <1>11 DEF AcquireEmpty, Idle, SwapchainDeinitBegin, HandOver, PoolDeinitBegin
<1>12. CASE HandOverBlock \/ DestroyBlock
  BY <1>12 DEF HandOverBlock, DestroyBlock, PoolInv, TypeOK
<1>13. CASE HandOverEnd \/ PoolDeinitEnd
  BY <1>2, <1>13 DEF HandOverEnd, PoolDeinitEnd
<1>14. CASE LoopFaults
  BY <1>1, <1>14 DEF LoopFaults
<1> QED
  BY <1>5, <1>6, <1>7, <1>8, <1>9, <1>10, <1>11, <1>12, <1>13, <1>14
     DEF Next, Run, Search

\* A pool that is alive has a capacity: it starts with one, and grows.
HasCapacity == pool.alive => pool.capacity # 0

LEMMA NextHasCapacity ==
  ASSUME PoolInv, HasCapacity, [Next]_vars
  PROVE  HasCapacity'
<1>1. CASE pool' = pool
  BY <1>1 DEF HasCapacity
<1>2. ASSUME NEW new, pool' = [pool EXCEPT !.capacity = new], new # 0
      PROVE  HasCapacity'
  BY <1>2 DEF HasCapacity, PoolInv, TypeOK
<1>3. ASSUME NEW w, NEW new, CreateBuffer(w, new), new # 0
      PROVE  HasCapacity'
  <2>1. pool' = [pool EXCEPT !.used = End(Request), !.capacity = new]
    BY <1>3 DEF CreateBuffer
  <2> QED
    BY <1>3, <2>1 DEF HasCapacity, PoolInv, TypeOK
<1>4. ASSUME call.op = "search", NeedsGrow(Request), Enough(Request) # {}
      PROVE  NewCapacity(Request) # 0
  <2>1. pool.capacity \in Nat /\ Word \in Nat
    BY WordFacts DEF PoolInv, TypeOK
  <2>2. NewCapacity(Request) >= End(Request) /\ NewCapacity(Request) \in 0 .. Word - 1
    BY <1>4, <2>1, NewCapacityFacts
  <2>3. End(Request) \in Nat
    BY <1>4, EndType
  <2> QED
    BY <1>4, <2>1, <2>2, <2>3 DEF NeedsGrow
<1>5. CASE AllocateInPlace
  <2>1. pool.capacity # 0
    BY <1>5 DEF AllocateInPlace, Missed, HasCapacity, PoolInv, SearchOK
  <2> QED
    BY <1>3, <1>5, <2>1 DEF AllocateInPlace
<1>6. CASE AllocateGrow
  <2> DEFINE new == NewCapacity(Request)
             w == WlPoolResize(wl, ToInt32(new))
  <2>1. CreateBuffer(w, new) /\ new # 0
    BY <1>4, <1>6 DEF AllocateGrow, Missed
  <2> HIDE DEF new, w
  <2> QED
    BY <1>3, <2>1
<1>7. CASE AllocateBufferFails
  BY <1>1, <1>2, <1>4, <1>7 DEF AllocateBufferFails, Missed
<1>8. CASE PoolDeinitEnd
  BY <1>8 DEF PoolDeinitEnd, HasCapacity
<1>9. CASE AllocateSkip \/ AllocateReuse \/ AllocateGrowFails \/ AllocateSpins
  BY <1>1, <1>9 DEF AllocateSkip, AllocateReuse, AllocateGrowFails, AllocateSpins
<1>10. CASE \E s \in Shapes : AllocateBegin(s) \/ SwapchainInit(s) \/ ResizeBegin(s)
  BY <1>1, <1>10 DEF AllocateBegin, SwapchainInit, ResizeBegin, HandOver
<1>11. CASE \E b \in Blocks : Deallocate(b) \/ Reclaim(b) \/ Attach(b) \/ BufferRelease(b)
  BY <1>1, <1>11 DEF Deallocate, Reclaim, Attach, BufferRelease
<1>12. CASE Acquire \/ AcquireBusy \/ AcquireEmpty
  BY <1>1, <1>12 DEF Acquire, AcquireBusy, AcquireEmpty
<1>13. CASE SwapchainDeinitBegin \/ PoolDeinitBegin
  BY <1>1, <1>13 DEF SwapchainDeinitBegin, HandOver, PoolDeinitBegin
<1>14. CASE HandOverBlock \/ HandOverEnd \/ DestroyBlock \/ LoopFaults
  BY <1>1, <1>14 DEF HandOverBlock, HandOverEnd, DestroyBlock, LoopFaults
<1>15. CASE UNCHANGED vars
  BY <1>1, <1>15 DEF vars
<1> QED
  BY <1>5, <1>6, <1>7, <1>8, <1>9, <1>10, <1>11, <1>12, <1>13, <1>14, <1>15
     DEF Next, Run, Search

\* The growth loop of shm_pool_allocate ends for every width of usize_t, every
\* capacity the pool can have and every request, as long as the pool has to
\* grow to no more than half of what usize_t can count.
THEOREM GfxGrowthEnds == Spec => []GrowthEnds
<1>1. Init => HasCapacity /\ GrowthEnds
  BY GfxAssumption DEF Init, InitPool, HasCapacity, GrowthEnds, Idle
<1>2. ASSUME PoolInv, HasCapacity, GrowthEnds, [Next]_vars
      PROVE  GrowthEnds'
  <2>1. CASE AllocateSpins
    <3>1. /\ pool' = pool /\ call.op = "search" /\ call'.shape = call.shape
          /\ NeedsGrow(Request) /\ Enough(Request) = {}
      BY <1>2, <2>1 DEF AllocateSpins, Missed, PoolInv, TypeOK
    <3>2. End(Request) \in Nat /\ pool.capacity # 0 /\ TypeOK
      BY <1>2, <3>1, EndType DEF PoolInv, SearchOK, HasCapacity
    <3>3. End(Request) > Word \div 2
      BY <3>1, <3>2, LoopEnds
    <3>4. End(Request)' = End(Request)
      BY <3>1 DEF End, Request
    <3> QED
      BY <3>3, <3>4 DEF GrowthEnds
  <2>2. CASE UNCHANGED vars
    BY <1>2, <2>2 DEF vars, GrowthEnds, End, Request
  <2>3. CASE ~AllocateSpins /\ Next
    <3>1. call'.op # "spin"
      BY <1>2, <2>3, OnlySpins
    <3> QED
      BY <3>1 DEF GrowthEnds
  <2> QED
    BY <1>2, <2>1, <2>2, <2>3
<1> QED
  BY <1>1, <1>2, NextHasCapacity, PoolInvariant, PTL DEF Spec

===============================================================================
