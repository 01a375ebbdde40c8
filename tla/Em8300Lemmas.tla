------------------------------ MODULE Em8300Lemmas ------------------------------
(***************************************************************************)
(* Facts that proofs about several components need: arithmetic of rings,    *)
(* induction, the operator & (Em8300Bits), and lists of calls.              *)
(***************************************************************************)
EXTENDS Em8300Bits, WellFoundedInduction, SequenceTheorems, TLAPS

-------------------------------------------------------------------------------
(* Arithmetic. *)

\* Quotient and remainder.
LEMMA DivMod ==
  ASSUME NEW n \in Nat \ {0}, NEW x \in Int, NEW q, NEW r, q = x \div n, r = x % n
  PROVE  q \in Int /\ r \in 0 .. n - 1 /\ x = n * q + r
OBVIOUS

\* The remainder of a number that is a multiple and a rest.
LEMMA RestIsRemainder ==
  ASSUME NEW n \in Nat \ {0}, NEW q \in Int, NEW r \in 0 .. n - 1
  PROVE  (n * q + r) % n = r
<1> DEFINE x == n * q + r
           d == x \div n
           m == x % n
           k == q - d
<1>1. x \in Int
  OBVIOUS
<1> HIDE DEF x
<1>2. d \in Int /\ m \in 0 .. n - 1 /\ x = n * d + m
  BY <1>1, DivMod
<1> HIDE DEF d, m
<1>3. n * k = m - r /\ k \in Int
  BY <1>2 DEF x
<1> HIDE DEF k
<1>4. n * k < n /\ n * k > -n
  BY <1>2, <1>3
<1>5. k = 0
  <2>1. CASE k >= 1
    BY <1>3, <1>4, <2>1
  <2>2. CASE k <= -1
    BY <1>3, <1>4, <2>2
  <2>3. QED BY <1>3, <2>1, <2>2
<1>6. m = r
  BY <1>2, <1>3, <1>5
<1>7. QED BY <1>6 DEF m, x

\* Adding less than the divisor, or as much.
LEMMA RemainderOfSum ==
  ASSUME NEW n \in Nat \ {0}, NEW a \in Nat, NEW b \in 0 .. n
  PROVE  /\ a % n \in 0 .. n - 1
         /\ (a + b) % n = IF (a % n) + b >= n THEN (a % n) + b - n ELSE (a % n) + b
<1> DEFINE q == a \div n
           r == a % n
<1>1. q \in Int /\ r \in 0 .. n - 1 /\ a = n * q + r
  BY DivMod
<1> HIDE DEF q, r
<1>2. CASE r + b < n
  <2>1. a + b = n * q + (r + b) /\ r + b \in 0 .. n - 1
    BY <1>1, <1>2
  <2>2. (a + b) % n = r + b
    BY <1>1, <2>1, RestIsRemainder
  <2>3. QED BY <1>1, <1>2, <2>2 DEF r
<1>3. CASE r + b >= n
  <2>1. a + b = n * (q + 1) + (r + b - n) /\ r + b - n \in 0 .. n - 1 /\ q + 1 \in Int
    BY <1>1, <1>3
  <2>2. (a + b) % n = r + b - n
    BY <2>1, RestIsRemainder
  <2>3. QED BY <1>1, <1>3, <2>2 DEF r
<1>4. QED BY <1>1, <1>2, <1>3

\* The distance from one place of a ring of n to another.
LEMMA RemainderOfDifference ==
  ASSUME NEW n \in Nat \ {0}, NEW a \in 0 .. n - 1, NEW b \in 0 .. n - 1
  PROVE  (a - b) % n = IF a >= b THEN a - b ELSE a - b + n
<1>1. CASE a >= b
  <2>1. a - b = n * 0 + (a - b) /\ a - b \in 0 .. n - 1
    BY <1>1
  <2>2. QED BY <1>1, <2>1, RestIsRemainder
<1>2. CASE a < b
  <2>1. a - b = n * (-1) + (a - b + n) /\ a - b + n \in 0 .. n - 1
    BY <1>2
  <2>2. QED BY <1>2, <2>1, RestIsRemainder
<1>3. QED BY <1>1, <1>2

\* The next place of a ring.
LEMMA NextPlace ==
  ASSUME NEW n \in Nat \ {0}, NEW i \in 0 .. n - 1
  PROVE  (i + 1) % n = IF i + 1 = n THEN 0 ELSE i + 1
<1>1. CASE i + 1 = n
  <2>1. i + 1 = n * 1 + 0
    BY <1>1
  <2>2. QED BY <1>1, <2>1, RestIsRemainder
<1>2. CASE i + 1 # n
  <2>1. i + 1 = n * 0 + (i + 1) /\ i + 1 \in 0 .. n - 1
    BY <1>2
  <2>2. QED BY <1>2, <2>1, RestIsRemainder
<1>3. QED BY <1>1, <1>2

\* Induction, for a set in the place of a predicate.
LEMMA SetInduction ==
  ASSUME NEW S, 0 \in S, \A n \in Nat : n \in S => n + 1 \in S
  PROVE  Nat \subseteq S
<1> DEFINE T == Nat \ S
<1> SUFFICES ASSUME T # {} PROVE FALSE
  OBVIOUS
<1> DEFINE R == {ss \in Nat \X Nat : ss[1] < ss[2]}
<1>0. IsWellFoundedOn(R, Nat)
  BY NatLessThanWellFounded DEF OpToRel
<1>1. PICK x \in T : \A y \in T : ~ (<<y, x>> \in R)
  <2> HIDE DEF R
  <2>1. QED BY <1>0, WFMin
<1>2. \A y \in Nat : y < x => y \in S
  BY <1>1
<1>3. x # 0 /\ x - 1 \in Nat /\ x - 1 < x
  BY <1>1
<1>4. QED BY <1>1, <1>2, <1>3

-------------------------------------------------------------------------------
(* The operator &. *)

\* The definition of And has a solution, which therefore And is.
LEMMA AndUnfolds ==
  ASSUME NEW x \in Words, NEW y \in Words
  PROVE  And[<<x, y>>] = IF x = 0 THEN 0
                         ELSE 2 * And[<<x \div 2, y \div 2>>] + (x % 2) * (y % 2)
<1> DEFINE Body(f, p) == IF p[1] = 0 THEN 0
                         ELSE 2 * f[<<p[1] \div 2, p[2] \div 2>>] + (p[1] % 2) * (p[2] % 2)
           Upto(f, k) == [p \in (0 .. k) \X Words |-> Body(f, p)]
           Defined == {k \in Nat : \E f : f = Upto(f, k)}
<1> HIDE DEF LargestWord
<1>0. LargestWord \in Nat
  BY DEF LargestWord
<1>1. 0 \in Defined
  <2> DEFINE g == [p \in (0 .. 0) \X Words |-> 0]
  <2>1. g = Upto(g, 0)
    OBVIOUS
  <2> HIDE DEF g
  <2>2. QED BY <2>1
<1>2. ASSUME NEW k \in Nat, k \in Defined PROVE k + 1 \in Defined
  <2>1. PICK f : f = Upto(f, k)
    BY <1>2
  <2> DEFINE g == [p \in (0 .. k + 1) \X Words |->
                     IF p[1] = k + 1 THEN Body(f, p) ELSE f[p]]
  <2>2. ASSUME NEW p \in (0 .. k + 1) \X Words PROVE g[p] = Body(g, p)
    <3>1. CASE p[1] = 0
      <4>1. g[p] = f[p] /\ f[p] = Body(f, p)
        BY <2>1, <3>1
      <4>2. QED BY <3>1, <4>1
    <3>2. CASE p[1] # 0
      <4> DEFINE half == <<p[1] \div 2, p[2] \div 2>>
      <4>1. half \in (0 .. k) \X Words
        BY <1>0, <3>2 DEF Words
      <4>2. g[half] = f[half]
        BY <4>1
      <4>3. Body(f, p) = Body(g, p)
        BY <4>2
      <4>4. g[p] = Body(f, p)
        <5>1. CASE p[1] = k + 1
          BY <5>1
        <5>2. CASE p \in (0 .. k) \X Words
          <6>1. g[p] = f[p]
            BY <5>2
          <6>2. f[p] = Body(f, p)
            <7> HIDE DEF Body, g
            <7>1. QED BY <2>1, <5>2
          <6>3. QED BY <6>1, <6>2
        <5>3. QED BY <5>1, <5>2
      <4>5. QED BY <4>3, <4>4
    <3>3. QED BY <3>1, <3>2
  <2>3. g = [p \in (0 .. k + 1) \X Words |-> g[p]]
    OBVIOUS
  <2> HIDE DEF g, Body
  <2>4. g = Upto(g, k + 1)
    BY <2>2, <2>3
  <2>5. QED BY <2>4
<1>3. LargestWord \in Defined
  <2> HIDE DEF Defined
  <2>1. QED BY <1>0, <1>1, <1>2, SetInduction
<1>4. \E f : f = Upto(f, LargestWord)
  BY <1>3
<1>5. And = Upto(And, LargestWord)
  <2>1. And = CHOOSE f : f = Upto(f, LargestWord)
    BY DEF And, Words
  <2> HIDE DEF Upto
  <2>2. QED BY <1>4, <2>1
<1> HIDE DEF Body
<1>6. And[<<x, y>>] = Body(And, <<x, y>>)
  BY <1>5 DEF Words
<1>7. QED BY <1>6 DEF Body

\* A number, its half and its lowest bit, and those of the number before it.
LEMMA Halves ==
  ASSUME NEW x \in Nat
  PROVE  x % 2 \in {0, 1} /\ x = 2 * (x \div 2) + (x % 2)
<1> DEFINE q == x \div 2
           r == x % 2
<1>1. r \in 0 .. 2 - 1 /\ x = 2 * q + r
  BY DivMod
<1> HIDE DEF q, r
<1>2. r \in {0, 1}
  BY <1>1
<1>3. QED BY <1>1, <1>2 DEF q, r

LEMMA HalvesBefore ==
  ASSUME NEW x \in Nat \ {0}
  PROVE  /\ x % 2 = 1 => (x - 1) \div 2 = x \div 2 /\ (x - 1) % 2 = 0
         /\ x % 2 = 0 => (x - 1) \div 2 = x \div 2 - 1 /\ (x - 1) % 2 = 1
OBVIOUS

\* Words are numbers, and what is below a word is a word.
LEMMA WordsAreNumbers ==
  ASSUME NEW x \in Words
  PROVE  x \in Nat /\ x % 2 \in {0, 1} /\ x = 2 * (x \div 2) + (x % 2)
         /\ \A y \in 0 .. x : y \in Words
<1> DEFINE top == LargestWord
<1>1. top \in Nat
  BY DEF LargestWord
<1> HIDE DEF top
<1>2. x \in 0 .. top
  BY DEF Words, top
<1>3. \A y \in 0 .. x : y \in 0 .. top
  BY ONLY <1>1, <1>2
<1>4. x \in Nat
  BY ONLY <1>1, <1>2
<1>5. x % 2 \in {0, 1} /\ x = 2 * (x \div 2) + (x % 2)
  BY <1>4, Halves
<1>6. QED BY <1>3, <1>4, <1>5 DEF Words, top

\* And of zero, and of any other word.
LEMMA AndOfZero ==
  ASSUME NEW y \in Words
  PROVE  And[<<0, y>>] = 0
<1>1. 0 \in Words
  BY WordsAreNumbers
<1>2. QED BY <1>1, AndUnfolds

LEMMA AndOfMore ==
  ASSUME NEW x \in Words, NEW y \in Words, x # 0
  PROVE  And[<<x, y>>] = 2 * And[<<x \div 2, y \div 2>>] + (x % 2) * (y % 2)
BY AndUnfolds

\* What & gives is at most its second operand.
LEMMA AndIsBelow ==
  ASSUME NEW x \in Words, NEW y \in Words
  PROVE  And[<<x, y>>] \in 0 .. y
<1> DEFINE Good == {k \in Nat : \A a, b \in Words : a <= k => And[<<a, b>>] \in 0 .. b}
<1>1. 0 \in Good
  <2>1. ASSUME NEW a \in Words, NEW b \in Words, a <= 0 PROVE And[<<a, b>>] \in 0 .. b
    <3>1. a = 0 /\ b \in Nat
      BY <2>1, WordsAreNumbers
    <3>2. QED BY <3>1, AndOfZero
  <2>2. QED BY <2>1
<1>2. ASSUME NEW k \in Nat, k \in Good PROVE k + 1 \in Good
  <2>1. ASSUME NEW a \in Words, NEW b \in Words, a <= k + 1
        PROVE  And[<<a, b>>] \in 0 .. b
    <3>0. /\ a \in Nat /\ a % 2 \in {0, 1} /\ a = 2 * (a \div 2) + (a % 2)
          /\ b \in Nat /\ b % 2 \in {0, 1} /\ b = 2 * (b \div 2) + (b % 2)
      BY WordsAreNumbers
    <3>1. CASE a = 0
      BY <3>0, <3>1, AndOfZero
    <3>2. CASE a # 0
      <4> DEFINE h == And[<<a \div 2, b \div 2>>]
      <4>1. a \div 2 \in Words /\ b \div 2 \in Words /\ a \div 2 <= k
        <5>1. a \div 2 \in 0 .. a /\ b \div 2 \in 0 .. b /\ a \div 2 <= k
          BY <2>1, <3>0, <3>2
        <5>2. QED BY <5>1, WordsAreNumbers
      <4>2. h \in 0 .. (b \div 2)
        BY <1>2, <4>1
      <4>3. And[<<a, b>>] = 2 * h + (a % 2) * (b % 2)
        BY <3>2, AndOfMore
      <4>4. (a % 2) * (b % 2) \in 0 .. (b % 2)
        BY <3>0
      <4>5. b \div 2 \in Nat
        BY <3>0
      <4> HIDE DEF h
      <4>6. QED BY <3>0, <4>2, <4>3, <4>4, <4>5
    <3>3. QED BY <3>1, <3>2
  <2>2. QED BY <2>1
<1>3. Nat \subseteq Good
  <2> HIDE DEF Good
  <2>1. QED BY <1>1, <1>2, SetInduction
<1>4. x \in Good /\ x \in Nat
  <2>1. x \in Nat
    BY WordsAreNumbers
  <2> HIDE DEF Good
  <2>2. QED BY <1>3, <2>1
<1>5. QED
  <2> DEFINE z == And
  <2> HIDE DEF z
  <2>1. \A a, b \in Words : a <= x => z[<<a, b>>] \in 0 .. b
    BY <1>4 DEF z
  <2>2. x <= x
    BY <1>4
  <2>3. QED BY <2>1, <2>2 DEF z

\* A mask of the lower bits is a remainder: for one bit more, if for so many.
LEMMA MaskOfOneMore ==
  ASSUME NEW m \in Nat \ {0}, 2 * m - 1 \in Words,
         \A a \in Words : And[<<a, m - 1>>] = a % m
  PROVE  \A a \in Words : And[<<a, 2 * m - 1>>] = a % (2 * m)
<1> SUFFICES ASSUME NEW a \in Words PROVE And[<<a, 2 * m - 1>>] = a % (2 * m)
  OBVIOUS
<1>1. a \in Nat /\ a % 2 \in {0, 1} /\ a = 2 * (a \div 2) + (a % 2)
  BY WordsAreNumbers
<1>2. CASE a = 0
  <2>1. And[<<a, 2 * m - 1>>] = 0
    BY <1>2, AndOfZero
  <2>2. 0 = (2 * m) * 0 + 0 /\ 2 * m \in Nat \ {0} /\ 0 \in 0 .. 2 * m - 1
    OBVIOUS
  <2>3. 0 % (2 * m) = 0
    BY <2>2, RestIsRemainder
  <2>4. QED BY <1>2, <2>1, <2>3
<1>3. CASE a # 0
  <2> DEFINE h == a \div 2
             b == a % 2
  <2>1. h \in Words /\ h \in Nat
    <3>1. h \in 0 .. a
      BY <1>1
    <3>2. QED BY <3>1, WordsAreNumbers
  <2>2. (2 * m - 1) \div 2 = m - 1 /\ (2 * m - 1) % 2 = 1
    OBVIOUS
  <2>3. And[<<a, 2 * m - 1>>] = 2 * And[<<h, m - 1>>] + b * 1
    <3>1. And[<<a, 2 * m - 1>>] = 2 * And[<<h, (2 * m - 1) \div 2>>]
                                  + b * ((2 * m - 1) % 2)
      BY <1>3, AndOfMore
    <3>2. QED BY <2>2, <3>1
  <2>6. b \in {0, 1} /\ a = 2 * h + b
    BY <1>1
  <2> HIDE DEF h, b
  <2> DEFINE q == h \div m
             r == h % m
  <2>4. And[<<h, m - 1>>] = r
    BY <2>1
  <2>5. q \in Int /\ r \in 0 .. m - 1 /\ h = m * q + r
    <3>1. h \in Int /\ m \in Nat \ {0}
      BY <2>1
    <3>2. QED BY ONLY <3>1, DivMod
  <2> HIDE DEF q, r
  <2> DEFINE s == 2 * r + b
             n == 2 * m
  <2>7. And[<<a, 2 * m - 1>>] = s
    BY <2>3, <2>4, <2>5, <2>6
  <2>8. s \in 0 .. n - 1 /\ n \in Nat \ {0}
    BY <2>5, <2>6
  <2>9. a = n * q + s
    <3>1. 2 * (m * q) = (2 * m) * q
      BY <2>5
    <3>2. m * q \in Int
      BY <2>5
    <3> DEFINE t == m * q
    <3> HIDE DEF t
    <3>3. h = t + r /\ t \in Int
      BY <2>5, <3>2 DEF t
    <3>4. 2 * h + b = 2 * t + (2 * r + b)
      BY <2>5, <2>6, <3>3
    <3>5. QED BY <2>6, <3>1, <3>4 DEF t
  <2>10. a % n = s
    <3> HIDE DEF s, n
    <3>1. (n * q + s) % n = s
      BY <2>5, <2>8, RestIsRemainder
    <3>2. QED BY <2>9, <3>1
  <2>11. QED BY <2>7, <2>10
<1>4. QED BY <1>2, <1>3

\* A word has all bits in common with itself.
LEMMA AndOfItself ==
  ASSUME NEW x \in Words
  PROVE  And[<<x, x>>] = x
<1> DEFINE Good == {k \in Nat : \A a \in Words : a <= k => And[<<a, a>>] = a}
<1>1. 0 \in Good
  <2>1. ASSUME NEW a \in Words, a <= 0 PROVE And[<<a, a>>] = a
    <3>1. a = 0
      BY <2>1, WordsAreNumbers
    <3>2. QED BY <3>1, AndOfZero
  <2>2. QED BY <2>1
<1>2. ASSUME NEW k \in Nat, k \in Good PROVE k + 1 \in Good
  <2>1. ASSUME NEW a \in Words, a <= k + 1 PROVE And[<<a, a>>] = a
    <3>1. a \in Nat /\ a % 2 \in {0, 1} /\ a = 2 * (a \div 2) + (a % 2)
      BY WordsAreNumbers
    <3>2. CASE a = 0
      BY <3>2, AndOfZero
    <3>3. CASE a # 0
      <4>1. a \div 2 \in 0 .. a /\ a \div 2 <= k
        BY <2>1, <3>1, <3>3
      <4>2. a \div 2 \in Words
        BY <4>1, WordsAreNumbers
      <4>3. And[<<a \div 2, a \div 2>>] = a \div 2
        BY <1>2, <4>1, <4>2
      <4>4. And[<<a, a>>] = 2 * (a \div 2) + (a % 2) * (a % 2)
        BY <3>3, <4>3, AndOfMore
      <4>5. (a % 2) * (a % 2) = a % 2
        BY <3>1
      <4>6. QED BY <3>1, <4>4, <4>5
    <3>4. QED BY <3>2, <3>3
  <2>2. QED BY <2>1
<1>3. Nat \subseteq Good
  <2> HIDE DEF Good
  <2>1. QED BY <1>1, <1>2, SetInduction
<1>4. x \in Nat
  BY WordsAreNumbers
<1>5. QED BY <1>3, <1>4

\* A mask of one less than a power of two is a remainder.
LEMMA MaskIsRemainder ==
  ASSUME NEW n \in Words, PowerOfTwo(n), NEW x \in Words
  PROVE  And[<<x, n - 1>>] = x % n
<1> DEFINE Mask(m) == \A a \in Words : And[<<a, m - 1>>] = a % m
           Good == {k \in Nat : \A m \in Words : PowerOfTwo(m) /\ m <= k => Mask(m)}
<1>1. 0 \in Good
  <2>1. ASSUME NEW m \in Words, PowerOfTwo(m), m <= 0 PROVE FALSE
    BY <2>1, WordsAreNumbers DEF PowerOfTwo
  <2>2. QED BY <2>1
<1>2. ASSUME NEW k \in Nat, k \in Good PROVE k + 1 \in Good
  <2>1. ASSUME NEW m \in Words, PowerOfTwo(m), m <= k + 1 PROVE Mask(m)
    <3> DEFINE h == m \div 2
    <3>1. m \in Nat \ {0} /\ m % 2 \in {0, 1} /\ m = 2 * h + (m % 2) /\ And[<<m, m - 1>>] = 0
      BY <2>1, WordsAreNumbers DEF PowerOfTwo
    <3>2. h \in Words /\ m - 1 \in Words
      <4>1. h \in 0 .. m /\ m - 1 \in 0 .. m
        BY <3>1
      <4>2. QED BY <4>1, WordsAreNumbers
    <3>3. And[<<m, m - 1>>] = 2 * And[<<h, (m - 1) \div 2>>] + (m % 2) * ((m - 1) % 2)
      BY <3>1, <3>2, AndOfMore
    <3>4. CASE m = 1
      <4>1. ASSUME NEW a \in Words PROVE And[<<a, 0>>] = a % 1
        <5>1. a \in Nat /\ 0 \in Words
          BY WordsAreNumbers
        <5>2. And[<<a, 0>>] \in 0 .. 0
          BY <5>1, AndIsBelow
        <5>3. a % 1 = 0
          BY <5>1
        <5> DEFINE z == And[<<a, 0>>]
        <5> HIDE DEF z
        <5>4. z = 0
          BY <5>2 DEF z
        <5>5. QED BY <5>3, <5>4 DEF z
      <4>2. \A a \in Words : And[<<a, 0>>] = a % 1
        BY <4>1
      <4>3. m - 1 = 0
        BY <3>4
      <4>4. QED BY <3>4, <4>2, <4>3
    <3>5. CASE m # 1 /\ m % 2 = 1
      <4>1. (m - 1) \div 2 = h /\ (m - 1) % 2 = 0 /\ h # 0
        <5>1. (m - 1) \div 2 = h /\ (m - 1) % 2 = 0
          BY <3>1, <3>5, HalvesBefore
        <5>2. QED BY <3>1, <3>5, <5>1
      <4>2. And[<<h, h>>] = h
        BY <3>2, AndOfItself
      <4>3. h \in Nat /\ 2 * h + (m % 2) * 0 = 0
        BY <3>1, <3>3, <4>1, <4>2
      <4>4. QED BY <3>1, <4>1, <4>3
    <3>6. CASE m # 1 /\ m % 2 = 0
      <4>1. (m - 1) \div 2 = h - 1 /\ h # 0 /\ h \in Nat /\ h <= k /\ m = 2 * h
        BY <2>1, <3>1, <3>6
      <4>2. h - 1 \in Words
        <5>1. h - 1 \in 0 .. h
          BY <4>1
        <5>2. QED BY <3>2, <5>1, WordsAreNumbers
      <4> DEFINE z == And[<<h, h - 1>>]
      <4>3. z \in Nat
        <5>1. z \in 0 .. h - 1
          BY <3>2, <4>2, AndIsBelow
        <5>2. QED BY <4>1, <5>1
      <4>4. 2 * z + 0 * ((m - 1) % 2) = 0 /\ (m - 1) % 2 \in Nat
        BY <3>1, <3>3, <3>6, <4>1
      <4>5. z = 0
        <5> HIDE DEF z
        <5>1. QED BY <4>3, <4>4
      <4>6. PowerOfTwo(h)
        BY <4>1, <4>5 DEF PowerOfTwo
      <4>7. Mask(h)
        BY <1>2, <3>2, <4>1, <4>6
      <4> HIDE DEF h
      <4>8. Mask(2 * h)
        <5>1. 2 * h - 1 \in Words
          BY <3>2, <4>1
        <5>2. QED BY <4>1, <4>7, <5>1, MaskOfOneMore
      <4>9. QED BY <4>1, <4>8
    <3>7. QED BY <3>1, <3>4, <3>5, <3>6
  <2> HIDE DEF Mask
  <2>2. QED BY <2>1
<1>3. Nat \subseteq Good
  <2> HIDE DEF Good
  <2>1. QED BY <1>1, <1>2, SetInduction
<1>4. n \in Nat
  BY WordsAreNumbers
<1>5. Mask(n)
  <2> HIDE DEF Mask
  <2>1. QED BY <1>3, <1>4
<1>6. QED BY <1>5

-------------------------------------------------------------------------------
(* Lists, as the models make their handlers of calls. *)

\* The calls of a list.
Calls(l) == {l[i] : i \in 1 .. Len(l)}

\* A list without its first call.
LEMMA ListLeft ==
  ASSUME NEW S, NEW l \in Seq(S), l # << >>
  PROVE  /\ Head(l) \in S /\ Tail(l) \in Seq(S) /\ Head(l) = l[1]
         /\ Len(Tail(l)) = Len(l) - 1 /\ Len(l) \in Nat /\ Len(l) > 0
         /\ \A i \in 1 .. Len(l) - 1 : Tail(l)[i] = l[i + 1]
BY HeadTailProperties, EmptySeq, LenProperties

\* Its calls.
LEMMA CallsLeft ==
  ASSUME NEW S, NEW l \in Seq(S), l # << >>
  PROVE  Calls(l) = {Head(l)} \cup Calls(Tail(l))
<1> DEFINE t == Tail(l)
           n == Len(l)
<1>1. /\ Head(l) = l[1] /\ Len(t) = n - 1 /\ n \in Nat /\ n > 0
      /\ \A i \in 1 .. n - 1 : t[i] = l[i + 1]
  BY ListLeft
<1> HIDE DEF t, n
<1>2. ASSUME NEW i \in 1 .. n PROVE l[i] = Head(l) \/ \E j \in 1 .. n - 1 : t[j] = l[i]
  <2>1. CASE i = 1
    BY <1>1, <2>1
  <2>2. CASE i # 1
    <3>1. i - 1 \in 1 .. n - 1 /\ (i - 1) + 1 = i
      BY <1>1, <2>2
    <3>2. QED BY <1>1, <3>1
  <2>3. QED BY <2>1, <2>2
<1>3. ASSUME NEW i \in 1 .. n - 1 PROVE \E j \in 1 .. n : l[j] = t[i]
  <2>1. i + 1 \in 1 .. n
    BY <1>1
  <2>2. QED BY <1>1, <2>1
<1>4. 1 \in 1 .. n
  BY <1>1
<1>5. QED BY <1>1, <1>2, <1>3, <1>4 DEF Calls, t, n

\* The calls of two lists, one after the other.
LEMMA CallsJoined ==
  ASSUME NEW S, NEW a \in Seq(S), NEW b \in Seq(S)
  PROVE  /\ a \o b \in Seq(S)
         /\ Calls(a \o b) = Calls(a) \cup Calls(b)
<1> DEFINE l == a \o b
           m == Len(a)
           n == Len(b)
<1>1. /\ l \in Seq(S) /\ Len(l) = m + n /\ m \in Nat /\ n \in Nat
      /\ \A i \in 1 .. m + n : l[i] = IF i <= m THEN a[i] ELSE b[i - m]
  BY ConcatProperties, LenProperties
<1> HIDE DEF l, m, n
<1>2. ASSUME NEW i \in 1 .. m + n PROVE l[i] \in Calls(a) \cup Calls(b)
  <2>1. CASE i <= m
    BY <1>1, <2>1 DEF Calls, m
  <2>2. CASE i > m
    <3>1. i - m \in 1 .. n
      BY <1>1, <2>2
    <3>2. QED BY <1>1, <2>2, <3>1 DEF Calls, n
  <2>3. QED BY <1>1, <2>1, <2>2
<1>3. ASSUME NEW i \in 1 .. m PROVE \E j \in 1 .. m + n : l[j] = a[i]
  BY <1>1
<1>4. ASSUME NEW i \in 1 .. n PROVE \E j \in 1 .. m + n : l[j] = b[i]
  <2>1. i + m \in 1 .. m + n /\ (i + m) - m = i /\ ~(i + m <= m)
    BY <1>1
  <2>2. QED BY <1>1, <2>1
<1>5. Calls(l) = {l[i] : i \in 1 .. m + n}
  BY <1>1 DEF Calls
<1>6. Calls(l) \subseteq Calls(a) \cup Calls(b)
  BY <1>2, <1>5
<1>7. Calls(a) \subseteq Calls(l) /\ Calls(b) \subseteq Calls(l)
  <2>1. /\ Calls(a) = {a[i] : i \in 1 .. m}
        /\ Calls(b) = {b[i] : i \in 1 .. n}
    BY DEF Calls, m, n
  <2>2. QED BY ONLY <1>3, <1>4, <1>5, <2>1
<1>8. QED BY <1>1, <1>6, <1>7 DEF l

\* A list of two calls, and of three.
LEMMA Two ==
  ASSUME NEW S, NEW a \in S, NEW b \in S, NEW l, l = <<a, b>>
  PROVE  l \in Seq(S) /\ Len(l) = 2 /\ l[1] = a /\ l[2] = b /\ Calls(l) = {a, b}
BY DEF Calls

LEMMA Three ==
  ASSUME NEW S, NEW a \in S, NEW b \in S, NEW c \in S, NEW l, l = <<a, b, c>>
  PROVE  /\ l \in Seq(S) /\ Len(l) = 3 /\ l[1] = a /\ l[2] = b /\ l[3] = c
         /\ Calls(l) = {a, b, c}
<1>1. l \in Seq(S) /\ Len(l) = 3 /\ l[1] = a /\ l[2] = b /\ l[3] = c
  OBVIOUS
<1>2. 1 .. 3 = {1, 2, 3}
  OBVIOUS
<1>3. QED BY <1>1, <1>2 DEF Calls

\* Each call in C has one in D after it.
Followed(l, C, D) ==
  \A i \in 1 .. Len(l) : l[i] \in C => \E j \in i + 1 .. Len(l) : l[j] \in D

\* What is so of a list is so of the rest of it, and of the first call.
LEMMA FollowedLeft ==
  ASSUME NEW S, NEW l \in Seq(S), l # << >>, NEW C, NEW D, Followed(l, C, D)
  PROVE  /\ Followed(Tail(l), C, D)
         /\ Head(l) \in C => Calls(Tail(l)) \cap D # {}
<1> DEFINE t == Tail(l)
           n == Len(l)
<1>1. /\ Head(l) = l[1] /\ Len(t) = n - 1 /\ n \in Nat /\ n > 0
      /\ \A i \in 1 .. n - 1 : t[i] = l[i + 1]
  BY ListLeft
<1>2. \A i \in 1 .. n : l[i] \in C => \E j \in i + 1 .. n : l[j] \in D
  BY DEF Followed
<1> HIDE DEF t, n
<1>3. ASSUME NEW i \in 1 .. n - 1, t[i] \in C PROVE \E j \in i + 1 .. n - 1 : t[j] \in D
  <2>1. i + 1 \in 1 .. n /\ l[i + 1] \in C
    BY <1>1, <1>3
  <2>2. PICK j \in (i + 1) + 1 .. n : l[j] \in D
    BY <1>2, <2>1
  <2>3. j - 1 \in i + 1 .. n - 1 /\ j - 1 \in 1 .. n - 1 /\ (j - 1) + 1 = j
    BY <1>1
  <2>4. QED BY <1>1, <2>2, <2>3
<1>4. ASSUME Head(l) \in C PROVE \E j \in 1 .. n - 1 : t[j] \in D
  <2>1. 1 \in 1 .. n /\ l[1] \in C
    BY <1>1, <1>4
  <2>2. PICK j \in 1 + 1 .. n : l[j] \in D
    BY <1>2, <2>1
  <2>3. j - 1 \in 1 .. n - 1 /\ (j - 1) + 1 = j
    BY <1>1
  <2>4. QED BY <1>1, <2>2, <2>3
<1>5. QED BY <1>1, <1>3, <1>4 DEF Followed, Calls, t

\* What is so of two lists is so of one after the other, if the second makes up for what
\* the first leaves open.
LEMMA FollowedJoined ==
  ASSUME NEW S, NEW a \in Seq(S), NEW b \in Seq(S), NEW C, NEW D,
         Followed(b, C, D), Followed(a, C, D) \/ Calls(a) \cap C = {} \/ Calls(b) \cap D # {}
  PROVE  Followed(a \o b, C, D)
<1> DEFINE l == a \o b
           m == Len(a)
           n == Len(b)
<1>1. /\ Len(l) = m + n /\ m \in Nat /\ n \in Nat
      /\ \A i \in 1 .. m + n : l[i] = IF i <= m THEN a[i] ELSE b[i - m]
  BY ConcatProperties, LenProperties
<1>2. \A i \in 1 .. n : b[i] \in C => \E j \in i + 1 .. n : b[j] \in D
  BY DEF Followed
<1>3. \/ \A i \in 1 .. m : a[i] \in C => \E j \in i + 1 .. m : a[j] \in D
      \/ \E j \in 1 .. n : b[j] \in D
  BY DEF Followed, Calls
<1> HIDE DEF l, m, n
<1>4. ASSUME NEW i \in 1 .. m + n, l[i] \in C PROVE \E j \in i + 1 .. m + n : l[j] \in D
  <2>1. CASE i > m
    <3>1. i - m \in 1 .. n /\ b[i - m] \in C
      BY <1>1, <1>4, <2>1
    <3>2. PICK j \in (i - m) + 1 .. n : b[j] \in D
      BY <1>2, <3>1
    <3>3. j + m \in i + 1 .. m + n /\ j + m \in 1 .. m + n /\ (j + m) - m = j /\ ~(j + m <= m)
      BY <1>1, <2>1
    <3>4. QED BY <1>1, <3>2, <3>3
  <2>2. CASE i <= m
    <3>1. CASE \E j \in 1 .. n : b[j] \in D
      <4>1. PICK j \in 1 .. n : b[j] \in D
        BY <3>1
      <4>2. j + m \in i + 1 .. m + n /\ j + m \in 1 .. m + n /\ (j + m) - m = j /\ ~(j + m <= m)
        BY <1>1, <2>2
      <4>3. QED BY <1>1, <4>1, <4>2
    <3>2. CASE \A k \in 1 .. m : a[k] \in C => \E j \in k + 1 .. m : a[j] \in D
      <4>1. i \in 1 .. m /\ a[i] \in C
        BY <1>1, <1>4, <2>2
      <4>2. PICK j \in i + 1 .. m : a[j] \in D
        BY <3>2, <4>1
      <4>3. j \in i + 1 .. m + n /\ j \in 1 .. m + n /\ j <= m
        BY <1>1
      <4>4. QED BY <1>1, <4>2, <4>3
    <3>3. QED BY <1>3, <3>1, <3>2
  <2>3. QED BY <1>1, <2>1, <2>2
<1>5. QED BY <1>1, <1>4 DEF Followed, l
===============================================================================
