-------------------------- MODULE Em8300BusProofs ----------------------------
(***************************************************************************)
(* Proofs about the pins of a card that encoder, overlay chip and clock    *)
(* generator share (Em8300Bus), for any transfers of bytes of two to eight *)
(* bits.                                                                   *)
(*                                                                         *)
(* A transfer is a list of writes of pins, made one by one.  What a device *)
(* will have taken when all are made can be read off the writes that are   *)
(* left: BusInv says that they take the device from where it is to the end *)
(* of its transfer, and that its clock is high again then.                 *)
(***************************************************************************)
EXTENDS MCControl, Em8300Lemmas, SequenceTheorems, FiniteSetTheorems, TLAPS

-------------------------------------------------------------------------------
(* What a device makes of a list of writes. *)

\* What a device sees of the pins and has taken of its bits.
Levels == 0 .. 1
Views == [pin : [Bus!Lines -> Levels], drive : Levels, n : Nat, right : BOOLEAN,
          listening : BOOLEAN]

\* Its clock, and whether it takes a bit at write w: at an edge of its clock that
\* rises, the encoder only between start and stop.
ClockOf(d) == IF d = "clockgen" THEN "clkgen" ELSE "clk"
TakesBit(d, s, w) ==
  /\ w.do = "pin" /\ w.line = ClockOf(d) /\ s.pin[w.line] = 0 /\ w.arg = 1
  /\ d = "encoder" => s.listening

\* The bit on the line is the one meant for it next, or none was.
RightBit(bits, s) == s.n + 1 <= Len(bits) => s.pin["data"] = bits[s.n + 1]

\* What it has seen and taken after write w, of a transfer that means bits for it.
Most(n) == IF n > 5 * Width THEN 5 * Width ELSE n
ViewAfter(d, bits, s, w) ==
  [pin |-> IF w.do = "pin" THEN [s.pin EXCEPT ![w.line] = w.arg] ELSE s.pin,
   drive |-> IF w.do = "oe" THEN w.arg ELSE s.drive,
   n |-> IF TakesBit(d, s, w) THEN Most(s.n + 1) ELSE s.n,
   right |-> IF TakesBit(d, s, w)
             THEN s.right /\ RightBit(bits, s)
             ELSE IF w.do = "sample" /\ d = "em9010"
             THEN s.right /\ s.drive = 0 /\ s.n = Len(bits) + w.arg - 1
             ELSE s.right,
   listening |->
     IF w.do = "pin" /\ w.line = "data" /\ s.pin["clk"] = 1 /\ s.pin["data"] # w.arg
     THEN w.arg = 0 ELSE s.listening]

\* The writes there are.
Sets == {Bus!Set(l, v) : l \in Bus!Lines, v \in Levels}
Drives == {Bus!Drive(v) : v \in Levels}
Samples == {[do |-> "sample", arg |-> i] : i \in 1 .. Width}
AllWrites == Sets \cup Drives \cup Samples

\* Those of the kernel's I2C algorithm, and those for the clock generator.
Wires == {Bus!Set(l, v) : l \in {"data", "clk"}, v \in Levels} \cup {Bus!Drive(1)}
ClockgenSets == {Bus!Set(l, v) : l \in {"data", "clkgen", "latch"}, v \in Levels}

\* Views of which nothing is asked but how many bits were taken, and the clock.
Blind == {S \in SUBSET Views :
            \A s \in S, t \in Views : t.n = s.n /\ t.pin["clkgen"] = s.pin["clkgen"] => t \in S}

\* From a view in S, list l leads to one in T; what it leads to in between is described by
\* sets in F.
Leads(F, d, bits, l, S, T) ==
  \E P \in [0 .. Len(l) -> F] :
    /\ P[0] = S /\ P[Len(l)] = T
    /\ \A i \in 1 .. Len(l) : \A s \in P[i - 1] : ViewAfter(d, bits, s, l[i]) \in P[i]

\* An empty list leads nowhere.
LEMMA LeadsEmpty ==
  ASSUME NEW F, NEW S \in F, NEW d, NEW bits
  PROVE  Leads(F, d, bits, << >>, S, S)
<1> DEFINE P == [i \in 0 .. 0 |-> S]
<1>1. P \in [0 .. Len(<< >>) -> F] /\ P[0] = S /\ P[Len(<< >>)] = S
  OBVIOUS
<1>2. 1 .. Len(<< >>) = {}
  OBVIOUS
<1> HIDE DEF P
<1>3. QED BY <1>1, <1>2 DEF Leads

\* A list of one write leads where the write does.
LEMMA LeadsOne ==
  ASSUME NEW F, NEW S \in F, NEW T \in F, NEW d, NEW bits, NEW w,
         \A s \in S : ViewAfter(d, bits, s, w) \in T
  PROVE  Leads(F, d, bits, <<w>>, S, T)
<1> DEFINE P == [i \in 0 .. 1 |-> IF i = 0 THEN S ELSE T]
<1>1. /\ P \in [0 .. 1 -> F] /\ P[0] = S /\ P[1] = T
      /\ Len(<<w>>) = 1 /\ <<w>>[1] = w
  OBVIOUS
<1> HIDE DEF P
<1>2. \A i \in 1 .. 1 : i = 1 /\ i - 1 = 0
  OBVIOUS
<1>3. QED BY <1>1, <1>2 DEF Leads

\* One list after another leads where the second leads from where the first does.
LEMMA LeadsJoined ==
  ASSUME NEW F, NEW S, NEW T, NEW U, NEW d, NEW bits, NEW W, NEW a \in Seq(W), NEW b \in Seq(W),
         Leads(F, d, bits, a, S, T), Leads(F, d, bits, b, T, U)
  PROVE  Leads(F, d, bits, a \o b, S, U)
<1> DEFINE l == a \o b
           m == Len(a)
           n == Len(b)
<1>1. /\ Len(l) = m + n /\ m \in Nat /\ n \in Nat
      /\ \A i \in 1 .. m + n : l[i] = IF i <= m THEN a[i] ELSE b[i - m]
  BY ConcatProperties, LenProperties
<1>2. PICK P \in [0 .. m -> F] :
        /\ P[0] = S /\ P[m] = T
        /\ \A i \in 1 .. m : \A s \in P[i - 1] : ViewAfter(d, bits, s, a[i]) \in P[i]
  BY DEF Leads
<1>3. PICK Q \in [0 .. n -> F] :
        /\ Q[0] = T /\ Q[n] = U
        /\ \A i \in 1 .. n : \A s \in Q[i - 1] : ViewAfter(d, bits, s, b[i]) \in Q[i]
  BY DEF Leads
<1> HIDE DEF l, m, n
<1> DEFINE R == [i \in 0 .. m + n |-> IF i <= m THEN P[i] ELSE Q[i - m]]
<1>4. \A i \in 0 .. m + n : (i <= m => i \in 0 .. m) /\ (~(i <= m) => i - m \in 0 .. n)
  BY <1>1
<1>5. R \in [0 .. m + n -> F]
  BY <1>2, <1>3, <1>4
<1>6. \A i \in 0 .. m + n : R[i] = IF i <= m THEN P[i] ELSE Q[i - m]
  OBVIOUS
<1> HIDE DEF R
<1>7. R[0] = S
  BY <1>1, <1>2, <1>6
<1>8. \A i \in 0 .. n : R[m + i] = Q[i]
  <2> TAKE i \in 0 .. n
  <2>1. CASE i = 0
    BY <1>1, <1>2, <1>3, <1>6, <2>1
  <2>2. CASE i # 0
    <3>1. m + i \in 0 .. m + n /\ ~(m + i <= m) /\ (m + i) - m = i
      BY <1>1, <2>2
    <3>2. QED BY <1>6, <3>1
  <2>3. QED BY <2>1, <2>2
<1>9. R[m + n] = U
  BY <1>1, <1>3, <1>8
<1>10. ASSUME NEW i \in 1 .. m + n, NEW s \in R[i - 1]
       PROVE  ViewAfter(d, bits, s, l[i]) \in R[i]
  <2>1. CASE i <= m
    <3>1. i \in 1 .. m /\ i - 1 \in 0 .. m + n /\ i - 1 <= m /\ i \in 0 .. m + n
      BY <1>1, <2>1
    <3>2. R[i - 1] = P[i - 1] /\ R[i] = P[i] /\ l[i] = a[i]
      BY <1>1, <1>6, <2>1, <3>1
    <3>3. QED BY <1>2, <1>10, <3>1, <3>2
  <2>2. CASE ~(i <= m)
    <3> DEFINE j == i - m
    <3>1. j \in 1 .. n /\ j \in 0 .. n /\ j - 1 \in 0 .. n /\ m + j = i /\ m + (j - 1) = i - 1
      BY <1>1, <2>2
    <3>2. R[i - 1] = Q[j - 1] /\ R[i] = Q[j] /\ l[i] = b[j]
      BY <1>1, <1>8, <2>2, <3>1
    <3> HIDE DEF j
    <3>3. QED BY <1>3, <1>10, <3>1, <3>2
  <2>3. QED BY <2>1, <2>2
<1>11. QED BY <1>1, <1>5, <1>7, <1>9, <1>10 DEF Leads, l

\* What is left of a list once its first write is made leads to the same.
LEMMA LeadsLeft ==
  ASSUME NEW F, NEW S, NEW T, NEW d, NEW bits, NEW W, NEW l \in Seq(W), l # << >>,
         Leads(F, d, bits, l, S, T), NEW s \in S
  PROVE  \E U \in F : /\ ViewAfter(d, bits, s, Head(l)) \in U
                      /\ Leads(F, d, bits, Tail(l), U, T)
<1> DEFINE t == Tail(l)
           n == Len(l)
<1>1. /\ Head(l) = l[1] /\ Len(t) = n - 1 /\ n \in Nat /\ n > 0
      /\ \A i \in 1 .. n - 1 : t[i] = l[i + 1]
  BY ListLeft
<1>2. PICK P \in [0 .. n -> F] :
        /\ P[0] = S /\ P[n] = T
        /\ \A i \in 1 .. n : \A x \in P[i - 1] : ViewAfter(d, bits, x, l[i]) \in P[i]
  BY DEF Leads
<1> HIDE DEF t, n
<1> DEFINE Q == [i \in 0 .. n - 1 |-> P[i + 1]]
<1>3. \A i \in 0 .. n - 1 : i + 1 \in 0 .. n
  BY <1>1
<1>4. Q \in [0 .. n - 1 -> F] /\ \A i \in 0 .. n - 1 : Q[i] = P[i + 1]
  BY <1>2, <1>3
<1> HIDE DEF Q
<1>5. Q[0] = P[1] /\ Q[n - 1] = T /\ P[1] \in F
  <2>1. 0 \in 0 .. n - 1 /\ n - 1 \in 0 .. n - 1 /\ (n - 1) + 1 = n /\ 0 + 1 = 1 /\ 1 \in 0 .. n
    BY <1>1
  <2>2. Q[0] = P[0 + 1] /\ Q[n - 1] = P[(n - 1) + 1]
    BY <1>4, <2>1
  <2>3. QED BY <1>2, <2>1, <2>2
<1>6. ASSUME NEW i \in 1 .. n - 1, NEW x \in Q[i - 1]
      PROVE  ViewAfter(d, bits, x, t[i]) \in Q[i]
  <2>1. i - 1 \in 0 .. n - 1 /\ i \in 0 .. n - 1 /\ (i - 1) + 1 = i /\ i + 1 \in 1 .. n
        /\ (i + 1) - 1 = i
    BY <1>1
  <2>2. Q[i - 1] = P[i] /\ Q[i] = P[i + 1] /\ t[i] = l[i + 1]
    BY <1>1, <1>4, <2>1
  <2>3. QED BY <1>2, <1>6, <2>1, <2>2
<1>7. Leads(F, d, bits, t, P[1], T)
  BY <1>1, <1>4, <1>5, <1>6 DEF Leads
<1>8. ViewAfter(d, bits, s, Head(l)) \in P[1]
  <2>1. 1 \in 1 .. n /\ 1 - 1 = 0
    BY <1>1
  <2>2. QED BY <1>1, <1>2, <2>1
<1>9. QED BY <1>5, <1>7, <1>8 DEF t

\* An empty list has arrived.
LEMMA Arrived ==
  ASSUME NEW F, NEW S, NEW T, NEW d, NEW bits, Leads(F, d, bits, << >>, S, T)
  PROVE  S = T
BY DEF Leads

\* Lists joined to one: where it is defined, Joined is what its name says.
LEMMA JoinedIs ==
  ASSUME NEW W, NEW m \in Nat, NEW f \in [1 .. m -> Seq(W)]
  PROVE  \E J : /\ Bus!Joined(f) = J[m] /\ J[0] = << >>
                /\ \A n \in 1 .. m : J[n] = J[n - 1] \o f[n]
<1> DEFINE Then(x, n) == x \o f[n]
           Joins(g, k) == [n \in 0 .. k |-> IF n = 0 THEN << >> ELSE Then(g[n - 1], n)]
           J == CHOOSE g : g = Joins(g, m)
<1>1. Len(f) = m
  BY LenProperties, IsASeq
<1>2. Bus!Joined(f) = J[m]
  BY <1>1 DEF Bus!Joined
<1> HIDE DEF Then
<1>3. J = Joins(J, m)
  <2> DEFINE Defined == {k \in Nat : \E g : g = Joins(g, k)}
  <2>1. 0 \in Defined
    <3>1. [n \in 0 .. 0 |-> << >>] = Joins([n \in 0 .. 0 |-> << >>], 0)
      OBVIOUS
    <3>2. QED BY <3>1
  <2>2. ASSUME NEW k \in Nat, k \in Defined PROVE k + 1 \in Defined
    <3>1. PICK g : g = Joins(g, k)
      BY <2>2
    <3> DEFINE h == [n \in 0 .. k + 1 |-> IF n = k + 1 THEN Then(g[k], k + 1) ELSE g[n]]
    <3>2. ASSUME NEW n \in 0 .. k + 1
          PROVE  h[n] = IF n = 0 THEN << >> ELSE Then(h[n - 1], n)
      <4>1. CASE n = 0
        BY <3>1, <4>1
      <4>2. CASE n \in 1 .. k
        <5>1. h[n] = g[n] /\ h[n - 1] = g[n - 1]
          BY <4>2
        <5>2. g[n] = Then(g[n - 1], n)
          BY <3>1, <4>2
        <5>3. QED BY <4>2, <5>1, <5>2
      <4>3. CASE n = k + 1
        <5>1. h[n] = Then(g[k], k + 1) /\ h[n - 1] = g[k]
          BY <4>3
        <5>2. QED BY <4>3, <5>1
      <4>4. QED BY <4>1, <4>2, <4>3
    <3> HIDE DEF h
    <3>3. h = Joins(h, k + 1)
      <4>1. h = [n \in 0 .. k + 1 |-> h[n]]
        BY DEF h
      <4>2. QED BY <3>2, <4>1
    <3>4. QED BY <3>3
  <2>3. m \in Defined
    <3> HIDE DEF Defined
    <3>1. QED BY <2>1, <2>2, SetInduction
  <2>4. \E g : g = Joins(g, m)
    BY <2>3
  <2>5. QED BY <2>4
<1> HIDE DEF J
<1>4. J[0] = << >> /\ \A n \in 1 .. m : J[n] = Then(J[n - 1], n)
  <2>1. \A n \in 0 .. m : J[n] = IF n = 0 THEN << >> ELSE Then(J[n - 1], n)
    BY <1>3
  <2>2. 0 \in 0 .. m /\ \A n \in 1 .. m : n \in 0 .. m /\ n # 0
    OBVIOUS
  <2>3. QED BY <2>1, <2>2
<1>5. QED BY <1>2, <1>4 DEF Then

\* Lists joined to one lead where they lead one after another.
LEMMA JoinedLeads ==
  ASSUME NEW W, NEW m \in Nat, NEW f \in [1 .. m -> Seq(W)],
         NEW F, NEW d, NEW bits, NEW Q \in [0 .. m -> F],
         \A i \in 1 .. m : Leads(F, d, bits, f[i], Q[i - 1], Q[i])
  PROVE  Leads(F, d, bits, Bus!Joined(f), Q[0], Q[m])
<1>1. PICK J : /\ Bus!Joined(f) = J[m] /\ J[0] = << >>
               /\ \A n \in 1 .. m : J[n] = J[n - 1] \o f[n]
  BY JoinedIs
<1> DEFINE Good == {n \in Nat : n <= m => J[n] \in Seq(W) /\ Leads(F, d, bits, J[n], Q[0], Q[n])}
<1>2. 0 \in Good
  <2>1. 0 \in 0 .. m
    OBVIOUS
  <2>2. << >> \in Seq(W) /\ Q[0] \in F
    BY EmptySeq, <2>1
  <2>3. Leads(F, d, bits, << >>, Q[0], Q[0])
    BY <2>2, LeadsEmpty
  <2>4. QED BY <1>1, <2>2, <2>3
<1>3. ASSUME NEW n \in Nat, n \in Good PROVE n + 1 \in Good
  <2> SUFFICES ASSUME n + 1 <= m
               PROVE  J[n + 1] \in Seq(W) /\ Leads(F, d, bits, J[n + 1], Q[0], Q[n + 1])
    OBVIOUS
  <2>1. n + 1 \in 1 .. m /\ (n + 1) - 1 = n /\ n <= m
    OBVIOUS
  <2>2. J[n] \in Seq(W) /\ Leads(F, d, bits, J[n], Q[0], Q[n])
    BY <1>3, <2>1
  <2>3. J[n + 1] = J[n] \o f[n + 1]
    BY <1>1, <2>1
  <2>4. f[n + 1] \in Seq(W) /\ Leads(F, d, bits, f[n + 1], Q[n], Q[n + 1])
    BY <2>1
  <2>5. QED BY <2>2, <2>3, <2>4, LeadsJoined, ConcatProperties
<1> HIDE DEF Good
<1>4. m \in Good
  BY <1>2, <1>3, SetInduction
<1>5. QED BY <1>1, <1>4 DEF Good

\* Their calls are among those of the parts.
LEMMA JoinedCalls ==
  ASSUME NEW W, NEW m \in Nat, NEW f \in [1 .. m -> Seq(W)]
  PROVE  Bus!Joined(f) \in Seq(W)
<1>1. PICK J : /\ Bus!Joined(f) = J[m] /\ J[0] = << >>
               /\ \A n \in 1 .. m : J[n] = J[n - 1] \o f[n]
  BY ONLY JoinedIs, m \in Nat, f \in [1 .. m -> Seq(W)]
<1> DEFINE Good == {n \in Nat : n <= m => J[n] \in Seq(W)}
<1>2. 0 \in Good
  BY <1>1, EmptySeq
<1>3. ASSUME NEW n \in Nat, n \in Good PROVE n + 1 \in Good
  <2> SUFFICES ASSUME n + 1 <= m PROVE J[n + 1] \in Seq(W)
    OBVIOUS
  <2>1. n + 1 \in 1 .. m /\ (n + 1) - 1 = n /\ n <= m
    OBVIOUS
  <2>2. J[n + 1] = J[n] \o f[n + 1] /\ f[n + 1] \in Seq(W) /\ J[n] \in Seq(W)
    BY <1>1, <1>3, <2>1
  <2>3. QED BY <2>2, ConcatProperties
<1> HIDE DEF Good
<1>4. m \in Good
  BY <1>2, <1>3, SetInduction
<1>5. QED BY <1>1, <1>4 DEF Good

-------------------------------------------------------------------------------
(* One write. *)

\* A write to a pin that is not an edge at which the device takes a bit.
LEMMA PinSet ==
  ASSUME NEW d, NEW bits, NEW s \in Views, NEW l \in Bus!Lines, NEW v \in Levels,
         ~TakesBit(d, s, Bus!Set(l, v)), NEW t, t = ViewAfter(d, bits, s, Bus!Set(l, v))
  PROVE  /\ t \in Views /\ t.pin[l] = v /\ \A x \in Bus!Lines \ {l} : t.pin[x] = s.pin[x]
         /\ t.drive = s.drive /\ t.n = s.n /\ t.right = s.right
         /\ l # "data" \/ s.pin["clk"] = 0 => t.listening = s.listening
         /\ l = "data" /\ v = 0 /\ s.pin["data"] = 1 /\ s.pin["clk"] = 1 => t.listening
<1> DEFINE w == Bus!Set(l, v)
<1>1. w.do = "pin" /\ w.line = l /\ w.arg = v /\ w.do # "oe" /\ w.do # "sample"
  BY DEF Bus!Set
<1> HIDE DEF w
<1>2. /\ t.pin = [s.pin EXCEPT ![l] = v] /\ t.drive = s.drive /\ t.n = s.n /\ t.right = s.right
      /\ t.listening = IF l = "data" /\ s.pin["clk"] = 1 /\ s.pin["data"] # v
                       THEN v = 0 ELSE s.listening
      /\ t = [pin |-> t.pin, drive |-> t.drive, n |-> t.n, right |-> t.right,
              listening |-> t.listening]
  BY <1>1 DEF ViewAfter, w
<1>3. s.pin \in [Bus!Lines -> Levels] /\ s.drive \in Levels /\ s.n \in Nat /\ s.right \in BOOLEAN
      /\ s.listening \in BOOLEAN
  BY DEF Views
<1>4. t.pin \in [Bus!Lines -> Levels] /\ t.pin[l] = v /\ \A x \in Bus!Lines \ {l} : t.pin[x] = s.pin[x]
  BY <1>2, <1>3
<1>5. t.listening \in BOOLEAN
  BY <1>2, <1>3
<1>6. t \in Views
  BY <1>2, <1>3, <1>4, <1>5 DEF Views
<1>7. l # "data" \/ s.pin["clk"] = 0 => t.listening = s.listening
  BY <1>2
<1>8. ASSUME l = "data", v = 0, s.pin["data"] = 1, s.pin["clk"] = 1 PROVE t.listening
  <2>1. s.pin["data"] # v
    BY <1>8
  <2>2. t.listening = (v = 0)
    BY <1>2, <1>8, <2>1
  <2>3. QED BY <1>8, <2>2
<1>9. QED BY <1>2, <1>4, <1>6, <1>7, <1>8

\* An edge at which it does.
LEMMA BitTaken ==
  ASSUME NEW d, NEW bits, NEW s \in Views, NEW l \in Bus!Lines, l # "data",
         TakesBit(d, s, Bus!Set(l, 1)), NEW t, t = ViewAfter(d, bits, s, Bus!Set(l, 1))
  PROVE  /\ t \in Views /\ t.pin[l] = 1 /\ \A x \in Bus!Lines \ {l} : t.pin[x] = s.pin[x]
         /\ t.drive = s.drive /\ t.n = Most(s.n + 1) /\ t.listening = s.listening
         /\ s.right /\ RightBit(bits, s) => t.right
<1> DEFINE w == Bus!Set(l, 1)
<1>1. w.do = "pin" /\ w.line = l /\ w.arg = 1 /\ w.do # "oe" /\ w.do # "sample"
  BY DEF Bus!Set
<1> HIDE DEF w
<1>2. /\ t.pin = [s.pin EXCEPT ![l] = 1] /\ t.drive = s.drive /\ t.n = Most(s.n + 1)
      /\ t.right = (s.right /\ RightBit(bits, s))
      /\ t.listening = s.listening
      /\ t = [pin |-> t.pin, drive |-> t.drive, n |-> t.n, right |-> t.right,
              listening |-> t.listening]
  BY <1>1 DEF ViewAfter, w
<1>3. s.pin \in [Bus!Lines -> Levels] /\ s.drive \in Levels /\ s.n \in Nat /\ s.right \in BOOLEAN
      /\ s.listening \in BOOLEAN
  BY DEF Views
<1>4. t.pin \in [Bus!Lines -> Levels] /\ t.pin[l] = 1 /\ \A x \in Bus!Lines \ {l} : t.pin[x] = s.pin[x]
  <2>1. 1 \in Levels
    BY DEF Levels
  <2>2. QED BY <1>2, <1>3, <2>1
<1>5. Most(s.n + 1) \in Nat
  BY <1>3, BusConstants DEF Most, Bus!BusAssumption
<1>6. t.right \in BOOLEAN
  BY <1>2
<1>7. t \in Views
  BY <1>2, <1>3, <1>4, <1>5, <1>6 DEF Views
<1>8. ASSUME s.right, RightBit(bits, s) PROVE t.right
  BY <1>2, <1>8
<1>9. QED BY <1>2, <1>4, <1>7, <1>8

\* The card drives the data line or releases it.
LEMMA DriveSet ==
  ASSUME NEW d, NEW bits, NEW s \in Views, NEW v \in Levels,
         NEW t, t = ViewAfter(d, bits, s, Bus!Drive(v))
  PROVE  /\ t \in Views /\ t.pin = s.pin /\ t.drive = v /\ t.n = s.n /\ t.right = s.right
         /\ t.listening = s.listening
<1> DEFINE w == Bus!Drive(v)
<1>1. w.do # "pin" /\ w.do = "oe" /\ w.arg = v /\ w.do # "sample"
  BY DEF Bus!Drive
<1> HIDE DEF w
<1>2. /\ t.pin = s.pin /\ t.drive = v /\ t.n = s.n /\ t.right = s.right
      /\ t.listening = s.listening
      /\ t = [pin |-> t.pin, drive |-> t.drive, n |-> t.n, right |-> t.right,
              listening |-> t.listening]
  BY <1>1 DEF ViewAfter, TakesBit, w
<1>3. QED BY <1>2 DEF Views

-------------------------------------------------------------------------------
(* Writes by which a device is given the bits meant for it. *)

\* The device has rightly taken k bits, and the clock of encoder and EM9010 is at c; with
\* v on the data line; while the encoder listens; while the card has let go of the line.
At(c, k) == {s \in Views : s.right /\ s.n = k /\ s.pin["clk"] = c}
With(v, S) == {s \in S : s.pin["data"] = v}
Hearing(S) == {s \in S : s.listening}
Released(S) == {s \in S : s.drive = 0}

\* The devices that share a clock.
Shared == {"em9010", "encoder"}

\* What the constants give.
LEMMA BusNumbers == Width \in Nat /\ Width >= 2 /\ Width <= 8
BY BusConstants DEF Bus!BusAssumption

LEMMA LinesAre ==
  /\ "data" \in Bus!Lines /\ "clk" \in Bus!Lines /\ "clkgen" \in Bus!Lines
  /\ "latch" \in Bus!Lines /\ 0 \in Levels /\ 1 \in Levels
  /\ \A v \in Levels : v = 0 \/ v = 1
BY DEF Bus!Lines, Levels

\* The clock falls, or stays low.
LEMMA ClkFalls ==
  ASSUME NEW d \in Shared, NEW bits, NEW c, NEW k, NEW s \in At(c, k),
         NEW t, t = ViewAfter(d, bits, s, Bus!Set("clk", 0))
  PROVE  t \in At(0, k) /\ t.listening = s.listening /\ t.drive = s.drive
         /\ t.pin["data"] = s.pin["data"]
<1>0. s \in Views
  BY DEF At
<1>1. ~TakesBit(d, s, Bus!Set("clk", 0))
  BY DEF TakesBit, Bus!Set
<1>2. s \in Views /\ s.right /\ s.n = k
  BY DEF At
<1>3. "data" \in Bus!Lines \ {"clk"}
  BY LinesAre
<1>4. /\ t \in Views /\ t.pin["clk"] = 0 /\ t.pin["data"] = s.pin["data"]
      /\ t.drive = s.drive /\ t.n = s.n /\ t.right = s.right /\ t.listening = s.listening
  BY <1>0, <1>1, <1>3, LinesAre, PinSet
<1>5. QED BY <1>2, <1>4 DEF At

\* It stays high.
LEMMA ClkStays ==
  ASSUME NEW d \in Shared, NEW bits, NEW k, NEW s \in At(1, k),
         NEW t, t = ViewAfter(d, bits, s, Bus!Set("clk", 1))
  PROVE  t \in At(1, k) /\ t.listening = s.listening /\ t.drive = s.drive
         /\ t.pin["data"] = s.pin["data"]
<1>0. s \in Views
  BY DEF At
<1>1. s \in Views /\ s.right /\ s.n = k /\ s.pin["clk"] = 1
  BY DEF At
<1>2. ~TakesBit(d, s, Bus!Set("clk", 1))
  BY <1>1 DEF TakesBit, Bus!Set
<1>3. "data" \in Bus!Lines \ {"clk"}
  BY LinesAre
<1>4. /\ t \in Views /\ t.pin["clk"] = 1 /\ t.pin["data"] = s.pin["data"]
      /\ t.drive = s.drive /\ t.n = s.n /\ t.right = s.right /\ t.listening = s.listening
  BY <1>0, <1>2, <1>3, LinesAre, PinSet
<1>5. QED BY <1>1, <1>4 DEF At

\* It rises, and the device takes the bit that is meant for it.
LEMMA ClkRises ==
  ASSUME NEW d \in Shared, NEW bits, NEW k \in Nat, NEW s \in At(0, k),
         k + 1 <= 5 * Width, d = "encoder" => s.listening,
         k + 1 <= Len(bits) => s.pin["data"] = bits[k + 1],
         NEW t, t = ViewAfter(d, bits, s, Bus!Set("clk", 1))
  PROVE  t \in At(1, k + 1) /\ t.listening = s.listening /\ t.drive = s.drive
         /\ t.pin["data"] = s.pin["data"]
<1>0. s \in Views
  BY DEF At
<1>1. s \in Views /\ s.right /\ s.n = k /\ s.pin["clk"] = 0
  BY DEF At
<1>2. TakesBit(d, s, Bus!Set("clk", 1))
  <2>1. ClockOf(d) = "clk"
    BY DEF ClockOf, Shared
  <2>2. QED BY <1>1, <2>1 DEF TakesBit, Bus!Set
<1>3. "data" \in Bus!Lines \ {"clk"} /\ "clk" \in Bus!Lines
  BY LinesAre
<1>4. /\ t \in Views /\ t.pin["clk"] = 1 /\ t.pin["data"] = s.pin["data"]
      /\ t.drive = s.drive /\ t.n = Most(s.n + 1) /\ t.listening = s.listening
      /\ s.right /\ RightBit(bits, s) => t.right
  <2>1. \A l \in Bus!Lines : l # "data" /\ TakesBit(d, s, Bus!Set(l, 1))
          => LET x == ViewAfter(d, bits, s, Bus!Set(l, 1))
             IN  /\ x \in Views /\ x.pin[l] = 1 /\ \A y \in Bus!Lines \ {l} : x.pin[y] = s.pin[y]
                 /\ x.drive = s.drive /\ x.n = Most(s.n + 1) /\ x.listening = s.listening
                 /\ s.right /\ RightBit(bits, s) => x.right
    BY <1>0, BitTaken
  <2>2. QED BY <1>2, <1>3, <2>1
<1>5. t.right
  <2>1. s.right /\ RightBit(bits, s)
    BY <1>1 DEF RightBit
  <2>2. QED BY <1>4, <2>1
<1>6. Most(k + 1) = k + 1
  BY BusNumbers DEF Most
<1>7. QED BY <1>1, <1>4, <1>5, <1>6 DEF At

\* The data line is set; if the clock is high, the encoder may hear a start or a stop.
LEMMA DataSet ==
  ASSUME NEW d \in Shared, NEW bits, NEW c, NEW k, NEW s \in At(c, k), NEW v \in Levels,
         NEW t, t = ViewAfter(d, bits, s, Bus!Set("data", v))
  PROVE  /\ t \in With(v, At(c, k)) /\ t.drive = s.drive
         /\ c = 0 => t.listening = s.listening
         /\ v = 0 /\ s.pin["data"] = 1 /\ c = 1 => t.listening
<1>0. s \in Views
  BY DEF At
<1>1. s \in Views /\ s.right /\ s.n = k /\ s.pin["clk"] = c
  BY DEF At
<1>2. ~TakesBit(d, s, Bus!Set("data", v))
  BY DEF TakesBit, Bus!Set, ClockOf, Shared
<1>3. "clk" \in Bus!Lines \ {"data"} /\ "data" \in Bus!Lines
  BY LinesAre
<1>4. /\ t \in Views /\ t.pin["data"] = v /\ t.pin["clk"] = s.pin["clk"]
      /\ t.drive = s.drive /\ t.n = s.n /\ t.right = s.right
  BY <1>0, <1>2, <1>3, PinSet
<1>5. s.pin["clk"] = 0 => t.listening = s.listening
  BY <1>0, <1>2, <1>3, PinSet
<1>6. ASSUME v = 0, s.pin["data"] = 1, s.pin["clk"] = 1 PROVE t.listening
  <2>1. v = 0 /\ s.pin["data"] = 1 /\ s.pin["clk"] = 1 => t.listening
    BY <1>0, <1>2, <1>3, PinSet
  <2>2. QED BY <1>6, <2>1
<1>7. QED BY <1>1, <1>4, <1>5, <1>6 DEF At, With

\* The card drives the line or lets it go.
LEMMA LineDriven ==
  ASSUME NEW d, NEW bits, NEW c, NEW k, NEW s \in At(c, k), NEW v \in Levels,
         NEW t, t = ViewAfter(d, bits, s, Bus!Drive(v))
  PROVE  t \in At(c, k) /\ t.drive = v /\ t.pin["data"] = s.pin["data"]
         /\ t.listening = s.listening
<1>0. s \in Views
  BY DEF At
<1>1. s \in Views /\ s.right /\ s.n = k /\ s.pin["clk"] = c
  BY DEF At
<1>2. /\ t \in Views /\ t.pin = s.pin /\ t.drive = v /\ t.n = s.n /\ t.right = s.right
      /\ t.listening = s.listening
  BY <1>0, DriveSet
<1>3. QED BY <1>1, <1>2 DEF At

\* The card reads a bit of an answer: the right one if it has let go of the line and the
\* chip has been clocked as often as the driver believes.
LEMMA BitRead ==
  ASSUME NEW bits, NEW i \in 1 .. Width, NEW j, j = Len(bits) + i - 1,
         NEW s \in Released(At(1, j))
  PROVE  ViewAfter("em9010", bits, s, [do |-> "sample", arg |-> i]) \in Released(At(1, j))
<1> DEFINE w == [do |-> "sample", arg |-> i]
           t == ViewAfter("em9010", bits, s, w)
<1>1. w.do # "pin" /\ w.do # "oe" /\ w.arg = i /\ w.do = "sample"
  OBVIOUS
<1>2. s \in Views /\ s.right /\ s.n = j /\ s.pin["clk"] = 1 /\ s.drive = 0
  BY DEF Released, At
<1> HIDE DEF w
<1>3. t = [pin |-> s.pin, drive |-> s.drive, n |-> s.n,
           right |-> s.right /\ s.drive = 0 /\ s.n = Len(bits) + w.arg - 1,
           listening |-> s.listening]
  BY <1>1 DEF ViewAfter, TakesBit
<1> HIDE DEF t
<1>4. t.pin = s.pin /\ t.drive = s.drive /\ t.n = s.n /\ t.listening = s.listening
      /\ t = [pin |-> t.pin, drive |-> t.drive, n |-> t.n, right |-> t.right,
              listening |-> t.listening]
  BY <1>3
<1>5. t.right = TRUE
  BY <1>1, <1>2, <1>3
<1>6. t \in Views
  BY <1>2, <1>4, <1>5 DEF Views
<1>7. QED BY <1>2, <1>4, <1>5, <1>6 DEF Released, At, t, w

\* A list of two writes leads where its writes do, one after the other, and one of three.
LEMMA LeadsTwo ==
  ASSUME NEW F, NEW S \in F, NEW T \in F, NEW U \in F, NEW d, NEW bits, NEW v, NEW w,
         \A s \in S : ViewAfter(d, bits, s, v) \in T,
         \A s \in T : ViewAfter(d, bits, s, w) \in U
  PROVE  Leads(F, d, bits, <<v, w>>, S, U)
<1> DEFINE P == [i \in 0 .. 2 |-> IF i = 0 THEN S ELSE IF i = 1 THEN T ELSE U]
<1>1. /\ P \in [0 .. 2 -> F] /\ P[0] = S /\ P[1] = T /\ P[2] = U
      /\ Len(<<v, w>>) = 2 /\ <<v, w>>[1] = v /\ <<v, w>>[2] = w
  OBVIOUS
<1> HIDE DEF P
<1>2. \A i \in 1 .. 2 : (i = 1 /\ i - 1 = 0) \/ (i = 2 /\ i - 1 = 1)
  OBVIOUS
<1>3. QED BY <1>1, <1>2 DEF Leads

LEMMA LeadsThree ==
  ASSUME NEW F, NEW S \in F, NEW T \in F, NEW U \in F, NEW V \in F, NEW d, NEW bits,
         NEW v, NEW w, NEW x,
         \A s \in S : ViewAfter(d, bits, s, v) \in T,
         \A s \in T : ViewAfter(d, bits, s, w) \in U,
         \A s \in U : ViewAfter(d, bits, s, x) \in V
  PROVE  Leads(F, d, bits, <<v, w, x>>, S, V)
<1>1. <<v, w>> \in Seq({v, w, x}) /\ <<x>> \in Seq({v, w, x}) /\ <<v, w, x>> = <<v, w>> \o <<x>>
  OBVIOUS
<1>2. Leads(F, d, bits, <<v, w>>, S, U)
  BY LeadsTwo
<1>3. Leads(F, d, bits, <<x>>, U, V)
  BY LeadsOne
<1>4. QED BY <1>1, <1>2, <1>3, LeadsJoined

-------------------------------------------------------------------------------
(* The EM9010. *)

Any == SUBSET Views

LEMMA AtIsAny ==
  ASSUME NEW c, NEW k
  PROVE  /\ At(c, k) \in Any /\ \A v : With(v, At(c, k)) \in Any
         /\ Released(At(c, k)) \in Any /\ Hearing(At(c, k)) \in Any
         /\ \A v : Hearing(With(v, At(c, k))) \in Any
BY DEF Any, At, With, Released, Hearing

\* One bit goes out, and the EM9010 takes it at the edge.
LEMMA BitOut ==
  ASSUME NEW bits, NEW k \in Nat, k + 1 <= 5 * Width, NEW v \in Levels,
         k + 1 <= Len(bits) => v = bits[k + 1]
  PROVE  Leads(Any, "em9010", bits, << Bus!Set("data", v), Bus!Set("clk", 1), Bus!Set("clk", 0) >>,
               At(0, k), At(0, k + 1))
<1>1. "em9010" \in Shared
  BY DEF Shared
<1>2. \A s \in At(0, k) : ViewAfter("em9010", bits, s, Bus!Set("data", v)) \in With(v, At(0, k))
  BY <1>1, DataSet
<1>3. ASSUME NEW s \in With(v, At(0, k))
      PROVE  ViewAfter("em9010", bits, s, Bus!Set("clk", 1)) \in At(1, k + 1)
  <2>1. s \in At(0, k) /\ s.pin["data"] = v
    BY DEF With
  <2>2. k + 1 <= Len(bits) => s.pin["data"] = bits[k + 1]
    BY <2>1
  <2>3. QED BY <1>1, <2>1, <2>2, ClkRises
<1>4. \A s \in At(1, k + 1) : ViewAfter("em9010", bits, s, Bus!Set("clk", 0)) \in At(0, k + 1)
  BY <1>1, ClkFalls
<1>5. QED BY <1>2, <1>3, <1>4, AtIsAny, LeadsThree

\* The bits that a list of bits has the EM9010 take are those of bits from k on.
Meant(bits, k, x) ==
  /\ x \in [1 .. Width -> Levels]
  /\ \A i \in 1 .. Width : k + i <= Len(bits) => x[i] = bits[k + i]

LEMMA LengthOf ==
  ASSUME NEW W, NEW m \in Nat, NEW f \in [1 .. m -> W]
  PROVE  Len(f) = m /\ f \in Seq(W)
BY LenProperties, IsASeq

\* A byte goes out.
LEMMA ByteOut ==
  ASSUME NEW bits, NEW k \in Nat, k + Width <= 5 * Width, NEW x, Meant(bits, k, x)
  PROVE  /\ Bus!I2C_out(x) \in Seq(Sets)
         /\ Leads(Any, "em9010", bits, Bus!I2C_out(x), At(0, k), At(0, k + Width))
<1> DEFINE m == Width
           f == [i \in 1 .. m |-> << Bus!Set("data", x[i]), Bus!Set("clk", 1), Bus!Set("clk", 0) >>]
           Q == [i \in 0 .. m |-> At(0, k + i)]
<1>1. m \in Nat /\ k + m <= 5 * Width
  BY BusNumbers
<1>2. x \in [1 .. m -> Levels] /\ \A i \in 1 .. m : k + i <= Len(bits) => x[i] = bits[k + i]
  BY DEF Meant
<1>3. Bus!I2C_out(x) = Bus!Joined(f)
  <2>1. Len(x) = m
    BY <1>1, <1>2, LengthOf
  <2>2. QED BY <2>1 DEF Bus!I2C_out
<1>4. f \in [1 .. m -> Seq(Sets)]
  <2>1. \A i \in 1 .. m : Bus!Set("data", x[i]) \in Sets
    BY <1>2, LinesAre DEF Sets
  <2>2. Bus!Set("clk", 1) \in Sets /\ Bus!Set("clk", 0) \in Sets
    BY LinesAre DEF Sets
  <2>3. QED BY <2>1, <2>2
<1>5. Q \in [0 .. m -> Any] /\ \A i \in 0 .. m : Q[i] = At(0, k + i)
  BY AtIsAny
<1>6. ASSUME NEW i \in 1 .. m PROVE Leads(Any, "em9010", bits, f[i], Q[i - 1], Q[i])
  <2> DEFINE j == k + (i - 1)
  <2>1. j \in Nat /\ j + 1 = k + i /\ j + 1 <= 5 * Width /\ i - 1 \in 0 .. m /\ i \in 0 .. m
    BY <1>1
  <2>2. x[i] \in Levels /\ (j + 1 <= Len(bits) => x[i] = bits[j + 1])
    BY <1>2, <2>1
  <2>3. Q[i - 1] = At(0, j) /\ Q[i] = At(0, j + 1)
    BY <1>5, <2>1
  <2>4. f[i] = << Bus!Set("data", x[i]), Bus!Set("clk", 1), Bus!Set("clk", 0) >>
    OBVIOUS
  <2> HIDE DEF j, f, Q
  <2>5. QED BY <2>1, <2>2, <2>3, <2>4, BitOut
<1>7. Q[0] = At(0, k) /\ Q[m] = At(0, k + m)
  <2>1. 0 \in 0 .. m /\ m \in 0 .. m /\ k + 0 = k
    BY <1>1
  <2>2. QED BY <1>5, <2>1
<1> HIDE DEF f, Q, m
<1>8. Leads(Any, "em9010", bits, Bus!Joined(f), Q[0], Q[m])
  BY <1>1, <1>4, <1>5, <1>6, JoinedLeads
<1>9. Bus!Joined(f) \in Seq(Sets)
  BY <1>1, <1>4, JoinedCalls
<1>10. QED BY <1>3, <1>7, <1>8, <1>9 DEF m

-------------------------------------------------------------------------------
(* How a list leaves the lines. *)

\* A list that lowers the clock raises it again, and one that lets go of the data line
\* drives it again.
Restoring(l) ==
  /\ Followed(l, {Bus!Set("clk", 0)}, {Bus!Set("clk", 1)})
  /\ Followed(l, {Bus!Drive(0)}, {Bus!Drive(1)})

\* What a write does.
LEMMA WritesAre ==
  /\ \A l, v : LET w == Bus!Set(l, v) IN w.do = "pin" /\ w.line = l /\ w.arg = v
  /\ \A v : LET w == Bus!Drive(v) IN w.do = "oe" /\ w.arg = v
BY DEF Bus!Set, Bus!Drive

LEMMA WritesDiffer ==
  /\ \A l, v, x : Bus!Set(l, v) # Bus!Drive(x)
  /\ \A x \in Sets : \A v : x # Bus!Drive(v)
  /\ Bus!Drive(0) # Bus!Drive(1) /\ Bus!Set("clk", 0) # Bus!Set("clk", 1)
  /\ \A x \in ClockgenSets : \A v : x # Bus!Set("clk", v)
  /\ \A v : Bus!Set("data", v) # Bus!Set("clk", 0)
<1>1. \A l, v, x : Bus!Set(l, v) # Bus!Drive(x)
  BY WritesAre
<1>2. \A x \in Sets : \A v : x # Bus!Drive(v)
  BY <1>1 DEF Sets
<1>3. Bus!Drive(0) # Bus!Drive(1) /\ Bus!Set("clk", 0) # Bus!Set("clk", 1)
  BY WritesAre
<1>4. \A x \in ClockgenSets : \A v : x # Bus!Set("clk", v)
  BY WritesAre DEF ClockgenSets
<1>5. \A v : Bus!Set("data", v) # Bus!Set("clk", 0)
  BY WritesAre
<1>6. QED BY <1>1, <1>2, <1>3, <1>4, <1>5

\* A list without such writes.
LEMMA NoneFollowed ==
  ASSUME NEW S, NEW l \in Seq(S), NEW C, NEW D, S \cap C = {}
  PROVE  Followed(l, C, D)
BY LenProperties DEF Followed

\* A list whose end raises the clock again.
LEMMA EndRaises ==
  ASSUME NEW S, NEW a \in Seq(S), NEW b \in Seq(S),
         Followed(b, {Bus!Set("clk", 0)}, {Bus!Set("clk", 1)}), Bus!Set("clk", 1) \in Calls(b)
  PROVE  /\ Followed(a \o b, {Bus!Set("clk", 0)}, {Bus!Set("clk", 1)})
         /\ Bus!Set("clk", 1) \in Calls(a \o b)
<1>1. Calls(b) \cap {Bus!Set("clk", 1)} # {}
  OBVIOUS
<1>2. QED BY <1>1, FollowedJoined, CallsJoined

LEMMA ByteRaises ==
  ASSUME NEW b, NEW v \in Levels, Bus!I2C_out(Bus!High(b)) \in Seq(Sets)
  PROVE  /\ Bus!sub_23660(b, v) \in Seq(Sets)
         /\ Followed(Bus!sub_23660(b, v), {Bus!Set("clk", 0)}, {Bus!Set("clk", 1)})
         /\ Bus!Set("clk", 1) \in Calls(Bus!sub_23660(b, v))
<1> DEFINE p == << Bus!Set("clk", 0) >>
           o == Bus!I2C_out(Bus!High(b))
           e == << Bus!Set("data", v), Bus!Set("clk", 1) >>
           l == p \o o
<1>1. p \in Seq(Sets) /\ e \in Seq(Sets)
  BY LinesAre DEF Sets
<1>2. Bus!sub_23660(b, v) = l \o e
  <2> HIDE DEF p, o, e
  <2>1. QED BY ONLY <1>1, o \in Seq(Sets), ConcatAssociative DEF Bus!sub_23660, p, o, e, l
<1>3. l \in Seq(Sets)
  BY <1>1, ConcatProperties
<1>4. Followed(e, {Bus!Set("clk", 0)}, {Bus!Set("clk", 1)}) /\ Bus!Set("clk", 1) \in Calls(e)
  <2>1. Len(e) = 2 /\ e[1] = Bus!Set("data", v) /\ e[2] = Bus!Set("clk", 1)
    OBVIOUS
  <2> HIDE DEF e
  <2>2. \A i \in 1 .. Len(e) : e[i] \notin {Bus!Set("clk", 0)}
    BY <2>1, WritesDiffer
  <2>3. 2 \in 1 .. Len(e)
    BY <2>1
  <2>4. QED BY <2>1, <2>2, <2>3 DEF Followed, Calls
<1> HIDE DEF l, e
<1>5. QED BY <1>1, <1>2, <1>3, <1>4, EndRaises, ConcatProperties

\* A write to the EM9010, and a read.
LEMMA WriteRestores ==
  ASSUME NEW r, NEW b, Bus!I2C_out(Bus!High(b)) \in Seq(Sets), Bus!sub_236f0(r, 1) \in Seq(Sets)
  PROVE  Bus!em9010_write(r, b) \in Seq(Sets) /\ Restoring(Bus!em9010_write(r, b))
<1> DEFINE a == Bus!sub_236f0(r, 1)
           e == Bus!sub_23660(b, 1)
<1>1. e \in Seq(Sets) /\ Followed(e, {Bus!Set("clk", 0)}, {Bus!Set("clk", 1)})
      /\ Bus!Set("clk", 1) \in Calls(e)
  BY LinesAre, ByteRaises
<1>2. Bus!em9010_write(r, b) = a \o e
  BY DEF Bus!em9010_write
<1> HIDE DEF a, e
<1>3. a \o e \in Seq(Sets)
  BY <1>1, ConcatProperties DEF a
<1>4. Followed(a \o e, {Bus!Set("clk", 0)}, {Bus!Set("clk", 1)})
  BY <1>1, EndRaises DEF a
<1>5. Sets \cap {Bus!Drive(0)} = {}
  BY WritesDiffer
<1>6. Followed(a \o e, {Bus!Drive(0)}, {Bus!Drive(1)})
  BY ONLY <1>3, <1>5, NoneFollowed
<1>7. QED BY <1>2, <1>3, <1>4, <1>6 DEF Restoring

LEMMA ReadRestores ==
  ASSUME NEW a \in Seq(AllWrites),
         NEW z, z = << Bus!Drive(1), Bus!Set("clk", 0), Bus!Set("data", 1), Bus!Set("clk", 1) >>
  PROVE  Restoring(a \o z)
<1>1. Len(z) = 4 /\ z[1] = Bus!Drive(1) /\ z[2] = Bus!Set("clk", 0)
      /\ z[3] = Bus!Set("data", 1) /\ z[4] = Bus!Set("clk", 1)
  OBVIOUS
<1>2. z \in Seq(AllWrites)
  <2>1. /\ Bus!Set("clk", 1) \in AllWrites /\ Bus!Set("clk", 0) \in AllWrites
        /\ Bus!Set("data", 1) \in AllWrites /\ Bus!Drive(1) \in AllWrites
    BY LinesAre DEF AllWrites, Sets, Drives
  <2>2. QED BY <2>1
<1>3. Followed(z, {Bus!Set("clk", 0)}, {Bus!Set("clk", 1)}) /\ Bus!Set("clk", 1) \in Calls(z)
  <2>1. 1 .. Len(z) = {1, 2, 3, 4}
    BY <1>1
  <2>2. \A i \in 1 .. Len(z) : z[i] = Bus!Set("clk", 0) => i = 2
    BY <1>1, <2>1, WritesDiffer
  <2>3. 4 \in 2 + 1 .. Len(z) /\ 4 \in 1 .. Len(z)
    BY <1>1
  <2>4. QED BY <1>1, <2>2, <2>3 DEF Followed, Calls
<1>4. Followed(z, {Bus!Drive(0)}, {Bus!Drive(1)}) /\ Calls(z) \cap {Bus!Drive(1)} # {}
  <2>1. 1 .. Len(z) = {1, 2, 3, 4}
    BY <1>1
  <2>2. \A i \in 1 .. Len(z) : z[i] # Bus!Drive(0)
    BY <1>1, <2>1, WritesDiffer
  <2>3. QED BY <1>1, <2>1, <2>2 DEF Followed, Calls
<1>5. QED BY <1>2, <1>3, <1>4, EndRaises, FollowedJoined DEF Restoring


\* A bit as last announces it, after a byte.
LEMMA ByteAndBitOut ==
  ASSUME NEW bits, NEW c, NEW k \in Nat, k + Width + 1 <= 5 * Width, NEW b, NEW v \in Levels,
         Meant(bits, k, Bus!High(b)),
         k + Width + 1 <= Len(bits) => v = bits[k + Width + 1]
  PROVE  /\ Bus!sub_23660(b, v) \in Seq(Sets)
         /\ Leads(Any, "em9010", bits, Bus!sub_23660(b, v), At(c, k), At(1, k + Width + 1))
<1> DEFINE p == << Bus!Set("clk", 0) >>
           o == Bus!I2C_out(Bus!High(b))
           e == << Bus!Set("data", v), Bus!Set("clk", 1) >>
           m == k + Width
<1>1. Bus!sub_23660(b, v) = (p \o o) \o e
  <2>1. e \in Seq(Sets) /\ p \in Seq(Sets)
    BY LinesAre DEF Sets
  <2>2. o \in Seq(Sets)
    BY BusNumbers, ByteOut
  <2> HIDE DEF p, o, e
  <2>3. QED BY ONLY <2>1, <2>2, ConcatAssociative DEF Bus!sub_23660, p, o, e
<1>2. m \in Nat /\ m + 1 = k + Width + 1 /\ m + 1 <= 5 * Width
  BY BusNumbers
<1>3. p \in Seq(Sets) /\ e \in Seq(Sets)
  BY LinesAre DEF Sets
<1>4. o \in Seq(Sets) /\ Leads(Any, "em9010", bits, o, At(0, k), At(0, m))
  BY <1>2, BusNumbers, ByteOut
<1> HIDE DEF m
<1>5. "em9010" \in Shared
  BY DEF Shared
<1>6. Leads(Any, "em9010", bits, p, At(c, k), At(0, k))
  <2>1. \A s \in At(c, k) : ViewAfter("em9010", bits, s, Bus!Set("clk", 0)) \in At(0, k)
    BY <1>5, ClkFalls
  <2>2. QED BY <2>1, AtIsAny, LeadsOne
<1>7. Leads(Any, "em9010", bits, e, At(0, m), At(1, m + 1))
  <2>1. \A s \in At(0, m) : ViewAfter("em9010", bits, s, Bus!Set("data", v)) \in With(v, At(0, m))
    BY <1>5, DataSet
  <2>2. ASSUME NEW s \in With(v, At(0, m))
        PROVE  ViewAfter("em9010", bits, s, Bus!Set("clk", 1)) \in At(1, m + 1)
    <3>1. s \in At(0, m) /\ s.pin["data"] = v
      BY DEF With
    <3>2. m + 1 <= Len(bits) => s.pin["data"] = bits[m + 1]
      BY <1>2, <3>1
    <3>3. QED BY <1>2, <1>5, <3>1, <3>2, ClkRises
  <2>3. QED BY <2>1, <2>2, AtIsAny, LeadsTwo
<1> HIDE DEF p, o, e
<1>8. p \o o \in Seq(Sets) /\ Leads(Any, "em9010", bits, p \o o, At(c, k), At(0, m))
  BY <1>3, <1>4, <1>6, LeadsJoined, ConcatProperties
<1>9. /\ (p \o o) \o e \in Seq(Sets)
      /\ Leads(Any, "em9010", bits, (p \o o) \o e, At(c, k), At(1, m + 1))
  BY <1>3, <1>7, <1>8, LeadsJoined, ConcatProperties
<1>10. QED BY <1>1, <1>2, <1>9

\* The start of a transfer with an EM9010: a one, the direction, and the register.
LEMMA TransferBegins ==
  ASSUME NEW bits, NEW r, NEW v \in Levels,
         bits[1] = 1, Meant(bits, 1, Bus!High(1)), bits[Width + 2] = v,
         Meant(bits, Width + 2, Bus!High(r)), bits[2 * Width + 3] = 0
  PROVE  /\ Bus!sub_236f0(r, v) \in Seq(Sets)
         /\ Leads(Any, "em9010", bits, Bus!sub_236f0(r, v), At(1, 0), At(1, 2 * Width + 3))
<1> DEFINE p == << Bus!Set("clk", 1), Bus!Set("data", 1), Bus!Set("clk", 0) >>
           q == << Bus!Set("data", 1), Bus!Set("clk", 1), Bus!Set("clk", 0) >>
           o == << Bus!Set("clk", 1), Bus!Set("data", 1), Bus!Set("clk", 0), Bus!Set("data", 1),
                   Bus!Set("clk", 1), Bus!Set("clk", 0) >>
           a == Bus!sub_23660(1, v)
           b == Bus!sub_23660(r, 0)
           m == Width + 2
<1>1. Bus!sub_236f0(r, v) = (o \o a) \o b
  BY DEF Bus!sub_236f0
<1>2. /\ Bus!Set("clk", 1) \in Sets /\ Bus!Set("clk", 0) \in Sets /\ Bus!Set("data", 1) \in Sets
  BY LinesAre DEF Sets
<1>3. p \in Seq(Sets) /\ q \in Seq(Sets) /\ o \in Seq(Sets)
  BY <1>2
<1>4. o = p \o q
  OBVIOUS
<1>5. "em9010" \in Shared
  BY DEF Shared
<1>6. Leads(Any, "em9010", bits, p, At(1, 0), At(0, 0))
  <2>1. \A s \in At(1, 0) : ViewAfter("em9010", bits, s, Bus!Set("clk", 1)) \in At(1, 0)
    BY <1>5, ClkStays
  <2>2. \A s \in At(1, 0) : ViewAfter("em9010", bits, s, Bus!Set("data", 1)) \in At(1, 0)
    BY <1>5, DataSet, LinesAre DEF With
  <2>3. \A s \in At(1, 0) : ViewAfter("em9010", bits, s, Bus!Set("clk", 0)) \in At(0, 0)
    BY <1>5, ClkFalls
  <2>4. QED BY <2>1, <2>2, <2>3, AtIsAny, LeadsThree
<1>7. Leads(Any, "em9010", bits, q, At(0, 0), At(0, 1))
  <2>1. 0 \in Nat /\ 0 + 1 = 1 /\ 0 + 1 <= 5 * Width
    BY BusNumbers
  <2>2. QED BY <2>1, LinesAre, BitOut
<1>8. /\ a \in Seq(Sets)
      /\ Leads(Any, "em9010", bits, a, At(0, 1), At(1, m))
  <2>1. 1 \in Nat /\ 1 + Width + 1 = m /\ 1 + Width + 1 <= 5 * Width
    BY BusNumbers
  <2>2. QED BY <2>1, ByteAndBitOut
<1>9. /\ b \in Seq(Sets)
      /\ Leads(Any, "em9010", bits, b, At(1, m), At(1, 2 * Width + 3))
  <2>1. m \in Nat /\ m + Width + 1 = 2 * Width + 3 /\ m + Width + 1 <= 5 * Width
    BY BusNumbers
  <2>2. QED BY <2>1, LinesAre, ByteAndBitOut
<1> HIDE DEF p, q, o, a, b, m
<1>10. Leads(Any, "em9010", bits, o, At(1, 0), At(0, 1))
  BY <1>3, <1>4, <1>6, <1>7, LeadsJoined
<1>11. o \o a \in Seq(Sets) /\ Leads(Any, "em9010", bits, o \o a, At(1, 0), At(1, m))
  BY <1>3, <1>8, <1>10, LeadsJoined, ConcatProperties
<1>12. (o \o a) \o b \in Seq(Sets)
  BY <1>9, <1>11, ConcatProperties
<1>13. Leads(Any, "em9010", bits, (o \o a) \o b, At(1, 0), At(1, 2 * Width + 3))
  BY ONLY <1>9, <1>11, LeadsJoined
<1>14. QED BY <1>1, <1>12, <1>13

\* A write to a register of the EM9010.
LEMMA WriteLeads ==
  ASSUME NEW bits, NEW r, NEW b,
         bits[1] = 1, Meant(bits, 1, Bus!High(1)), bits[Width + 2] = 1,
         Meant(bits, Width + 2, Bus!High(r)), bits[2 * Width + 3] = 0,
         Meant(bits, 2 * Width + 3, Bus!High(b)), bits[3 * Width + 4] = 1
  PROVE  /\ Bus!em9010_write(r, b) \in Seq(Sets) /\ Restoring(Bus!em9010_write(r, b))
         /\ Leads(Any, "em9010", bits, Bus!em9010_write(r, b), At(1, 0), At(1, 3 * Width + 4))
<1> DEFINE a == Bus!sub_236f0(r, 1)
           e == Bus!sub_23660(b, 1)
           m == 2 * Width + 3
<1>1. Bus!em9010_write(r, b) = a \o e
  BY DEF Bus!em9010_write
<1>2. a \in Seq(Sets) /\ Leads(Any, "em9010", bits, a, At(1, 0), At(1, m))
  BY LinesAre, TransferBegins
<1>3. m \in Nat /\ m + Width + 1 = 3 * Width + 4 /\ m + Width + 1 <= 5 * Width
  BY BusNumbers
<1>4. e \in Seq(Sets) /\ Leads(Any, "em9010", bits, e, At(1, m), At(1, 3 * Width + 4))
  <2>1. m + Width + 1 <= Len(bits) => 1 = bits[m + Width + 1]
    BY <1>3
  <2> HIDE DEF m
  <2>2. /\ e \in Seq(Sets)
        /\ Leads(Any, "em9010", bits, e, At(1, m), At(1, m + Width + 1))
    BY <1>3, <2>1, LinesAre, ByteAndBitOut DEF m
  <2>3. QED BY <1>3, <2>2
<1>5. Restoring(Bus!em9010_write(r, b))
  <2>1. 3 + 2 * Width \in Nat /\ m + Width <= 5 * Width
    BY BusNumbers
  <2> HIDE DEF m
  <2>2. Bus!I2C_out(Bus!High(b)) \in Seq(Sets)
    BY <1>3, <2>1, ByteOut DEF m
  <2>3. QED BY <1>2, <2>2, WriteRestores
<1> HIDE DEF a, e, m
<1>6. QED BY <1>1, <1>2, <1>4, <1>5, LeadsJoined, ConcatProperties

\* The answer of the EM9010, read bit for bit.
LEMMA ReadLeads ==
  ASSUME NEW bits, NEW r,
         bits[1] = 1, Meant(bits, 1, Bus!High(1)), bits[Width + 2] = 0,
         Meant(bits, Width + 2, Bus!High(r)), bits[2 * Width + 3] = 0,
         Len(bits) = 2 * Width + 3
  PROVE  /\ Bus!em9010_read(r) \in Seq(AllWrites) /\ Restoring(Bus!em9010_read(r))
         /\ Leads(Any, "em9010", bits, Bus!em9010_read(r), At(1, 0), At(1, 3 * Width + 4))
<1> DEFINE a == Bus!sub_236f0(r, 0)
           o == << Bus!Drive(0) >>
           w == Width
           m == 2 * w + 3
           f == [i \in 1 .. w |-> << [do |-> "sample", arg |-> i], Bus!Set("clk", 0),
                                     Bus!Set("clk", 1) >>]
           Q == [i \in 0 .. w |-> Released(At(1, m + i))]
           c == << Bus!Drive(1), Bus!Set("clk", 0) >>
           e == << Bus!Set("data", 1), Bus!Set("clk", 1) >>
           z == << Bus!Drive(1), Bus!Set("clk", 0), Bus!Set("data", 1), Bus!Set("clk", 1) >>
<1>1. Bus!em9010_read(r) = ((a \o o) \o Bus!Joined(f)) \o z
  BY DEF Bus!em9010_read
<1>2. Sets \subseteq AllWrites /\ Drives \subseteq AllWrites /\ Samples \subseteq AllWrites
  BY DEF AllWrites
<1>3. a \in Seq(AllWrites) /\ Leads(Any, "em9010", bits, a, At(1, 0), At(1, m))
  <2>1. a \in Seq(Sets) /\ Leads(Any, "em9010", bits, a, At(1, 0), At(1, m))
    BY LinesAre, TransferBegins
  <2>2. QED BY <1>2, <2>1, ElementOfSeq, LenProperties, SeqDef
<1>4. "em9010" \in Shared
  BY DEF Shared
<1>5. w \in Nat /\ m \in Nat /\ \A i \in 1 .. w : m + i <= 5 * w /\ m + i \in Nat
  BY BusNumbers
<1>6. /\ Bus!Set("clk", 1) \in AllWrites /\ Bus!Set("clk", 0) \in AllWrites
      /\ Bus!Set("data", 1) \in AllWrites /\ Bus!Drive(0) \in AllWrites /\ Bus!Drive(1) \in AllWrites
  BY <1>2, LinesAre DEF Sets, Drives
<1>7. o \in Seq(AllWrites) /\ Leads(Any, "em9010", bits, o, At(1, m), Q[0])
  <2>1. \A s \in At(1, m) : ViewAfter("em9010", bits, s, Bus!Drive(0)) \in Released(At(1, m))
    BY LinesAre, LineDriven DEF Released
  <2>2. Q[0] = Released(At(1, m))
    <3>1. 0 \in 0 .. w /\ m + 0 = m
      BY <1>5
    <3> HIDE DEF m
    <3>2. QED BY <3>1
  <2>3. o \in Seq(AllWrites)
    BY <1>6
  <2> HIDE DEF m, Q, w
  <2>4. QED BY <2>1, <2>2, <2>3, AtIsAny, LeadsOne
<1>8. f \in [1 .. w -> Seq(AllWrites)]
  <2>1. \A i \in 1 .. w : [do |-> "sample", arg |-> i] \in AllWrites
    BY <1>2 DEF Samples
  <2> HIDE DEF w
  <2>2. QED BY <1>6, <2>1
<1>9. Q \in [0 .. w -> Any] /\ \A i \in 0 .. w : Q[i] = Released(At(1, m + i))
  BY AtIsAny
<1>10. ASSUME NEW i \in 1 .. w PROVE Leads(Any, "em9010", bits, f[i], Q[i - 1], Q[i])
  <2> DEFINE j == m + (i - 1)
             sample == [do |-> "sample", arg |-> i]
  <2>1. /\ j \in Nat /\ j + 1 = m + i /\ j + 1 <= 5 * w /\ i - 1 \in 0 .. w /\ i \in 0 .. w
        /\ j = m + i - 1 /\ ~(j + 1 <= m)
    BY <1>5
  <2>2. Q[i - 1] = Released(At(1, j)) /\ Q[i] = Released(At(1, j + 1))
    BY <1>9, <2>1
  <2>3. f[i] = << sample, Bus!Set("clk", 0), Bus!Set("clk", 1) >>
    OBVIOUS
  <2>4. ASSUME NEW s \in Released(At(1, j))
        PROVE  ViewAfter("em9010", bits, s, sample) \in Released(At(1, j))
    BY <2>1, <2>4, BitRead
  <2>5. ASSUME NEW s \in Released(At(1, j))
        PROVE  ViewAfter("em9010", bits, s, Bus!Set("clk", 0)) \in Released(At(0, j))
    BY <1>4, ClkFalls DEF Released
  <2>6. ASSUME NEW s \in Released(At(0, j))
        PROVE  ViewAfter("em9010", bits, s, Bus!Set("clk", 1)) \in Released(At(1, j + 1))
    <3>1. s \in At(0, j) /\ s.drive = 0
      BY DEF Released
    <3>2. ~(j + 1 <= Len(bits)) /\ j + 1 <= 5 * Width
      BY <2>1
    <3> HIDE DEF j
    <3>3. QED BY <1>4, <2>1, <3>1, <3>2, ClkRises DEF Released
  <2> HIDE DEF j, sample, f, Q
  <2>7. /\ Released(At(1, j)) \in Any /\ Released(At(0, j)) \in Any
        /\ Released(At(1, j + 1)) \in Any
    BY AtIsAny
  <2>8. Leads(Any, "em9010", bits, << sample, Bus!Set("clk", 0), Bus!Set("clk", 1) >>,
              Released(At(1, j)), Released(At(1, j + 1)))
    BY ONLY <2>4, <2>5, <2>6, <2>7, LeadsThree
  <2>9. QED BY <2>2, <2>3, <2>8
<1>11. Q[w] = Released(At(1, m + w))
  BY <1>5, <1>9
<1>12. c \in Seq(AllWrites) /\ e \in Seq(AllWrites) /\ z \in Seq(AllWrites) /\ z = c \o e
  <2>1. c \in Seq(AllWrites) /\ e \in Seq(AllWrites) /\ z \in Seq(AllWrites)
    BY <1>6
  <2>2. z = c \o e
    OBVIOUS
  <2>3. QED BY <2>1, <2>2
<1> HIDE DEF f, Q, m
<1>13. Leads(Any, "em9010", bits, Bus!Joined(f), Q[0], Q[w])
  BY <1>5, <1>8, <1>9, <1>10, JoinedLeads
<1>14. Bus!Joined(f) \in Seq(AllWrites)
  BY <1>5, <1>8, JoinedCalls
<1>15. Leads(Any, "em9010", bits, c, Q[w], At(0, m + w))
  <2>1. \A s \in Q[w] : ViewAfter("em9010", bits, s, Bus!Drive(1)) \in At(1, m + w)
    BY <1>11, LinesAre, LineDriven DEF Released
  <2>2. \A s \in At(1, m + w) : ViewAfter("em9010", bits, s, Bus!Set("clk", 0)) \in At(0, m + w)
    BY <1>4, ClkFalls
  <2>3. QED BY <1>11, <2>1, <2>2, AtIsAny, LeadsTwo
<1>16. Leads(Any, "em9010", bits, e, At(0, m + w), At(1, m + w + 1))
  <2>1. \A s \in At(0, m + w) : ViewAfter("em9010", bits, s, Bus!Set("data", 1)) \in At(0, m + w)
    BY <1>4, LinesAre, DataSet DEF With
  <2>2. m + w \in Nat /\ m + w + 1 <= 5 * Width /\ ~(m + w + 1 <= Len(bits))
    BY BusNumbers DEF m
  <2>3. \A s \in At(0, m + w) : ViewAfter("em9010", bits, s, Bus!Set("clk", 1)) \in At(1, m + w + 1)
    BY <1>4, <2>2, ClkRises
  <2>4. QED BY <2>1, <2>3, AtIsAny, LeadsTwo
<1>17. m + w + 1 = 3 * Width + 4
  BY BusNumbers DEF m
<1> HIDE DEF a, o, c, e, z, w
<1>18. a \o o \in Seq(AllWrites) /\ Leads(Any, "em9010", bits, a \o o, At(1, 0), Q[0])
  BY <1>3, <1>7, LeadsJoined, ConcatProperties
<1>19. (a \o o) \o Bus!Joined(f) \in Seq(AllWrites)
  BY <1>14, <1>18, ConcatProperties
<1>20. Leads(Any, "em9010", bits, (a \o o) \o Bus!Joined(f), At(1, 0), Q[w])
  BY <1>13, <1>14, <1>18, LeadsJoined
<1>21. Leads(Any, "em9010", bits, z, Q[w], At(1, m + w + 1))
  BY <1>12, <1>15, <1>16, LeadsJoined
<1>22. ((a \o o) \o Bus!Joined(f)) \o z \in Seq(AllWrites)
  BY <1>12, <1>19, ConcatProperties
<1>23. Leads(Any, "em9010", bits, ((a \o o) \o Bus!Joined(f)) \o z, At(1, 0), At(1, m + w + 1))
  BY <1>12, <1>19, <1>20, <1>21, LeadsJoined
<1>24. Restoring(((a \o o) \o Bus!Joined(f)) \o z)
  BY <1>19, ReadRestores DEF z
<1>25. QED BY <1>1, <1>17, <1>22, <1>23, <1>24

-------------------------------------------------------------------------------
(* The encoder. *)

LEMMA WiresAre ==
  ASSUME NEW v \in Levels
  PROVE  /\ Bus!em8300_setsda(v) \in Seq(Wires) /\ Bus!em8300_setscl(v) \in Seq(Wires)
         /\ Bus!em8300_setsda(v) = << Bus!Drive(1), Bus!Set("data", v) >>
         /\ Bus!em8300_setscl(v) = << Bus!Set("clk", v) >>
<1>1. Bus!Drive(1) \in Wires /\ Bus!Set("data", v) \in Wires /\ Bus!Set("clk", v) \in Wires
  BY DEF Wires
<1>2. QED BY <1>1 DEF Bus!em8300_setsda, Bus!em8300_setscl

\* The data line is set while nothing is heard, or while the encoder listens.
LEMMA SdaLeads ==
  ASSUME NEW bits, NEW c, NEW k, NEW v \in Levels
  PROVE  /\ Leads(Any, "encoder", bits, Bus!em8300_setsda(v), At(c, k), With(v, At(c, k)))
         /\ c = 0 => Leads(Any, "encoder", bits, Bus!em8300_setsda(v),
                           Hearing(At(0, k)), Hearing(With(v, At(0, k))))
<1>1. "encoder" \in Shared /\ 1 \in Levels
  BY DEF Shared, Levels
<1>2. \A s \in At(c, k) : ViewAfter("encoder", bits, s, Bus!Drive(1)) \in At(c, k)
  BY <1>1, LineDriven
<1>3. \A s \in At(c, k) : ViewAfter("encoder", bits, s, Bus!Set("data", v)) \in With(v, At(c, k))
  BY <1>1, DataSet
<1>4. Leads(Any, "encoder", bits, Bus!em8300_setsda(v), At(c, k), With(v, At(c, k)))
  BY <1>2, <1>3, AtIsAny, WiresAre, LeadsTwo
<1>5. \A s \in Hearing(At(0, k)) :
        ViewAfter("encoder", bits, s, Bus!Drive(1)) \in Hearing(At(0, k))
  BY <1>1, LineDriven DEF Hearing
<1>6. \A s \in Hearing(At(0, k)) :
        ViewAfter("encoder", bits, s, Bus!Set("data", v)) \in Hearing(With(v, At(0, k)))
  BY <1>1, DataSet DEF Hearing
<1>7. Leads(Any, "encoder", bits, Bus!em8300_setsda(v), Hearing(At(0, k)), Hearing(With(v, At(0, k))))
  BY <1>5, <1>6, AtIsAny, WiresAre, LeadsTwo
<1>8. QED BY <1>4, <1>7

\* The clock rises while the encoder listens, falls, and stays.
LEMMA SclLeads ==
  ASSUME NEW bits, NEW k \in Nat, k + 1 <= 5 * Width, NEW v \in Levels,
         k + 1 <= Len(bits) => v = bits[k + 1]
  PROVE  /\ Leads(Any, "encoder", bits, Bus!em8300_setscl(1),
                  Hearing(With(v, At(0, k))), Hearing(At(1, k + 1)))
         /\ \A m : Leads(Any, "encoder", bits, Bus!em8300_setscl(0),
                         Hearing(At(1, m)), Hearing(At(0, m)))
<1>1. "encoder" \in Shared
  BY DEF Shared
<1>2. ASSUME NEW s \in Hearing(With(v, At(0, k)))
      PROVE  ViewAfter("encoder", bits, s, Bus!Set("clk", 1)) \in Hearing(At(1, k + 1))
  <2>1. s \in At(0, k) /\ s.pin["data"] = v /\ s.listening
    BY DEF Hearing, With
  <2>2. k + 1 <= Len(bits) => s.pin["data"] = bits[k + 1]
    BY <2>1
  <2> DEFINE t == ViewAfter("encoder", bits, s, Bus!Set("clk", 1))
  <2>3. t \in At(1, k + 1) /\ t.listening = s.listening
    BY <1>1, <2>1, <2>2, ClkRises
  <2> HIDE DEF t
  <2>4. t.listening
    BY <2>1, <2>3
  <2>5. QED BY <2>3, <2>4 DEF Hearing, t
<1>3. \A m : \A s \in Hearing(At(1, m)) :
        ViewAfter("encoder", bits, s, Bus!Set("clk", 0)) \in Hearing(At(0, m))
  BY <1>1, ClkFalls DEF Hearing
<1>4. Leads(Any, "encoder", bits, Bus!em8300_setscl(1), Hearing(With(v, At(0, k))), Hearing(At(1, k + 1)))
  BY <1>2, AtIsAny, WiresAre, LinesAre, LeadsOne
<1>5. QED BY <1>3, <1>4, AtIsAny, WiresAre, LinesAre, LeadsOne

\* A bit, with its clock.
LEMMA BitSent ==
  ASSUME NEW bits, NEW k \in Nat, k + 1 <= 5 * Width, NEW v \in Levels,
         k + 1 <= Len(bits) => v = bits[k + 1]
  PROVE  LET l == Bus!em8300_setsda(v) \o Bus!em8300_setscl(1) \o Bus!em8300_setscl(0)
         IN  l \in Seq(Wires) /\ Leads(Any, "encoder", bits, l, Hearing(At(0, k)), Hearing(At(0, k + 1)))
<1> DEFINE a == Bus!em8300_setsda(v)
           b == Bus!em8300_setscl(1)
           c == Bus!em8300_setscl(0)
<1>1. a \in Seq(Wires) /\ b \in Seq(Wires) /\ c \in Seq(Wires)
  BY LinesAre, WiresAre
<1>2. Leads(Any, "encoder", bits, a, Hearing(At(0, k)), Hearing(With(v, At(0, k))))
  BY SdaLeads
<1>3. Leads(Any, "encoder", bits, b, Hearing(With(v, At(0, k))), Hearing(At(1, k + 1)))
  BY SclLeads
<1>4. Leads(Any, "encoder", bits, c, Hearing(At(1, k + 1)), Hearing(At(0, k + 1)))
  BY SclLeads
<1> HIDE DEF a, b, c
<1> DEFINE ab == a \o b
<1>5. ab \in Seq(Wires)
      /\ Leads(Any, "encoder", bits, ab, Hearing(At(0, k)), Hearing(At(1, k + 1)))
  BY <1>1, <1>2, <1>3, LeadsJoined, ConcatProperties
<1> HIDE DEF ab
<1>6. ab \o c \in Seq(Wires)
      /\ Leads(Any, "encoder", bits, ab \o c, Hearing(At(0, k)), Hearing(At(0, k + 1)))
  BY <1>1, <1>4, <1>5, LeadsJoined, ConcatProperties
<1>7. QED BY <1>6 DEF a, b, c, ab

\* A start condition: the data line falls while the clock is high.
LEMMA StartSent ==
  ASSUME NEW bits
  PROVE  LET l == Bus!em8300_setsda(1) \o Bus!em8300_setscl(1) \o Bus!em8300_setsda(0)
                  \o Bus!em8300_setscl(0)
         IN  l \in Seq(Wires) /\ Leads(Any, "encoder", bits, l, At(1, 0), Hearing(At(0, 0)))
<1> DEFINE a == Bus!em8300_setsda(1)
           b == Bus!em8300_setscl(1)
           c == Bus!em8300_setsda(0)
           e == Bus!em8300_setscl(0)
<1>1. a \in Seq(Wires) /\ b \in Seq(Wires) /\ c \in Seq(Wires) /\ e \in Seq(Wires)
  BY LinesAre, WiresAre
<1>2. Leads(Any, "encoder", bits, a, At(1, 0), With(1, At(1, 0)))
  BY LinesAre, SdaLeads
<1>3. "encoder" \in Shared
  BY DEF Shared
<1>4. Leads(Any, "encoder", bits, b, With(1, At(1, 0)), With(1, At(1, 0)))
  <2>1. \A s \in With(1, At(1, 0)) :
          ViewAfter("encoder", bits, s, Bus!Set("clk", 1)) \in With(1, At(1, 0))
    BY <1>3, ClkStays DEF With
  <2>2. QED BY <2>1, AtIsAny, WiresAre, LinesAre, LeadsOne
<1>5. Leads(Any, "encoder", bits, c, With(1, At(1, 0)), Hearing(At(1, 0)))
  <2>1. \A s \in With(1, At(1, 0)) :
          ViewAfter("encoder", bits, s, Bus!Drive(1)) \in With(1, At(1, 0))
    BY <1>3, LinesAre, LineDriven DEF With
  <2>2. ASSUME NEW s \in With(1, At(1, 0))
        PROVE  ViewAfter("encoder", bits, s, Bus!Set("data", 0)) \in Hearing(At(1, 0))
    <3>1. s \in At(1, 0) /\ s.pin["data"] = 1
      BY DEF With
    <3>2. QED BY <1>3, <3>1, LinesAre, DataSet DEF Hearing, With
  <2>3. QED BY <2>1, <2>2, AtIsAny, WiresAre, LinesAre, LeadsTwo
<1>6. Leads(Any, "encoder", bits, e, Hearing(At(1, 0)), Hearing(At(0, 0)))
  <2>1. \A s \in Hearing(At(1, 0)) :
          ViewAfter("encoder", bits, s, Bus!Set("clk", 0)) \in Hearing(At(0, 0))
    BY <1>3, ClkFalls DEF Hearing
  <2>2. QED BY <2>1, AtIsAny, WiresAre, LinesAre, LeadsOne
<1> HIDE DEF a, b, c, e
<1>7. a \o b \in Seq(Wires) /\ (a \o b) \o c \in Seq(Wires) /\ ((a \o b) \o c) \o e \in Seq(Wires)
  BY <1>1, ConcatProperties
<1>8. Leads(Any, "encoder", bits, a \o b, At(1, 0), With(1, At(1, 0)))
  BY <1>1, <1>2, <1>4, LeadsJoined
<1>9. Leads(Any, "encoder", bits, (a \o b) \o c, At(1, 0), Hearing(At(1, 0)))
  BY <1>1, <1>5, <1>7, <1>8, LeadsJoined
<1>10. Leads(Any, "encoder", bits, ((a \o b) \o c) \o e, At(1, 0), Hearing(At(0, 0)))
  BY <1>1, <1>6, <1>7, <1>9, LeadsJoined
<1>11. QED BY <1>7, <1>10 DEF a, b, c, e
\* A byte for the encoder, and for the clock generator.
LEMMA EncoderRestores ==
  ASSUME NEW b, NEW a, Bus!i2c_transfer(b) = (a \o Bus!em8300_setscl(1)) \o Bus!em8300_setsda(1),
         a \in Seq(Wires)
  PROVE  Restoring(Bus!i2c_transfer(b))
<1> DEFINE c == Bus!em8300_setscl(1)
           s == Bus!em8300_setsda(1)
<1>1. c \in Seq(Wires) /\ s \in Seq(Wires)
  BY LinesAre, WiresAre
<1>2. Followed(c, {Bus!Set("clk", 0)}, {Bus!Set("clk", 1)}) /\ Bus!Set("clk", 1) \in Calls(c)
  <2>1. Len(c) = 1 /\ c[1] = Bus!Set("clk", 1)
    BY LinesAre, WiresAre
  <2> HIDE DEF c
  <2>2. \A i \in 1 .. Len(c) : c[i] \notin {Bus!Set("clk", 0)}
    BY <2>1, WritesDiffer
  <2>3. 1 \in 1 .. Len(c)
    BY <2>1
  <2>4. QED BY <2>1, <2>2, <2>3 DEF Followed, Calls
<1>3. Followed(s, {Bus!Set("clk", 0)}, {Bus!Set("clk", 1)})
  <2>1. Len(s) = 2 /\ s[1] = Bus!Drive(1) /\ s[2] = Bus!Set("data", 1)
    BY LinesAre, WiresAre
  <2> HIDE DEF s
  <2>2. \A i \in 1 .. Len(s) : s[i] \notin {Bus!Set("clk", 0)}
    BY <2>1, WritesDiffer
  <2>3. QED BY <2>2 DEF Followed
<1> HIDE DEF c, s
<1> DEFINE l == a \o c
<1>4. l \in Seq(Wires) /\ Followed(l, {Bus!Set("clk", 0)}, {Bus!Set("clk", 1)})
  BY <1>1, <1>2, EndRaises, ConcatProperties
<1> HIDE DEF l
<1>5. l \o s \in Seq(Wires) /\ Followed(l \o s, {Bus!Set("clk", 0)}, {Bus!Set("clk", 1)})
  BY <1>1, <1>3, <1>4, FollowedJoined, ConcatProperties
<1>6. Wires \cap {Bus!Drive(0)} = {}
  BY WritesDiffer DEF Wires
<1>7. Followed(l \o s, {Bus!Drive(0)}, {Bus!Drive(1)})
  BY ONLY <1>5, <1>6, NoneFollowed
<1>8. QED BY <1>5, <1>7 DEF Restoring, l, c, s

LEMMA ClockgenRestores ==
  ASSUME NEW l \in Seq(ClockgenSets)
  PROVE  Restoring(l)
<1>1. ClockgenSets \cap {Bus!Set("clk", 0)} = {} /\ ClockgenSets \cap {Bus!Drive(0)} = {}
  BY WritesDiffer DEF ClockgenSets
<1>2. QED BY <1>1, NoneFollowed DEF Restoring

\* A byte for the encoder, between start and stop.
LEMMA EncoderLeads ==
  ASSUME NEW bits, NEW b, Meant(bits, 0, Bus!High(b)), Len(bits) = Width + 2,
         bits[Width + 1] = 1, bits[Width + 2] = 0
  PROVE  /\ Bus!i2c_transfer(b) \in Seq(Wires) /\ Restoring(Bus!i2c_transfer(b))
         /\ Leads(Any, "encoder", bits, Bus!i2c_transfer(b), At(1, 0), At(1, Width + 2))
<1> DEFINE s1 == Bus!em8300_setsda(1)
           c1 == Bus!em8300_setscl(1)
           s0 == Bus!em8300_setsda(0)
           c0 == Bus!em8300_setscl(0)
           start == s1 \o c1 \o s0 \o c0
           m == Width + 1
           v(i) == IF i = Width + 1 THEN 1 ELSE Bus!High(b)[i]
           f == [i \in 1 .. m |-> Bus!em8300_setsda(v(i)) \o Bus!em8300_setscl(1)
                                  \o Bus!em8300_setscl(0)]
           Q == [i \in 0 .. m |-> Hearing(At(0, i))]
           j == Bus!Joined(f)
<1>1. Bus!i2c_transfer(b) = (((start \o j) \o s0) \o c1) \o s1
  BY DEF Bus!i2c_transfer
<1>2. m \in Nat /\ m + 1 = Width + 2 /\ m + 1 <= 5 * Width /\ m <= 5 * Width
  BY BusNumbers
<1>3. \A i \in 1 .. m : v(i) \in Levels /\ (i <= Len(bits) => v(i) = bits[i])
  <2> TAKE i \in 1 .. m
  <2>1. CASE i = Width + 1
    BY <2>1, LinesAre
  <2>2. CASE i # Width + 1
    <3>1. i \in 1 .. Width /\ 0 + i = i
      BY <2>2, BusNumbers
    <3>2. v(i) = Bus!High(b)[i]
      BY <2>2
    <3> HIDE DEF v
    <3>3. QED BY <3>1, <3>2 DEF Meant
  <2>3. QED BY <2>1, <2>2
<1> HIDE DEF v
<1>4. ASSUME NEW i \in 1 .. m
      PROVE  f[i] \in Seq(Wires) /\ Leads(Any, "encoder", bits, f[i], Q[i - 1], Q[i])
  <2>1. /\ i - 1 \in Nat /\ (i - 1) + 1 = i /\ (i - 1) + 1 <= 5 * Width
        /\ i \in 0 .. m /\ i - 1 \in 0 .. m
    BY BusNumbers
  <2>2. Q[i - 1] = Hearing(At(0, i - 1)) /\ Q[i] = Hearing(At(0, (i - 1) + 1))
    BY <2>1
  <2>3. v(i) \in Levels /\ ((i - 1) + 1 <= Len(bits) => v(i) = bits[(i - 1) + 1])
    BY <1>3, <2>1
  <2>4. f[i] = Bus!em8300_setsda(v(i)) \o Bus!em8300_setscl(1) \o Bus!em8300_setscl(0)
    OBVIOUS
  <2> HIDE DEF f, Q
  <2>5. QED BY <2>1, <2>2, <2>3, <2>4, BitSent
<1>5. f \in [1 .. m -> Seq(Wires)]
  <2>1. f = [i \in 1 .. m |-> f[i]]
    OBVIOUS
  <2> HIDE DEF f
  <2>2. QED BY <1>4, <2>1
<1>6. Q \in [0 .. m -> Any] /\ Q[0] = Hearing(At(0, 0)) /\ Q[m] = Hearing(At(0, m))
  BY <1>2, AtIsAny
<1> HIDE DEF f, Q
<1>7. j \in Seq(Wires) /\ Leads(Any, "encoder", bits, j, Hearing(At(0, 0)), Hearing(At(0, m)))
  <2>1. Leads(Any, "encoder", bits, j, Q[0], Q[m])
    BY <1>2, <1>4, <1>5, <1>6, JoinedLeads
  <2>2. j \in Seq(Wires)
    BY <1>2, <1>5, JoinedCalls
  <2>3. QED BY <1>6, <2>1, <2>2
<1>8. start \in Seq(Wires) /\ Leads(Any, "encoder", bits, start, At(1, 0), Hearing(At(0, 0)))
  BY StartSent
<1>9. s0 \in Seq(Wires) /\ c1 \in Seq(Wires) /\ s1 \in Seq(Wires)
  BY LinesAre, WiresAre
<1>10. Leads(Any, "encoder", bits, s0, Hearing(At(0, m)), Hearing(With(0, At(0, m))))
  BY LinesAre, SdaLeads
<1>11. Leads(Any, "encoder", bits, c1, Hearing(With(0, At(0, m))), At(1, m + 1))
  <2>1. "encoder" \in Shared /\ m + 1 <= Len(bits) /\ bits[m + 1] = 0
    BY <1>2 DEF Shared
  <2> HIDE DEF m
  <2>2. ASSUME NEW s \in Hearing(With(0, At(0, m)))
        PROVE  ViewAfter("encoder", bits, s, Bus!Set("clk", 1)) \in At(1, m + 1)
    <3>1. s \in At(0, m) /\ s.pin["data"] = bits[m + 1] /\ s.listening
      BY <2>1 DEF Hearing, With
    <3>2. QED BY <1>2, <2>1, <3>1, ClkRises
  <2>3. QED BY <2>2, AtIsAny, WiresAre, LinesAre, LeadsOne
<1>12. Leads(Any, "encoder", bits, s1, At(1, m + 1), At(1, m + 1))
  <2>1. "encoder" \in Shared
    BY DEF Shared
  <2>2. \A s \in At(1, m + 1) : ViewAfter("encoder", bits, s, Bus!Drive(1)) \in At(1, m + 1)
    BY <2>1, LinesAre, LineDriven
  <2>3. \A s \in At(1, m + 1) : ViewAfter("encoder", bits, s, Bus!Set("data", 1)) \in At(1, m + 1)
    BY <2>1, LinesAre, DataSet DEF With
  <2>4. QED BY <2>2, <2>3, AtIsAny, WiresAre, LinesAre, LeadsTwo
<1> HIDE DEF s1, c1, s0, start, j
<1> DEFINE l1 == start \o j
           l2 == l1 \o s0
           l3 == l2 \o c1
           l4 == l3 \o s1
<1>13. l1 \in Seq(Wires) /\ Leads(Any, "encoder", bits, l1, At(1, 0), Hearing(At(0, m)))
  BY <1>7, <1>8, LeadsJoined, ConcatProperties
<1> HIDE DEF l1
<1>14. l2 \in Seq(Wires)
       /\ Leads(Any, "encoder", bits, l2, At(1, 0), Hearing(With(0, At(0, m))))
  BY <1>9, <1>10, <1>13, LeadsJoined, ConcatProperties
<1>15. Restoring(Bus!i2c_transfer(b))
  BY <1>1, <1>14, EncoderRestores DEF l1, l2, s1, c1
<1> HIDE DEF l2
<1>16. l3 \in Seq(Wires) /\ Leads(Any, "encoder", bits, l3, At(1, 0), At(1, m + 1))
  BY <1>9, <1>11, <1>14, LeadsJoined, ConcatProperties
<1> HIDE DEF l3
<1>17. l4 \in Seq(Wires) /\ Leads(Any, "encoder", bits, l4, At(1, 0), At(1, m + 1))
  BY <1>9, <1>12, <1>16, LeadsJoined, ConcatProperties
<1>18. QED BY <1>1, <1>2, <1>15, <1>17 DEF l1, l2, l3, l4

-------------------------------------------------------------------------------
(* The clock generator. *)

\* It has taken k bits, and its clock is low; if they are to be the right ones (ok), they
\* are, and the bit on the line is v.  No one else has its clock: whoever else writes to the
\* pins, it will be given its number of bits.
Have(ok, k) == {s \in Views : (ok => s.right) /\ s.n = k}
Down(ok, k) == {s \in Have(ok, k) : s.pin["clkgen"] = 0}
Ready(ok, k, v) == {s \in Down(ok, k) : ok => s.pin["data"] = v}

\* A line other than its clock, and its clock, which falls and rises.
LEMMA OtherLine ==
  ASSUME NEW bits, NEW ok \in BOOLEAN, NEW k, NEW l \in Bus!Lines \ {"clkgen"}, NEW v \in Levels
  PROVE  /\ \A s \in Have(ok, k) : ViewAfter("clockgen", bits, s, Bus!Set(l, v)) \in Have(ok, k)
         /\ l = "data" => \A s \in Down(ok, k) :
              ViewAfter("clockgen", bits, s, Bus!Set(l, v)) \in Ready(ok, k, v)
<1>1. ASSUME NEW s \in Have(ok, k)
      PROVE  LET t == ViewAfter("clockgen", bits, s, Bus!Set(l, v))
             IN  t \in Have(ok, k) /\ t.pin[l] = v /\ t.pin["clkgen"] = s.pin["clkgen"]
  <2> DEFINE t == ViewAfter("clockgen", bits, s, Bus!Set(l, v))
  <2>1. s \in Views /\ (ok => s.right) /\ s.n = k
    BY DEF Have
  <2>2. ~TakesBit("clockgen", s, Bus!Set(l, v))
    BY DEF TakesBit, Bus!Set, ClockOf
  <2>3. "clkgen" \in Bus!Lines \ {l} /\ l \in Bus!Lines
    BY LinesAre
  <2>4. s \in Views
    BY <2>1
  <2>5. /\ t \in Views /\ t.pin[l] = v /\ t.pin["clkgen"] = s.pin["clkgen"]
        /\ t.n = s.n /\ t.right = s.right
    BY <2>2, <2>3, <2>4, PinSet
  <2> HIDE DEF t
  <2>6. ok => t.right
    BY <2>1, <2>5
  <2>7. QED BY <2>1, <2>5, <2>6 DEF Have, t
<1>2. QED BY <1>1 DEF Down, Ready

LEMMA ClkgenFalls ==
  ASSUME NEW bits, NEW ok \in BOOLEAN, NEW k, NEW s \in Have(ok, k)
  PROVE  ViewAfter("clockgen", bits, s, Bus!Set("clkgen", 0)) \in Down(ok, k)
<1> DEFINE t == ViewAfter("clockgen", bits, s, Bus!Set("clkgen", 0))
<1>1. s \in Views
  BY DEF Have
<1>2. (ok => s.right) /\ s.n = k
  BY DEF Have
<1>3. ~TakesBit("clockgen", s, Bus!Set("clkgen", 0))
  BY DEF TakesBit, Bus!Set
<1>4. t \in Views /\ t.pin["clkgen"] = 0 /\ t.n = s.n /\ t.right = s.right
  BY <1>1, <1>3, LinesAre, PinSet
<1> HIDE DEF t
<1>5. ok => t.right
  BY <1>2, <1>4
<1>6. QED BY <1>2, <1>4, <1>5 DEF Have, Down, t

LEMMA ClkgenRises ==
  ASSUME NEW bits, NEW ok \in BOOLEAN, NEW k \in Nat, k + 1 <= 5 * Width, NEW v,
         k + 1 <= Len(bits) => v = bits[k + 1], NEW s \in Ready(ok, k, v)
  PROVE  ViewAfter("clockgen", bits, s, Bus!Set("clkgen", 1)) \in Have(ok, k + 1)
<1> DEFINE t == ViewAfter("clockgen", bits, s, Bus!Set("clkgen", 1))
<1>1. s \in Views
  BY DEF Have, Down, Ready
<1>2. /\ (ok => s.right) /\ s.n = k /\ s.pin["clkgen"] = 0
      /\ ok => s.pin["data"] = v
  BY DEF Have, Down, Ready
<1>3. TakesBit("clockgen", s, Bus!Set("clkgen", 1)) /\ "clkgen" \in Bus!Lines /\ "clkgen" # "data"
  BY <1>2, LinesAre DEF TakesBit, Bus!Set, ClockOf
<1>4. t \in Views /\ t.n = Most(s.n + 1) /\ (s.right /\ RightBit(bits, s) => t.right)
  <2>1. \A l \in Bus!Lines : l # "data" /\ TakesBit("clockgen", s, Bus!Set(l, 1))
          => LET x == ViewAfter("clockgen", bits, s, Bus!Set(l, 1))
             IN  x \in Views /\ x.n = Most(s.n + 1) /\ (s.right /\ RightBit(bits, s) => x.right)
    BY <1>1, BitTaken
  <2>2. QED BY <1>3, <2>1
<1> HIDE DEF t
<1>5. ok => t.right
  <2>1. ok => RightBit(bits, s)
    BY <1>2 DEF RightBit
  <2>2. QED BY <1>2, <1>4, <2>1
<1>6. Most(k + 1) = k + 1
  BY BusNumbers DEF Most
<1>7. QED BY <1>2, <1>4, <1>5, <1>6 DEF Have, t

\* A byte for the clock generator.
LEMMA ClockgenLeads ==
  ASSUME NEW bits, NEW b, Meant(bits, 0, Bus!Low(b)), NEW ok \in BOOLEAN, NEW F,
         \A k : Have(ok, k) \in F /\ Down(ok, k) \in F /\ \A v : Ready(ok, k, v) \in F
  PROVE  /\ Bus!em8300_clockgen_write(b) \in Seq(ClockgenSets)
         /\ Restoring(Bus!em8300_clockgen_write(b))
         /\ Leads(F, "clockgen", bits, Bus!em8300_clockgen_write(b), Have(ok, 0), Have(ok, Width))
<1> DEFINE w == Width
           v(i) == Bus!Low(b)[i]
           p == << Bus!Set("data", 1) >>
           f == [i \in 1 .. w |-> << Bus!Set("clkgen", 0), Bus!Set("data", v(i)),
                                     Bus!Set("clkgen", 1) >>]
           Q == [i \in 0 .. w |-> Have(ok, i)]
           j == Bus!Joined(f)
           e == << Bus!Set("latch", 0), Bus!Set("latch", 1) >>
<1>1. Bus!em8300_clockgen_write(b) = (p \o j) \o e
  BY DEF Bus!em8300_clockgen_write
<1>2. w \in Nat /\ w <= 5 * Width
  BY BusNumbers
<1>3. \A i \in 1 .. w : v(i) \in Levels /\ (i <= Len(bits) => v(i) = bits[i])
  <2>1. \A i \in 1 .. w : 0 + i = i
    OBVIOUS
  <2>2. QED BY <2>1 DEF Meant
<1>4. \A l \in {"data", "clkgen", "latch"}, x \in Levels : Bus!Set(l, x) \in ClockgenSets
  BY DEF ClockgenSets
<1> HIDE DEF v
<1>5. ASSUME NEW i \in 1 .. w
      PROVE  f[i] \in Seq(ClockgenSets) /\ Leads(F, "clockgen", bits, f[i], Q[i - 1], Q[i])
  <2> DEFINE k == i - 1
  <2>1. k \in Nat /\ k + 1 = i /\ k + 1 <= 5 * Width /\ i \in 0 .. w /\ k \in 0 .. w
    BY BusNumbers
  <2>2. Q[k] = Have(ok, k) /\ Q[i] = Have(ok, k + 1)
    BY <2>1
  <2>3. v(i) \in Levels /\ (k + 1 <= Len(bits) => v(i) = bits[k + 1])
    BY <1>3, <2>1
  <2>4. f[i] = << Bus!Set("clkgen", 0), Bus!Set("data", v(i)), Bus!Set("clkgen", 1) >>
    OBVIOUS
  <2> HIDE DEF k, f, Q
  <2>5. \A s \in Have(ok, k) : ViewAfter("clockgen", bits, s, Bus!Set("clkgen", 0)) \in Down(ok, k)
    BY ClkgenFalls
  <2>6. \A s \in Down(ok, k) :
          ViewAfter("clockgen", bits, s, Bus!Set("data", v(i))) \in Ready(ok, k, v(i))
    <3>1. "data" \in Bus!Lines \ {"clkgen"}
      BY LinesAre
    <3>2. QED BY <2>3, <3>1, OtherLine
  <2>7. \A s \in Ready(ok, k, v(i)) :
          ViewAfter("clockgen", bits, s, Bus!Set("clkgen", 1)) \in Have(ok, k + 1)
    BY <2>1, <2>3, ClkgenRises
  <2>8. Leads(F, "clockgen", bits, f[i], Q[k], Q[i])
    BY <2>2, <2>4, <2>5, <2>6, <2>7, LeadsThree
  <2>9. f[i] \in Seq(ClockgenSets)
    BY <1>4, <2>3, <2>4, LinesAre
  <2>10. QED BY <2>8, <2>9 DEF k
<1>6. f \in [1 .. w -> Seq(ClockgenSets)]
  <2>1. f = [i \in 1 .. w |-> f[i]]
    OBVIOUS
  <2> HIDE DEF f
  <2>2. QED BY <1>5, <2>1
<1>7. Q \in [0 .. w -> F] /\ Q[0] = Have(ok, 0) /\ Q[w] = Have(ok, w)
  BY <1>2
<1> HIDE DEF f, Q
<1>8. j \in Seq(ClockgenSets) /\ Leads(F, "clockgen", bits, j, Have(ok, 0), Have(ok, w))
  <2>1. Leads(F, "clockgen", bits, j, Q[0], Q[w])
    BY <1>2, <1>5, <1>6, <1>7, JoinedLeads
  <2>2. j \in Seq(ClockgenSets)
    BY <1>2, <1>6, JoinedCalls
  <2>3. QED BY <1>7, <2>1, <2>2
<1>9. /\ "data" \in Bus!Lines \ {"clkgen"} /\ "latch" \in Bus!Lines \ {"clkgen"}
      /\ 0 \in Levels /\ 1 \in Levels
  BY LinesAre
<1>10. p \in Seq(ClockgenSets) /\ Leads(F, "clockgen", bits, p, Have(ok, 0), Have(ok, 0))
  <2>1. \A s \in Have(ok, 0) : ViewAfter("clockgen", bits, s, Bus!Set("data", 1)) \in Have(ok, 0)
    BY <1>9, OtherLine
  <2>2. p \in Seq(ClockgenSets)
    BY <1>4, <1>9
  <2>3. QED BY <2>1, <2>2, LeadsOne
<1>11. e \in Seq(ClockgenSets) /\ Leads(F, "clockgen", bits, e, Have(ok, w), Have(ok, w))
  <2>1. \A s \in Have(ok, w) : ViewAfter("clockgen", bits, s, Bus!Set("latch", 0)) \in Have(ok, w)
    BY <1>9, OtherLine
  <2>2. \A s \in Have(ok, w) : ViewAfter("clockgen", bits, s, Bus!Set("latch", 1)) \in Have(ok, w)
    BY <1>9, OtherLine
  <2>3. e \in Seq(ClockgenSets)
    BY <1>4, <1>9
  <2>4. QED BY <2>1, <2>2, <2>3, LeadsTwo
<1> HIDE DEF p, j, e
<1> DEFINE l == p \o j
<1>12. l \in Seq(ClockgenSets) /\ Leads(F, "clockgen", bits, l, Have(ok, 0), Have(ok, w))
  BY <1>8, <1>10, LeadsJoined, ConcatProperties
<1> HIDE DEF l
<1>13. l \o e \in Seq(ClockgenSets) /\ Leads(F, "clockgen", bits, l \o e, Have(ok, 0), Have(ok, w))
  BY <1>11, <1>12, LeadsJoined, ConcatProperties
<1>14. QED BY <1>1, <1>13, ClockgenRestores DEF l

\* What is asked of a view in each of the two ways.
LEMMA ClockgenFamilies ==
  ASSUME NEW k
  PROVE  /\ Have(TRUE, k) \in Any /\ Down(TRUE, k) \in Any /\ \A v : Ready(TRUE, k, v) \in Any
         /\ Have(FALSE, k) \in Blind /\ Down(FALSE, k) \in Blind
         /\ \A v : Ready(FALSE, k, v) \in Blind
BY DEF Have, Down, Ready, Any, Blind

-------------------------------------------------------------------------------
(* What each device is meant to take. *)

\* The bits of a byte are levels.
LEMMA BitsAreLevels ==
  ASSUME NEW b \in Nat
  PROVE  Bus!High(b) \in [1 .. Width -> Levels] /\ Bus!Low(b) \in [1 .. Width -> Levels]
<1>1. \A j \in 0 .. 7 : (b \div 2^j) % 2 \in Levels
  <2> TAKE j \in 0 .. 7
  <2>1. PICK z \in Nat : z = 2^j /\ z > 0
    <3>1. j \in {0, 1, 2, 3, 4, 5, 6, 7}
      OBVIOUS
    <3>2. CASE j = 0
      BY <3>2
    <3>3. CASE j = 1
      BY <3>3
    <3>4. CASE j = 2
      BY <3>4
    <3>5. CASE j = 3
      BY <3>5
    <3>6. CASE j = 4
      BY <3>6
    <3>7. CASE j = 5
      BY <3>7
    <3>8. CASE j = 6
      BY <3>8
    <3>9. CASE j = 7
      BY <3>9
    <3>10. QED BY <3>1, <3>2, <3>3, <3>4, <3>5, <3>6, <3>7, <3>8, <3>9
  <2>2. b \div z \in Nat
    BY <2>1
  <2>3. QED BY <2>1, <2>2 DEF Levels
<1>2. \A i \in 1 .. Width : Width - i \in 0 .. 7 /\ i - 1 \in 0 .. 7
  BY BusNumbers
<1>3. \A i \in 1 .. Width : Bus!High(b)[i] \in Levels /\ Bus!Low(b)[i] \in Levels
  BY <1>1, <1>2 DEF Bus!High, Bus!Low
<1>4. /\ Bus!High(b) = [i \in 1 .. Width |-> Bus!High(b)[i]]
      /\ Bus!Low(b) = [i \in 1 .. Width |-> Bus!Low(b)[i]]
  BY DEF Bus!High, Bus!Low
<1>5. QED BY <1>3, <1>4

LEMMA BytesAreNumbers == \A b \in Bytes : b \in Nat
<1>1. Width \in {2, 3, 4, 5, 6, 7, 8}
  BY BusNumbers
<1>2. Bytes \subseteq 0 .. 2^Width - 1
  BY BusConstants DEF Bus!BusAssumption
<1>3. QED BY <1>2

\* A list of bits after another, of which one is meant.
LEMMA BitsThen ==
  ASSUME NEW a \in Seq(Levels), NEW x \in Seq(Levels)
  PROVE  LET l == a \o x
         IN  /\ l \in Seq(Levels) /\ Len(l) = Len(a) + Len(x)
             /\ \A i \in 1 .. Len(a) : l[i] = a[i]
             /\ \A i \in 1 .. Len(x) : l[Len(a) + i] = x[i]
<1> DEFINE l == a \o x
<1>1. /\ l \in Seq(Levels) /\ Len(l) = Len(a) + Len(x) /\ Len(a) \in Nat /\ Len(x) \in Nat
      /\ \A i \in 1 .. Len(a) + Len(x) : l[i] = IF i <= Len(a) THEN a[i] ELSE x[i - Len(a)]
  BY ConcatProperties, LenProperties
<1> HIDE DEF l
<1>2. \A i \in 1 .. Len(a) : i \in 1 .. Len(a) + Len(x) /\ i <= Len(a)
  BY <1>1
<1>3. \A i \in 1 .. Len(x) : /\ Len(a) + i \in 1 .. Len(a) + Len(x) /\ ~(Len(a) + i <= Len(a))
                             /\ (Len(a) + i) - Len(a) = i
  BY <1>1
<1>4. QED BY <1>1, <1>2, <1>3 DEF l

LEMMA OneBit ==
  ASSUME NEW v \in Levels
  PROVE  <<v>> \in Seq(Levels) /\ Len(<<v>>) = 1 /\ <<v>>[1] = v
OBVIOUS

LEMMA ByteIsBits ==
  ASSUME NEW b \in Nat
  PROVE  /\ Bus!High(b) \in Seq(Levels) /\ Len(Bus!High(b)) = Width
         /\ Bus!Low(b) \in Seq(Levels) /\ Len(Bus!Low(b)) = Width
BY BitsAreLevels, BusNumbers, LengthOf

\* A level and a byte after a list of bits.
LEMMA LevelAndByteThen ==
  ASSUME NEW a \in Seq(Levels), NEW v \in Levels, NEW b \in Nat
  PROVE  LET l == (a \o <<v>>) \o Bus!High(b)
         IN  /\ l \in Seq(Levels) /\ Len(l) = Len(a) + 1 + Width
             /\ \A i \in 1 .. Len(a) : l[i] = a[i]
             /\ l[Len(a) + 1] = v
             /\ Meant(l, Len(a) + 1, Bus!High(b))
<1> DEFINE m == a \o <<v>>
           x == Bus!High(b)
           l == m \o x
           n == Len(a)
<1>1. /\ x \in Seq(Levels) /\ Len(x) = Width /\ n \in Nat
      /\ x \in [1 .. Width -> Levels]
  BY ByteIsBits, BitsAreLevels, LenProperties
<1>2. /\ m \in Seq(Levels) /\ Len(m) = n + 1
      /\ \A i \in 1 .. n : m[i] = a[i]
      /\ m[n + 1] = v
  <2>1. 1 \in 1 .. 1
    OBVIOUS
  <2>2. QED BY <2>1, BitsThen, OneBit
<1> HIDE DEF m, x
<1>3. /\ l \in Seq(Levels) /\ Len(l) = Len(m) + Len(x)
      /\ \A i \in 1 .. Len(m) : l[i] = m[i]
      /\ \A i \in 1 .. Len(x) : l[Len(m) + i] = x[i]
  BY <1>1, <1>2, BitsThen
<1> HIDE DEF l
<1>4. \A i \in 1 .. n : i \in 1 .. Len(m)
  BY <1>1, <1>2
<1>5. n + 1 \in 1 .. Len(m)
  BY <1>1, <1>2
<1>6. Meant(l, n + 1, x)
  BY <1>1, <1>2, <1>3 DEF Meant
<1>7. QED BY <1>1, <1>2, <1>3, <1>4, <1>5, <1>6 DEF l, m, x

\* What a list of bits means at its beginning it means with more bits after it, up to there.
LEMMA MeantStill ==
  ASSUME NEW a, NEW l, NEW k \in Nat, NEW x, Meant(a, k, x), k + Width <= Len(a),
         Len(a) \in Nat, \A i \in 1 .. Len(a) : l[i] = a[i]
  PROVE  Meant(l, k, x)
<1>1. \A i \in 1 .. Width : k + i <= Len(a) /\ k + i \in 1 .. Len(a)
  BY BusNumbers
<1>2. QED BY <1>1 DEF Meant

\* The bits of a transfer to the EM9010, up to the byte of the register.
LEMMA RegisterIsMeant ==
  ASSUME NEW r \in Nat, NEW v \in Levels
  PROVE  LET l == ((<<1>> \o Bus!High(1)) \o <<v>>) \o Bus!High(r)
         IN  /\ l \in Seq(Levels) /\ Len(l) = 2 * Width + 2
             /\ l[1] = 1 /\ Meant(l, 1, Bus!High(1)) /\ l[Width + 2] = v
             /\ Meant(l, Width + 2, Bus!High(r))
<1> DEFINE o == <<1>>
           x == Bus!High(1)
           a == o \o x
           l == (a \o <<v>>) \o Bus!High(r)
           w == Width
<1>1. w \in Nat /\ w = Width
  BY BusNumbers
<1>2. o \in Seq(Levels) /\ Len(o) = 1 /\ o[1] = 1
  BY LinesAre, OneBit
<1>3. x \in Seq(Levels) /\ Len(x) = w /\ x \in [1 .. w -> Levels]
  BY ByteIsBits, BitsAreLevels
<1> HIDE DEF o, x, w
<1>4. /\ a \in Seq(Levels) /\ Len(a) = 1 + w
      /\ \A i \in 1 .. 1 : a[i] = o[i]
      /\ \A i \in 1 .. w : a[1 + i] = x[i]
  <2>1. /\ a \in Seq(Levels) /\ Len(a) = Len(o) + Len(x)
        /\ \A i \in 1 .. Len(o) : a[i] = o[i]
        /\ \A i \in 1 .. Len(x) : a[Len(o) + i] = x[i]
    BY <1>2, <1>3, BitsThen
  <2>2. QED BY <1>2, <1>3, <2>1
<1>5. a[1] = 1
  <2>1. 1 \in 1 .. 1
    OBVIOUS
  <2>2. QED BY <1>2, <1>4, <2>1
<1>6. Meant(a, 1, x)
  BY <1>1, <1>3, <1>4 DEF Meant
<1> HIDE DEF a
<1>7. /\ l \in Seq(Levels) /\ Len(l) = Len(a) + 1 + Width
      /\ \A i \in 1 .. Len(a) : l[i] = a[i]
      /\ l[Len(a) + 1] = v
      /\ Meant(l, Len(a) + 1, Bus!High(r))
  BY <1>4, LevelAndByteThen
<1> HIDE DEF l
<1>8. 1 \in 1 .. Len(a) /\ Len(a) + 1 = Width + 2 /\ Len(l) = 2 * Width + 2 /\ 1 + Width <= Len(a)
      /\ Len(a) \in Nat
  BY <1>1, <1>4, <1>7
<1>9. Meant(l, 1, x)
  BY <1>6, <1>7, <1>8, MeantStill
<1>10. l[1] = 1 /\ l[Width + 2] = v /\ Meant(l, Width + 2, Bus!High(r))
  BY <1>5, <1>7, <1>8
<1>11. QED BY <1>7, <1>8, <1>9, <1>10 DEF l, a, o, x

\* Those of a write, and of a read.
LEMMA WriteIsMeant ==
  ASSUME NEW r \in Nat, NEW b \in Nat, NEW bits, bits = Bus!Frame("em9010", r, b)
  PROVE  /\ Len(bits) = 3 * Width + 4
         /\ bits[1] = 1 /\ Meant(bits, 1, Bus!High(1)) /\ bits[Width + 2] = 1
         /\ Meant(bits, Width + 2, Bus!High(r)) /\ bits[2 * Width + 3] = 0
         /\ Meant(bits, 2 * Width + 3, Bus!High(b)) /\ bits[3 * Width + 4] = 1
<1> DEFINE a == ((<<1>> \o Bus!High(1)) \o <<1>>) \o Bus!High(r)
           c == (a \o <<0>>) \o Bus!High(b)
           l == c \o <<1>>
           w == Width
<1>1. bits = l
  BY DEF Bus!Frame
<1>2. /\ a \in Seq(Levels) /\ Len(a) = 2 * w + 2
      /\ a[1] = 1 /\ Meant(a, 1, Bus!High(1)) /\ a[w + 2] = 1
      /\ Meant(a, w + 2, Bus!High(r))
  BY LinesAre, RegisterIsMeant
<1> HIDE DEF a
<1>3. /\ c \in Seq(Levels) /\ Len(c) = Len(a) + 1 + w
      /\ \A i \in 1 .. Len(a) : c[i] = a[i]
      /\ c[Len(a) + 1] = 0
      /\ Meant(c, Len(a) + 1, Bus!High(b))
  BY <1>2, LinesAre, LevelAndByteThen
<1> HIDE DEF c
<1>4. /\ Len(l) = Len(c) + 1
      /\ \A i \in 1 .. Len(c) : l[i] = c[i]
      /\ l[Len(c) + 1] = 1
  <2>1. 1 \in 1 .. 1
    OBVIOUS
  <2>2. QED BY <1>3, <2>1, LinesAre, BitsThen, OneBit
<1> HIDE DEF l
<1>5. /\ w \in Nat /\ w = Width /\ Len(c) = 3 * w + 3 /\ Len(a) + 1 = 2 * w + 3
      /\ Len(l) = 3 * w + 4 /\ Len(c) + 1 = 3 * w + 4 /\ Len(a) \in Nat /\ Len(c) \in Nat
      /\ \A i \in 1 .. Len(a) : i \in 1 .. Len(c)
      /\ 1 \in 1 .. Len(a) /\ w + 2 \in 1 .. Len(a) /\ 2 * w + 3 \in 1 .. Len(c)
      /\ 1 + w <= Len(a) /\ (w + 2) + w <= Len(a) /\ (2 * w + 3) + w <= Len(c)
      /\ w + 2 \in Nat /\ 2 * w + 3 \in Nat
  BY <1>2, <1>3, <1>4, BusNumbers
<1> HIDE DEF w
<1>6. \A i \in 1 .. Len(a) : l[i] = a[i]
  BY <1>3, <1>4, <1>5
<1>7. Meant(l, 1, Bus!High(1)) /\ Meant(l, w + 2, Bus!High(r))
  BY <1>2, <1>5, <1>6, MeantStill
<1>8. Meant(l, 2 * w + 3, Bus!High(b))
  <2>1. Meant(c, 2 * w + 3, Bus!High(b))
    BY <1>3, <1>5
  <2>2. QED BY <1>4, <1>5, <2>1, MeantStill
<1>9. l[1] = 1 /\ l[w + 2] = 1 /\ l[2 * w + 3] = 0 /\ l[3 * w + 4] = 1
  BY <1>2, <1>3, <1>4, <1>5, <1>6
<1>10. QED BY <1>1, <1>5, <1>7, <1>8, <1>9 DEF w

LEMMA ReadIsMeant ==
  ASSUME NEW r \in Nat, NEW bits, bits = Bus!ReadFrame(r)
  PROVE  /\ Len(bits) = 2 * Width + 3
         /\ bits[1] = 1 /\ Meant(bits, 1, Bus!High(1)) /\ bits[Width + 2] = 0
         /\ Meant(bits, Width + 2, Bus!High(r)) /\ bits[2 * Width + 3] = 0
<1> DEFINE a == ((<<1>> \o Bus!High(1)) \o <<0>>) \o Bus!High(r)
           l == a \o <<0>>
           w == Width
<1>1. bits = l
  BY DEF Bus!ReadFrame
<1>2. /\ a \in Seq(Levels) /\ Len(a) = 2 * w + 2
      /\ a[1] = 1 /\ Meant(a, 1, Bus!High(1)) /\ a[w + 2] = 0
      /\ Meant(a, w + 2, Bus!High(r))
  BY LinesAre, RegisterIsMeant
<1> HIDE DEF a
<1>3. /\ Len(l) = Len(a) + 1
      /\ \A i \in 1 .. Len(a) : l[i] = a[i]
      /\ l[Len(a) + 1] = 0
  <2>1. 1 \in 1 .. 1
    OBVIOUS
  <2>2. QED BY <1>2, <2>1, LinesAre, BitsThen, OneBit
<1> HIDE DEF l
<1>4. /\ w \in Nat /\ w = Width /\ Len(a) + 1 = 2 * w + 3 /\ Len(l) = 2 * w + 3 /\ Len(a) \in Nat
      /\ 1 \in 1 .. Len(a) /\ w + 2 \in 1 .. Len(a)
      /\ 1 + w <= Len(a) /\ (w + 2) + w <= Len(a) /\ w + 2 \in Nat
  BY <1>2, <1>3, BusNumbers
<1> HIDE DEF w
<1>5. Meant(l, 1, Bus!High(1)) /\ Meant(l, w + 2, Bus!High(r))
  BY <1>2, <1>3, <1>4, MeantStill
<1>6. l[1] = 1 /\ l[w + 2] = 0 /\ l[2 * w + 3] = 0
  BY <1>2, <1>3, <1>4
<1>7. QED BY <1>1, <1>4, <1>5, <1>6 DEF w

\* Those of a transfer to the encoder, and to the clock generator.
LEMMA EncoderIsMeant ==
  ASSUME NEW r, NEW b \in Nat, NEW bits, bits = Bus!Frame("encoder", r, b)
  PROVE  /\ Meant(bits, 0, Bus!High(b)) /\ Len(bits) = Width + 2
         /\ bits[Width + 1] = 1 /\ bits[Width + 2] = 0
<1> DEFINE x == Bus!High(b)
           e == <<1, 0>>
           l == x \o e
           w == Width
<1>1. bits = l
  BY DEF Bus!Frame
<1>2. x \in Seq(Levels) /\ Len(x) = w /\ x \in [1 .. w -> Levels] /\ w \in Nat /\ w = Width
  BY ByteIsBits, BitsAreLevels, BusNumbers
<1>3. e \in Seq(Levels) /\ Len(e) = 2 /\ e[1] = 1 /\ e[2] = 0
  BY DEF Levels
<1> HIDE DEF x, e, w
<1>4. /\ Len(l) = w + 2
      /\ \A i \in 1 .. w : l[i] = x[i]
      /\ \A i \in 1 .. 2 : l[w + i] = e[i]
  <2>1. /\ Len(l) = Len(x) + Len(e)
        /\ \A i \in 1 .. Len(x) : l[i] = x[i]
        /\ \A i \in 1 .. Len(e) : l[Len(x) + i] = e[i]
    BY <1>2, <1>3, BitsThen
  <2>2. QED BY <1>2, <1>3, <2>1
<1> HIDE DEF l
<1>5. l[w + 1] = 1 /\ l[w + 2] = 0
  <2>1. 1 \in 1 .. 2 /\ 2 \in 1 .. 2
    OBVIOUS
  <2>2. QED BY <1>3, <1>4, <2>1
<1>6. Meant(l, 0, x)
  <2>1. \A i \in 1 .. w : 0 + i = i
    OBVIOUS
  <2>2. QED BY <1>2, <1>4, <2>1 DEF Meant
<1>7. QED BY <1>1, <1>2, <1>4, <1>5, <1>6 DEF x

LEMMA ClockgenIsMeant ==
  ASSUME NEW r, NEW b \in Nat, NEW bits, bits = Bus!Frame("clockgen", r, b)
  PROVE  Meant(bits, 0, Bus!Low(b)) /\ Len(bits) = Width
<1>1. bits = Bus!Low(b)
  BY DEF Bus!Frame
<1>2. \A i \in 1 .. Width : 0 + i = i
  OBVIOUS
<1>3. QED BY <1>1, <1>2, BitsAreLevels, ByteIsBits DEF Meant

-------------------------------------------------------------------------------
(* The transfers under way. *)

busVars == <<pin, drive, todo, want, took, alone, listening, transfers>>

\* The devices a process writes to, what device d sees and has taken, and how many bits the
\* transfer of process p ends with.
Own(p) == IF p = "ioctl" THEN {"clockgen", "em9010"} ELSE {"encoder"}
ViewOf(d) == [pin |-> pin, drive |-> drive, n |-> took[d].n, right |-> took[d].right,
              listening |-> listening]
Goal(p) == Len(want[p].bits) + want[p].more

\* From any view in X list l leads device d to k bits, the right ones if they are to be.
Takes(F, d, bits, l, X, ok, k) ==
  \E S \in F, T \in F : X \subseteq S /\ Leads(F, d, bits, l, S, T) /\ T \subseteq Have(ok, k)

\* A transfer that is alone takes its device to the bits meant for it, and one for the clock
\* generator takes that to its number of bits, whether it is alone or not.
Delivers(p) ==
  LET d == want[p].dev
      bits == want[p].bits
  IN  /\ alone[p] /\ d # "none" =>
           IF Bus!Busy(p) THEN Takes(Any, d, bits, todo[p], {ViewOf(d)}, TRUE, Goal(p))
           ELSE took[d].right /\ took[d].n = Goal(p)
      /\ d = "clockgen" =>
           IF Bus!Busy(p) THEN Takes(Blind, d, bits, todo[p], {ViewOf(d)}, FALSE, Width)
           ELSE took[d].n = Width

Taken == [n : Nat, right : BOOLEAN]
BusTypes ==
  /\ pin \in [Bus!Lines -> Levels] /\ drive \in Levels /\ listening \in BOOLEAN
  /\ todo \in [Bus!Procs -> Seq(AllWrites)] /\ todo["i2c"] \in Seq(Wires)
  /\ DOMAIN want = Bus!Procs /\ took \in [Bus!Devices -> Taken]
  /\ alone \in [Bus!Procs -> BOOLEAN]
  /\ \A p \in Bus!Procs : /\ want[p].dev \in Own(p) \cup {"none"}
                          /\ Bus!Busy(p) => want[p].dev # "none"

\* A line that is down or let go of will be restored by someone.
Restored ==
  /\ \A p \in Bus!Procs : Restoring(todo[p])
  /\ pin["clk"] = 0 => \E p \in Bus!Procs : Bus!Set("clk", 1) \in Calls(todo[p])
  /\ drive = 0 => \E p \in Bus!Procs : Bus!Drive(1) \in Calls(todo[p])

BusInv ==
  /\ BusTypes /\ Restored
  /\ (\A p \in Bus!Procs : Bus!Busy(p)) => \A p \in Bus!Procs : ~alone[p]
  /\ \A p \in Bus!Procs : Delivers(p)

\* No two processes write to one device.
LEMMA OwnDiffer ==
  /\ Bus!Procs = {"ioctl", "i2c"}
  /\ \A p \in Bus!Procs : Own(p) \subseteq Bus!Devices /\ "none" \notin Own(p)
  /\ \A p \in Bus!Procs, q \in Bus!Procs : p # q => Own(p) \cap Own(q) = {}
  /\ Own("ioctl") = {"clockgen", "em9010"} /\ Own("i2c") = {"encoder"}
  /\ \A p \in Bus!Procs : "clockgen" \in Own(p) \/ "em9010" \in Own(p) => p = "ioctl"
BY DEF Own, Bus!Procs, Bus!Devices

\* A transfer as the code begins one.
Transfer(p, dev, bits, more, writes) ==
  \/ /\ p = "ioctl" /\ dev = "clockgen" /\ more = 0
     /\ \E b \in Bytes : bits = Bus!Frame("clockgen", 0, b) /\ writes = Bus!em8300_clockgen_write(b)
  \/ /\ p = "ioctl" /\ dev = "em9010" /\ more = 0
     /\ \E b \in Bytes : bits = Bus!Frame("em9010", 2, b) /\ writes = Bus!em9010_write(2, b)
  \/ /\ p = "i2c" /\ dev = "encoder" /\ more = 0
     /\ \E b \in Bytes : bits = Bus!Frame("encoder", 0, b) /\ writes = Bus!i2c_transfer(b)
  \/ /\ p = "ioctl" /\ dev = "em9010" /\ more = Width + 1
     /\ bits = Bus!ReadFrame(0) /\ writes = Bus!em9010_read(0)

\* What lies in the sets of writes.
LEMMA WritesWithin ==
  /\ Seq(Sets) \subseteq Seq(AllWrites)
  /\ Seq(Wires) \subseteq Seq(AllWrites)
  /\ Seq(ClockgenSets) \subseteq Seq(AllWrites)
<1>1. Wires \subseteq AllWrites /\ ClockgenSets \subseteq AllWrites /\ Sets \subseteq AllWrites
  BY LinesAre DEF Wires, ClockgenSets, AllWrites, Sets, Drives
<1>2. \A A, B : A \subseteq B => Seq(A) \subseteq Seq(B)
  BY ElementOfSeq, LenProperties, SeqDef
<1>3. QED BY <1>1, <1>2

LEMMA AtIsGoal == \A k : At(1, k) \subseteq Have(TRUE, k) /\ At(1, 0) \subseteq Have(FALSE, 0)
BY DEF At, Have

\* It takes its device to the bits meant for it, from any state of the lines but a low clock.
LEMMA TransferTakes ==
  ASSUME NEW p, NEW dev, NEW bits, NEW more, NEW writes, Transfer(p, dev, bits, more, writes)
  PROVE  /\ p \in Bus!Procs /\ dev \in Own(p)
         /\ writes \in Seq(AllWrites) /\ (p = "i2c" => writes \in Seq(Wires))
         /\ Restoring(writes)
         /\ Takes(Any, dev, bits, writes, At(1, 0), TRUE, Len(bits) + more)
         /\ dev = "clockgen" => Takes(Blind, dev, bits, writes, Have(FALSE, 0), FALSE, Width)
<1> USE AtIsAny, AtIsGoal
<1>1. \A b \in Bytes : b \in Nat
  BY BytesAreNumbers
<1>2. CASE /\ p = "ioctl" /\ dev = "clockgen" /\ more = 0
           /\ \E b \in Bytes : /\ bits = Bus!Frame("clockgen", 0, b)
                               /\ writes = Bus!em8300_clockgen_write(b)
  <2>1. PICK b \in Bytes : bits = Bus!Frame("clockgen", 0, b) /\ writes = Bus!em8300_clockgen_write(b)
    BY <1>2
  <2>2. Meant(bits, 0, Bus!Low(b)) /\ Len(bits) = Width
    BY <1>1, <2>1, ClockgenIsMeant
  <2>3. writes \in Seq(ClockgenSets) /\ Restoring(writes)
        /\ Leads(Any, dev, bits, writes, Have(TRUE, 0), Have(TRUE, Width))
    BY <1>2, <2>1, <2>2, ClockgenLeads, ClockgenFamilies
  <2>4. Leads(Blind, dev, bits, writes, Have(FALSE, 0), Have(FALSE, Width))
    BY <1>2, <2>1, <2>2, ClockgenLeads, ClockgenFamilies
  <2>5. Len(bits) + more = Width
    BY <1>2, <2>2, BusNumbers
  <2>6. Takes(Any, dev, bits, writes, At(1, 0), TRUE, Len(bits) + more)
    BY <2>3, <2>5, ClockgenFamilies DEF Takes
  <2>7. Takes(Blind, dev, bits, writes, Have(FALSE, 0), FALSE, Width)
    BY <2>4, ClockgenFamilies DEF Takes
  <2>8. QED BY <1>2, <2>3, <2>6, <2>7, WritesWithin, OwnDiffer
<1>3. CASE /\ p = "ioctl" /\ dev = "em9010" /\ more = 0
           /\ \E b \in Bytes : bits = Bus!Frame("em9010", 2, b) /\ writes = Bus!em9010_write(2, b)
  <2>1. PICK b \in Bytes : bits = Bus!Frame("em9010", 2, b) /\ writes = Bus!em9010_write(2, b)
    BY <1>3
  <2>2. /\ Len(bits) = 3 * Width + 4
        /\ bits[1] = 1 /\ Meant(bits, 1, Bus!High(1)) /\ bits[Width + 2] = 1
        /\ Meant(bits, Width + 2, Bus!High(2)) /\ bits[2 * Width + 3] = 0
        /\ Meant(bits, 2 * Width + 3, Bus!High(b)) /\ bits[3 * Width + 4] = 1
    BY <1>1, <2>1, WriteIsMeant
  <2>3. writes \in Seq(Sets) /\ Restoring(writes)
        /\ Leads(Any, dev, bits, writes, At(1, 0), At(1, 3 * Width + 4))
    BY <1>3, <2>1, <2>2, WriteLeads
  <2>4. Len(bits) + more = 3 * Width + 4
    BY <1>3, <2>2, BusNumbers
  <2>5. Takes(Any, dev, bits, writes, At(1, 0), TRUE, Len(bits) + more)
    BY <2>3, <2>4 DEF Takes
  <2>6. QED BY <1>3, <2>3, <2>5, WritesWithin, OwnDiffer
<1>4. CASE /\ p = "i2c" /\ dev = "encoder" /\ more = 0
           /\ \E b \in Bytes : bits = Bus!Frame("encoder", 0, b) /\ writes = Bus!i2c_transfer(b)
  <2>1. PICK b \in Bytes : bits = Bus!Frame("encoder", 0, b) /\ writes = Bus!i2c_transfer(b)
    BY <1>4
  <2>2. /\ Meant(bits, 0, Bus!High(b)) /\ Len(bits) = Width + 2
        /\ bits[Width + 1] = 1 /\ bits[Width + 2] = 0
    BY <1>1, <2>1, EncoderIsMeant
  <2>3. writes \in Seq(Wires) /\ Restoring(writes)
        /\ Leads(Any, dev, bits, writes, At(1, 0), At(1, Width + 2))
    BY <1>4, <2>1, <2>2, EncoderLeads
  <2>4. Len(bits) + more = Width + 2
    BY <1>4, <2>2, BusNumbers
  <2>5. Takes(Any, dev, bits, writes, At(1, 0), TRUE, Len(bits) + more)
    BY <2>3, <2>4 DEF Takes
  <2>6. QED BY <1>4, <2>3, <2>5, WritesWithin, OwnDiffer
<1>5. CASE /\ p = "ioctl" /\ dev = "em9010" /\ more = Width + 1
           /\ bits = Bus!ReadFrame(0) /\ writes = Bus!em9010_read(0)
  <2>1. /\ Len(bits) = 2 * Width + 3
        /\ bits[1] = 1 /\ Meant(bits, 1, Bus!High(1)) /\ bits[Width + 2] = 0
        /\ Meant(bits, Width + 2, Bus!High(0)) /\ bits[2 * Width + 3] = 0
    BY <1>5, ReadIsMeant
  <2>2. writes \in Seq(AllWrites) /\ Restoring(writes)
        /\ Leads(Any, dev, bits, writes, At(1, 0), At(1, 3 * Width + 4))
    BY <1>5, <2>1, ReadLeads
  <2>3. Len(bits) + more = 3 * Width + 4
    BY <1>5, <2>1, BusNumbers
  <2>4. Takes(Any, dev, bits, writes, At(1, 0), TRUE, Len(bits) + more)
    BY <2>2, <2>3 DEF Takes
  <2>5. QED BY <1>5, <2>2, <2>4, OwnDiffer
<1>6. QED BY <1>2, <1>3, <1>4, <1>5 DEF Transfer

\* A list with nothing left to write has taken its device there.
LEMMA TakesDone ==
  ASSUME NEW F, NEW d, NEW bits, NEW s, NEW ok, NEW k, Takes(F, d, bits, << >>, {s}, ok, k)
  PROVE  s.n = k /\ (ok => s.right)
<1>1. PICK S \in F, T \in F : {s} \subseteq S /\ Leads(F, d, bits, << >>, S, T) /\ T \subseteq Have(ok, k)
  BY DEF Takes
<1>2. S = T
  BY <1>1, Arrived
<1>3. s \in Have(ok, k)
  BY <1>1, <1>2
<1>4. QED BY <1>3 DEF Have

\* What lies in X need not be all of it.
LEMMA TakesWithin ==
  ASSUME NEW F, NEW d, NEW bits, NEW l, NEW X, NEW Y, NEW ok, NEW k,
         Takes(F, d, bits, l, X, ok, k), Y \subseteq X
  PROVE  Takes(F, d, bits, l, Y, ok, k)
BY DEF Takes

\* A write of the list goes a step on.
LEMMA TakesLeft ==
  ASSUME NEW F, NEW d, NEW bits, NEW W, NEW l \in Seq(W), l # << >>, NEW s, NEW ok, NEW k,
         Takes(F, d, bits, l, {s}, ok, k)
  PROVE  Takes(F, d, bits, Tail(l), {ViewAfter(d, bits, s, Head(l))}, ok, k)
<1>1. PICK S \in F, T \in F : {s} \subseteq S /\ Leads(F, d, bits, l, S, T) /\ T \subseteq Have(ok, k)
  BY DEF Takes
<1>2. s \in S
  BY <1>1
<1>3. PICK U \in F : ViewAfter(d, bits, s, Head(l)) \in U /\ Leads(F, d, bits, Tail(l), U, T)
  BY <1>1, <1>2, LeadsLeft
<1>4. QED BY <1>1, <1>3 DEF Takes

\* What others do to the lines but the clock of the clock generator does not matter to it.
LEMMA TakesBlindly ==
  ASSUME NEW d, NEW bits, NEW l, NEW s, NEW t \in Views, NEW ok, NEW k,
         t.n = s.n, t.pin["clkgen"] = s.pin["clkgen"], Takes(Blind, d, bits, l, {s}, ok, k)
  PROVE  Takes(Blind, d, bits, l, {t}, ok, k)
<1>1. PICK S \in Blind, T \in Blind :
        {s} \subseteq S /\ Leads(Blind, d, bits, l, S, T) /\ T \subseteq Have(ok, k)
  BY DEF Takes
<1>2. t \in S
  BY <1>1 DEF Blind
<1>3. QED BY <1>1, <1>2 DEF Takes

\* At first the lines are high and nothing is under way.
LEMMA BusStarts == Bus!Init => BusInv
<1> SUFFICES ASSUME Bus!Init PROVE BusInv
  OBVIOUS
<1>1. /\ pin = [l \in Bus!Lines |-> 1] /\ drive = 1 /\ listening = FALSE
      /\ todo = [p \in Bus!Procs |-> << >>]
      /\ want = [p \in Bus!Procs |-> [dev |-> "none", bits |-> << >>, more |-> 0]]
      /\ took = [d \in Bus!Devices |-> [n |-> 0, right |-> TRUE]]
      /\ alone = [p \in Bus!Procs |-> TRUE]
  BY DEF Bus!Init
<1>2. "ioctl" \in Bus!Procs /\ "i2c" \in Bus!Procs
  BY DEF Bus!Procs
<1>3. \A p \in Bus!Procs : want[p].dev = "none" /\ todo[p] = << >> /\ ~Bus!Busy(p)
  BY <1>1 DEF Bus!Busy
<1>4. BusTypes
  <2>1. << >> \in Seq(AllWrites) /\ << >> \in Seq(Wires)
    BY EmptySeq
  <2>2. pin \in [Bus!Lines -> Levels] /\ drive \in Levels /\ listening \in BOOLEAN
    BY <1>1, LinesAre
  <2>3. took \in [Bus!Devices -> Taken] /\ alone \in [Bus!Procs -> BOOLEAN]
    BY <1>1 DEF Taken
  <2>4. todo \in [Bus!Procs -> Seq(AllWrites)] /\ todo["i2c"] \in Seq(Wires)
    BY <1>1, <1>2, <2>1
  <2>5. DOMAIN want = Bus!Procs
    BY <1>1
  <2>6. QED BY <1>3, <2>2, <2>3, <2>4, <2>5 DEF BusTypes
<1>5. Restored
  <2>1. Len(<< >>) = 0
    OBVIOUS
  <2>2. Restoring(<< >>)
    BY <2>1 DEF Restoring, Followed
  <2>3. pin["clk"] # 0 /\ drive # 0
    BY <1>1, LinesAre
  <2>4. QED BY <1>3, <2>2, <2>3 DEF Restored
<1>6. \A p \in Bus!Procs : Delivers(p)
  BY <1>3 DEF Delivers
<1>7. QED BY <1>2, <1>3, <1>4, <1>5, <1>6 DEF BusInv

\* When a process begins a transfer, what is so of the transfers stays so.
LEMMA BeginDelivers ==
  ASSUME BusInv, NEW p, NEW dev, NEW bits, NEW more, NEW writes,
         Transfer(p, dev, bits, more, writes), Bus!Begin(p, dev, bits, more, writes)
  PROVE  BusInv'
<1>1. /\ p \in Bus!Procs /\ dev \in Own(p)
      /\ writes \in Seq(AllWrites) /\ (p = "i2c" => writes \in Seq(Wires))
      /\ Restoring(writes)
      /\ Takes(Any, dev, bits, writes, At(1, 0), TRUE, Len(bits) + more)
      /\ dev = "clockgen" => Takes(Blind, dev, bits, writes, Have(FALSE, 0), FALSE, Width)
  BY TransferTakes
<1>2. /\ BusTypes /\ Restored
      /\ (\A q \in Bus!Procs : Bus!Busy(q)) => \A q \in Bus!Procs : ~alone[q]
      /\ \A q \in Bus!Procs : Delivers(q)
  BY DEF BusInv
<1>3. /\ pin \in [Bus!Lines -> Levels] /\ drive \in Levels /\ listening \in BOOLEAN
      /\ todo \in [Bus!Procs -> Seq(AllWrites)] /\ todo["i2c"] \in Seq(Wires)
      /\ DOMAIN want = Bus!Procs /\ took \in [Bus!Devices -> Taken]
      /\ alone \in [Bus!Procs -> BOOLEAN]
  BY <1>2 DEF BusTypes
<1>4. \A q \in Bus!Procs : want[q].dev \in Own(q) \cup {"none"}
                           /\ (Bus!Busy(q) => want[q].dev # "none")
  BY <1>2 DEF BusTypes
<1>5. PICK other \in Bus!Procs : other # p /\ other = (CHOOSE q \in Bus!Procs : q # p)
                                /\ Bus!Procs = {p, other}
  BY <1>1, OwnDiffer
<1>6. /\ ~Bus!Busy(p)
      /\ todo' = [todo EXCEPT ![p] = writes]
      /\ want' = [want EXCEPT ![p] = [dev |-> dev, bits |-> bits, more |-> more]]
      /\ took' = [took EXCEPT ![dev] = [n |-> 0, right |-> TRUE]]
      /\ alone' = [alone EXCEPT ![p] = ~Bus!Busy(other), ![other] = @ /\ ~Bus!Busy(other)]
      /\ pin' = pin /\ drive' = drive /\ listening' = listening
  BY <1>5 DEF Bus!Begin
<1>7. /\ todo'[p] = writes /\ todo'[other] = todo[other]
      /\ want'[p] = [dev |-> dev, bits |-> bits, more |-> more] /\ want'[other] = want[other]
      /\ want'[p].dev = dev /\ want'[p].bits = bits /\ want'[p].more = more
      /\ DOMAIN want' = Bus!Procs
  BY <1>1, <1>3, <1>5, <1>6
<1>8. dev \in Bus!Devices /\ dev # "none"
  BY <1>1, OwnDiffer
<1>9. took'[dev].n = 0 /\ took'[dev].right = TRUE
      /\ \A x \in Bus!Devices \ {dev} : took'[x] = took[x]
  BY <1>3, <1>6, <1>8
<1>10. (alone'[p] <=> ~Bus!Busy(other)) /\ (alone'[other] <=> alone[other] /\ ~Bus!Busy(other))
  BY <1>3, <1>5, <1>6, Zenon
<1>11. Bus!Busy(other)' <=> Bus!Busy(other)
  BY <1>7 DEF Bus!Busy
<1>12. BusTypes'
  <2>1. todo' \in [Bus!Procs -> Seq(AllWrites)]
    BY <1>1, <1>3, <1>6
  <2>2. todo'["i2c"] \in Seq(Wires)
    BY <1>1, <1>3, <1>5, <1>7, OwnDiffer
  <2>3. took' \in [Bus!Devices -> Taken]
    BY <1>3, <1>6 DEF Taken
  <2>4. alone' \in [Bus!Procs -> BOOLEAN]
    BY <1>3, <1>6
  <2>5. \A q \in Bus!Procs : want'[q].dev \in Own(q) \cup {"none"}
                             /\ (Bus!Busy(q)' => want'[q].dev # "none")
    BY <1>1, <1>4, <1>5, <1>7, <1>8, <1>11
  <2>6. QED BY <1>3, <1>6, <1>7, <2>1, <2>2, <2>3, <2>4, <2>5 DEF BusTypes
<1>13. Restored'
  <2>1. /\ \A q \in Bus!Procs : Restoring(todo[q])
        /\ pin["clk"] = 0 => \E q \in Bus!Procs : Bus!Set("clk", 1) \in Calls(todo[q])
        /\ drive = 0 => \E q \in Bus!Procs : Bus!Drive(1) \in Calls(todo[q])
    BY <1>2 DEF Restored
  <2>2. \A x : x \notin Calls(todo[p])
    <3>1. todo[p] = << >> /\ Len(<< >>) = 0
      BY <1>6 DEF Bus!Busy
    <3>2. QED BY <3>1 DEF Calls
  <2>3. \A q \in Bus!Procs : Restoring(todo'[q])
    BY <1>1, <1>5, <1>7, <2>1
  <2>4. \A x : (\E q \in Bus!Procs : x \in Calls(todo[q])) => x \in Calls(todo'[other])
    BY <1>5, <1>7, <2>2
  <2>5. QED BY <1>5, <1>6, <2>1, <2>3, <2>4 DEF Restored
<1>14. (\A q \in Bus!Procs : Bus!Busy(q)') => \A q \in Bus!Procs : ~alone'[q]
  BY <1>5, <1>10, <1>11
<1>15. Delivers(other)'
  <2>1. Delivers(other)
    BY <1>2, <1>5
  <2> DEFINE d == want[other].dev
  <2>2. d # "none" => d # dev /\ d \in Bus!Devices
    BY <1>1, <1>4, <1>5, OwnDiffer
  <2>3. d # "none" => took'[d] = took[d] /\ ViewOf(d)' = ViewOf(d)
    <3>1. d' = d
      BY <1>7
    <3>2. d # "none" => took'[d] = took[d]
      BY <1>9, <2>2
    <3> HIDE DEF d
    <3>3. QED BY <1>6, <3>1, <3>2 DEF ViewOf
  <2>4. Goal(other)' = Goal(other)
    BY <1>7 DEF Goal
  <2>5. alone'[other] => alone[other]
    BY <1>10
  <2>6. /\ want'[other].dev = d /\ want'[other].bits = want[other].bits
        /\ todo'[other] = todo[other]
    BY <1>7
  <2> HIDE DEF d
  <2>7. CASE d # "none"
    <3>1. /\ alone[other] =>
               IF Bus!Busy(other)
               THEN Takes(Any, d, want[other].bits, todo[other], {ViewOf(d)}, TRUE, Goal(other))
               ELSE took[d].right /\ took[d].n = Goal(other)
          /\ d = "clockgen" =>
               IF Bus!Busy(other)
               THEN Takes(Blind, d, want[other].bits, todo[other], {ViewOf(d)}, FALSE, Width)
               ELSE took[d].n = Width
      BY <2>1, <2>7 DEF Delivers, d
    <3>2. took'[d] = took[d] /\ ViewOf(d)' = ViewOf(d)
      BY <2>3, <2>7
    <3>3. /\ alone'[other] =>
               IF Bus!Busy(other)'
               THEN Takes(Any, d, want'[other].bits, todo'[other], {ViewOf(d)'}, TRUE, Goal(other)')
               ELSE took'[d].right /\ took'[d].n = Goal(other)'
          /\ d = "clockgen" =>
               IF Bus!Busy(other)'
               THEN Takes(Blind, d, want'[other].bits, todo'[other], {ViewOf(d)'}, FALSE, Width)
               ELSE took'[d].n = Width
      BY <1>11, <2>4, <2>5, <2>6, <3>1, <3>2
    <3>4. d' = d
      BY <2>6 DEF d
    <3>5. QED BY <2>6, <3>3, <3>4 DEF Delivers
  <2>8. CASE d = "none"
    BY <2>6, <2>8 DEF Delivers
  <2>9. QED BY <2>7, <2>8
<1>16. Delivers(p)'
  <2> DEFINE v == ViewOf(dev)'
  <2>1. v.n = 0 /\ v.right = TRUE /\ v.pin = pin
    BY <1>6, <1>9 DEF ViewOf
  <2>2. v \in Views
    <3>1. v = [pin |-> pin, drive |-> drive, n |-> 0, right |-> TRUE, listening |-> listening]
      BY <1>6, <1>9 DEF ViewOf
    <3> HIDE DEF v
    <3>2. QED BY <1>3, <3>1 DEF Views
  <2>3. alone'[p] => pin["clk"] = 1
    <3>1. ASSUME ~Bus!Busy(other) PROVE \A q \in Bus!Procs : \A x : x \notin Calls(todo[q])
      <4>1. todo[p] = << >> /\ todo[other] = << >>
        BY <1>6, <3>1 DEF Bus!Busy
      <4>2. \A x : x \notin Calls(<< >>)
        <5>1. Len(<< >>) = 0
          OBVIOUS
        <5>2. QED BY <5>1 DEF Calls
      <4>3. QED BY <1>5, <4>1, <4>2
    <3>2. pin["clk"] \in Levels
      BY <1>3, LinesAre
    <3>3. QED BY <1>2, <1>10, <3>1, <3>2, LinesAre DEF Restored
  <2> HIDE DEF v
  <2>4. alone'[p] => {v} \subseteq At(1, 0)
    BY <2>1, <2>2, <2>3 DEF At
  <2>5. {v} \subseteq Have(FALSE, 0)
    BY <2>1, <2>2 DEF Have
  <2>6. alone'[p] => Takes(Any, dev, bits, writes, {v}, TRUE, Len(bits) + more)
    BY <1>1, <2>4, TakesWithin
  <2>7. dev = "clockgen" => Takes(Blind, dev, bits, writes, {v}, FALSE, Width)
    BY <1>1, <2>5, TakesWithin
  <2>8. Bus!Busy(p)' <=> writes # << >>
    BY <1>7 DEF Bus!Busy
  <2>9. v.n = took'[dev].n /\ v.right = took'[dev].right
    BY DEF v, ViewOf
  <2>10. writes = << >> /\ alone'[p] => took'[dev].right /\ took'[dev].n = Len(bits) + more
    BY <2>6, <2>9, TakesDone
  <2>11. ASSUME writes = << >>, dev = "clockgen" PROVE took'[dev].n = Width
    <3>1. Takes(Blind, dev, bits, << >>, {v}, FALSE, Width)
      BY <2>7, <2>11
    <3>2. v.n = Width
      BY <3>1, TakesDone
    <3>3. QED BY <2>9, <3>2
  <2>12. Goal(p)' = Len(bits) + more
    BY <1>7 DEF Goal
  <2>13. QED
    BY <1>7, <2>6, <2>7, <2>8, <2>10, <2>11, <2>12 DEF Delivers, v
<1>17. \A q \in Bus!Procs : Delivers(q)'
  BY <1>5, <1>15, <1>16
<1>18. QED BY <1>12, <1>13, <1>14, <1>17 DEF BusInv

\* What is so of the transfers stays so when process p makes its next write, if its device
\* sees and takes what ViewAfter says, and the devices of idle processes take nothing.
LEMMA BusWriteKeeps ==
  ASSUME BusInv, NEW p \in Bus!Procs, Bus!Busy(p), NEW w, w = Head(todo[p]),
         todo' = [todo EXCEPT ![p] = Tail(@)], want' = want, alone' = alone,
         pin' \in [Bus!Lines -> Levels], drive' \in Levels, listening' \in BOOLEAN,
         took' \in [Bus!Devices -> Taken],
         ViewOf(want[p].dev)' = ViewAfter(want[p].dev, want[p].bits, ViewOf(want[p].dev), w),
         \A q \in Bus!Procs \ {p} :
           /\ ~Bus!Busy(q) /\ want[q].dev # "none" => took'[want[q].dev] = took[want[q].dev]
           /\ want[q].dev = "clockgen" => /\ took'["clockgen"].n = took["clockgen"].n
                                          /\ pin'["clkgen"] = pin["clkgen"],
         pin'["clk"] = 0 => w = Bus!Set("clk", 0) \/ (pin["clk"] = 0 /\ w # Bus!Set("clk", 1)),
         drive' = 0 => w = Bus!Drive(0) \/ (drive = 0 /\ w # Bus!Drive(1))
  PROVE  BusInv'
<1>1. /\ BusTypes /\ Restored
      /\ (\A q \in Bus!Procs : Bus!Busy(q)) => \A q \in Bus!Procs : ~alone[q]
      /\ \A q \in Bus!Procs : Delivers(q)
  BY DEF BusInv
<1>2. /\ todo \in [Bus!Procs -> Seq(AllWrites)] /\ todo["i2c"] \in Seq(Wires)
      /\ DOMAIN want = Bus!Procs /\ alone \in [Bus!Procs -> BOOLEAN]
      /\ took \in [Bus!Devices -> Taken]
  BY <1>1 DEF BusTypes
<1>3. \A q \in Bus!Procs : want[q].dev \in Own(q) \cup {"none"}
                           /\ (Bus!Busy(q) => want[q].dev # "none")
  BY <1>1 DEF BusTypes
<1>4. PICK other \in Bus!Procs : other # p /\ Bus!Procs = {p, other}
  BY OwnDiffer
<1>5. todo[p] \in Seq(AllWrites) /\ todo[p] # << >>
  BY <1>2 DEF Bus!Busy
<1>6. todo'[p] = Tail(todo[p]) /\ todo'[other] = todo[other]
  BY <1>2, <1>4
<1>7. Bus!Busy(other)' <=> Bus!Busy(other)
  BY <1>6 DEF Bus!Busy
<1>8. BusTypes'
  <2>1. Tail(todo[p]) \in Seq(AllWrites)
    BY <1>5
  <2>2. todo' \in [Bus!Procs -> Seq(AllWrites)]
    BY <1>2, <2>1
  <2>3. todo'["i2c"] \in Seq(Wires)
    <3>1. CASE p = "i2c"
      <4>1. todo["i2c"] \in Seq(Wires) /\ todo["i2c"] # << >>
        BY <1>2, <1>5, <3>1
      <4>2. Tail(todo["i2c"]) \in Seq(Wires)
        BY <4>1
      <4>3. QED BY <1>6, <3>1, <4>2
    <3>2. CASE p # "i2c"
      BY <1>2, <1>4, <1>6, <3>2, OwnDiffer
    <3>3. QED BY <3>1, <3>2
  <2>4. \A q \in Bus!Procs : want'[q].dev \in Own(q) \cup {"none"}
                             /\ (Bus!Busy(q)' => want'[q].dev # "none")
    <3>1. Bus!Busy(p)' => Bus!Busy(p)
      OBVIOUS
    <3>2. \A q \in Bus!Procs : Bus!Busy(q)' => Bus!Busy(q)
      BY <1>4, <1>7, <3>1
    <3>3. QED BY <1>3, <3>2
  <2>5. QED BY <1>2, <2>2, <2>3, <2>4 DEF BusTypes
<1>9. Restored'
  <2>1. /\ \A q \in Bus!Procs : Restoring(todo[q])
        /\ pin["clk"] = 0 => \E q \in Bus!Procs : Bus!Set("clk", 1) \in Calls(todo[q])
        /\ drive = 0 => \E q \in Bus!Procs : Bus!Drive(1) \in Calls(todo[q])
    BY <1>1 DEF Restored
  <2>2. /\ Followed(todo[p], {Bus!Set("clk", 0)}, {Bus!Set("clk", 1)})
        /\ Followed(todo[p], {Bus!Drive(0)}, {Bus!Drive(1)})
    BY <2>1 DEF Restoring
  <2>3. /\ Followed(Tail(todo[p]), {Bus!Set("clk", 0)}, {Bus!Set("clk", 1)})
        /\ w = Bus!Set("clk", 0) => Bus!Set("clk", 1) \in Calls(Tail(todo[p]))
    <3>1. Head(todo[p]) \in {Bus!Set("clk", 0)}
            => Calls(Tail(todo[p])) \cap {Bus!Set("clk", 1)} # {}
      BY <1>5, <2>2, FollowedLeft
    <3>2. QED BY <1>5, <2>2, <3>1, FollowedLeft
  <2>4. /\ Followed(Tail(todo[p]), {Bus!Drive(0)}, {Bus!Drive(1)})
        /\ w = Bus!Drive(0) => Bus!Drive(1) \in Calls(Tail(todo[p]))
    <3>1. Head(todo[p]) \in {Bus!Drive(0)} => Calls(Tail(todo[p])) \cap {Bus!Drive(1)} # {}
      BY <1>5, <2>2, FollowedLeft
    <3>2. QED BY <1>5, <2>2, <3>1, FollowedLeft
  <2>5. Calls(todo[p]) = {w} \cup Calls(Tail(todo[p]))
    BY <1>5, CallsLeft
  <2>6. \A x : x # w /\ (\E q \in Bus!Procs : x \in Calls(todo[q]))
          => \E q \in Bus!Procs : x \in Calls(todo'[q])
    BY <1>4, <1>6, <2>5
  <2>7. \A q \in Bus!Procs : Restoring(todo'[q])
    BY <1>4, <1>6, <2>1, <2>3, <2>4 DEF Restoring
  <2>8. pin'["clk"] = 0 => \E q \in Bus!Procs : Bus!Set("clk", 1) \in Calls(todo'[q])
    BY <1>6, <2>1, <2>3, <2>6
  <2>9. drive' = 0 => \E q \in Bus!Procs : Bus!Drive(1) \in Calls(todo'[q])
    BY <1>6, <2>1, <2>4, <2>6
  <2>10. QED BY <2>7, <2>8, <2>9 DEF Restored
<1>10. (\A q \in Bus!Procs : Bus!Busy(q)') => \A q \in Bus!Procs : ~alone'[q]
  BY <1>1, <1>4, <1>7
<1>11. Delivers(p)'
  <2> DEFINE d == want[p].dev
             bits == want[p].bits
             v == ViewOf(d)
             u == ViewAfter(d, bits, v, w)
             l == Tail(todo[p])
  <2>1. /\ alone[p] /\ d # "none" => Takes(Any, d, bits, todo[p], {v}, TRUE, Goal(p))
        /\ d = "clockgen" => Takes(Blind, d, bits, todo[p], {v}, FALSE, Width)
    BY <1>1 DEF Delivers
  <2>2. d' = d /\ bits' = bits /\ Goal(p)' = Goal(p)
    BY DEF Goal
  <2>3. ViewOf(d)' = u
    OBVIOUS
  <2>4. u.n = took'[d].n /\ u.right = took'[d].right
    BY <2>2, <2>3 DEF ViewOf
  <2> HIDE DEF d, bits, v, u
  <2>5. alone[p] /\ d # "none" => Takes(Any, d, bits, l, {u}, TRUE, Goal(p))
    BY <1>5, <2>1, TakesLeft DEF u
  <2>6. d = "clockgen" => Takes(Blind, d, bits, l, {u}, FALSE, Width)
    BY <1>5, <2>1, TakesLeft DEF u
  <2>7. Bus!Busy(p)' <=> l # << >>
    BY <1>6 DEF Bus!Busy
  <2> HIDE DEF l
  <2>8. ASSUME l = << >>, alone[p], d # "none" PROVE took'[d].right /\ took'[d].n = Goal(p)
    <3>1. Takes(Any, d, bits, << >>, {u}, TRUE, Goal(p))
      BY <2>5, <2>8
    <3>2. u.n = Goal(p) /\ u.right
      BY ONLY <3>1, TakesDone
    <3>3. QED BY <2>4, <3>2
  <2>9. ASSUME l = << >>, d = "clockgen" PROVE took'[d].n = Width
    <3>1. Takes(Blind, d, bits, << >>, {u}, FALSE, Width)
      BY <2>6, <2>9
    <3>2. u.n = Width
      BY ONLY <3>1, TakesDone
    <3>3. QED BY <2>4, <3>2
  <2>10. /\ want'[p].dev = d /\ want'[p].bits = bits /\ ViewOf(want[p].dev)' = u
         /\ todo'[p] = l /\ alone'[p] = alone[p]
    BY <1>6, <2>2, <2>3 DEF d, bits, l
  <2>11. QED BY <2>2, <2>3, <2>5, <2>6, <2>7, <2>8, <2>9, <2>10 DEF Delivers
<1>12. Delivers(other)'
  <2> DEFINE d == want[other].dev
             bits == want[other].bits
             v == ViewOf(d)
             u == ViewOf(d)'
  <2>1. /\ alone[other] /\ d # "none" =>
             IF Bus!Busy(other) THEN Takes(Any, d, bits, todo[other], {v}, TRUE, Goal(other))
             ELSE took[d].right /\ took[d].n = Goal(other)
        /\ d = "clockgen" =>
             IF Bus!Busy(other) THEN Takes(Blind, d, bits, todo[other], {v}, FALSE, Width)
             ELSE took[d].n = Width
    BY <1>1, <1>4 DEF Delivers
  <2>2. d' = d /\ bits' = bits /\ Goal(other)' = Goal(other)
    BY DEF Goal
  <2>3. alone[other] => ~Bus!Busy(other)
    BY <1>1, <1>4
  <2>4. /\ ~Bus!Busy(other) /\ d # "none" => took'[d] = took[d]
        /\ d = "clockgen" => took'["clockgen"].n = took["clockgen"].n /\ pin'["clkgen"] = pin["clkgen"]
    BY <1>4
  <2>5. d = "clockgen" => u \in Views
    <3>1. u = [pin |-> pin', drive |-> drive', n |-> took'[d].n, right |-> took'[d].right,
               listening |-> listening']
      BY <2>2 DEF ViewOf
    <3>2. d = "clockgen" => took'[d] \in Taken
      BY OwnDiffer
    <3> HIDE DEF u, d
    <3>3. QED BY <3>1, <3>2 DEF Views, Taken
  <2>6. d = "clockgen" => u.n = v.n /\ u.pin["clkgen"] = v.pin["clkgen"]
    BY <2>2, <2>4 DEF ViewOf
  <2> HIDE DEF v, u, bits, d
  <2>7. d = "clockgen" /\ Bus!Busy(other) => Takes(Blind, d, bits, todo[other], {u}, FALSE, Width)
    BY <2>1, <2>5, <2>6, TakesBlindly
  <2>8. /\ want'[other].dev = d /\ want'[other].bits = bits /\ ViewOf(want[other].dev)' = u
        /\ todo'[other] = todo[other] /\ alone'[other] = alone[other]
    BY <1>6, <2>2 DEF d, bits, u
  <2>9. alone'[other] /\ d # "none" => took'[d].right /\ took'[d].n = Goal(other)
    BY <2>1, <2>3, <2>4, <2>8
  <2>10. d = "clockgen" /\ ~Bus!Busy(other) => took'[d].n = Width
    BY <2>1, <2>4
  <2>11. QED BY <1>7, <2>2, <2>3, <2>7, <2>8, <2>9, <2>10 DEF Delivers, u
<1>13. \A q \in Bus!Procs : Delivers(q)'
  BY <1>4, <1>11, <1>12
<1>14. QED BY <1>8, <1>9, <1>10, <1>13 DEF BusInv

\* What a device takes at an edge of its clock; one to which nobody writes takes nothing.
LEMMA ClockedIs ==
  ASSUME BusTypes, NEW t \in [Bus!Devices -> Taken], NEW e \in Bus!Devices, NEW v
  PROVE  LET c == Bus!Clocked(t, e, v)
         IN  /\ c \in [Bus!Devices -> Taken]
             /\ \A x \in Bus!Devices :
                  x # e \/ (\A p \in Bus!Procs : ~(Bus!Busy(p) /\ want[p].dev = x)) => c[x] = t[x]
             /\ \A p \in Bus!Procs : Bus!Busy(p) /\ want[p].dev = e =>
                  c[e] = [n |-> Most(t[e].n + 1),
                          right |-> t[e].right
                                    /\ (t[e].n + 1 <= Len(want[p].bits) => v = want[p].bits[t[e].n + 1])]
<1> DEFINE ps == {p \in Bus!Procs : Bus!Busy(p) /\ want[p].dev = e}
           bits == want[CHOOSE p \in ps : TRUE].bits
           r == [n |-> Most(t[e].n + 1),
                 right |-> t[e].right /\ (t[e].n + 1 <= Len(bits) => v = bits[t[e].n + 1])]
           c == Bus!Clocked(t, e, v)
<1>1. c = IF ps = {} THEN t ELSE [t EXCEPT ![e] = r]
  BY DEF Bus!Clocked, Most
<1>2. t[e].n \in Nat
  BY DEF Taken
<1>3. Most(t[e].n + 1) \in Nat
  BY <1>2, BusNumbers DEF Most
<1>4. r \in Taken
  BY <1>3 DEF Taken
<1>5. ASSUME NEW p \in Bus!Procs, Bus!Busy(p), want[p].dev = e PROVE ps = {p}
  <2>1. e # "none"
    BY DEF Bus!Devices
  <2>2. \A q \in Bus!Procs : want[q].dev = e => e \in Own(q)
    BY <2>1 DEF BusTypes
  <2>3. \A q \in Bus!Procs : want[q].dev = e => q = p
    BY <1>5, <2>2, OwnDiffer
  <2>4. QED BY <1>5, <2>3
<1>6. ASSUME NEW p \in Bus!Procs, Bus!Busy(p), want[p].dev = e
      PROVE  c[e] = [n |-> Most(t[e].n + 1),
                     right |-> t[e].right
                               /\ (t[e].n + 1 <= Len(want[p].bits) => v = want[p].bits[t[e].n + 1])]
  <2>1. ps = {p}
    BY <1>5, <1>6
  <2>2. (CHOOSE q \in ps : TRUE) = p
    BY <2>1
  <2>3. c[e] = r
    BY <1>1, <2>1
  <2> HIDE DEF c, ps
  <2>4. QED BY <2>2, <2>3
<1> HIDE DEF r
<1>7. c \in [Bus!Devices -> Taken]
  BY <1>1, <1>4
<1>8. ASSUME NEW x \in Bus!Devices,
             x # e \/ (\A p \in Bus!Procs : ~(Bus!Busy(p) /\ want[p].dev = x))
      PROVE  c[x] = t[x]
  <2>1. CASE x # e
    BY <1>1, <2>1
  <2>2. CASE x = e
    <3>1. ps = {}
      BY <1>8, <2>2
    <3>2. QED BY <1>1, <3>1
  <2>3. QED BY <2>1, <2>2
<1>9. QED BY <1>6, <1>7, <1>8

\* Where a write to a pin leaves what the devices have taken.
LEMMA PinTakes ==
  ASSUME BusInv, NEW p \in Bus!Procs, Bus!Pin(p), NEW w, w = Head(todo[p])
  PROVE  /\ took' \in [Bus!Devices -> Taken]
         /\ \A x \in Bus!Devices : (\A q \in Bus!Procs : ~(Bus!Busy(q) /\ want[q].dev = x))
              => took'[x] = took[x]
         /\ w.line # "clkgen" => took'["clockgen"] = took["clockgen"]
         /\ LET d == want[p].dev
                s == ViewOf(d)
            IN  took'[d] = [n |-> IF TakesBit(d, s, w) THEN Most(s.n + 1) ELSE s.n,
                            right |-> IF TakesBit(d, s, w) THEN s.right /\ RightBit(want[p].bits, s)
                                      ELSE s.right]
<1> DEFINE d == want[p].dev
           s == ViewOf(d)
           bits == want[p].bits
           free(x) == \A q \in Bus!Procs : ~(Bus!Busy(q) /\ want[q].dev = x)
           rises == pin[w.line] = 0 /\ w.arg = 1
           a == Bus!Clocked(took, "clockgen", pin["data"])
           m == Bus!Clocked(took, "em9010", pin["data"])
           e == Bus!Clocked(m, "encoder", pin["data"])
           bit == [n |-> Most(took[d].n + 1),
                   right |-> took[d].right
                             /\ (took[d].n + 1 <= Len(bits) => pin["data"] = bits[took[d].n + 1])]
<1>1. BusTypes /\ took \in [Bus!Devices -> Taken] /\ Bus!Busy(p)
  BY DEF BusInv, BusTypes, Bus!Pin
<1>2. "clockgen" \in Bus!Devices /\ "em9010" \in Bus!Devices /\ "encoder" \in Bus!Devices
      /\ \A x \in Bus!Devices : x \in {"clockgen", "em9010", "encoder"}
  BY DEF Bus!Devices
<1>3. d \in Bus!Devices
  BY <1>1, OwnDiffer DEF BusTypes
<1>4. /\ a \in [Bus!Devices -> Taken]
      /\ \A x \in Bus!Devices : x # "clockgen" \/ free(x) => a[x] = took[x]
      /\ d = "clockgen" => a[d] = bit
  BY <1>1, <1>2, ClockedIs
<1>5. /\ m \in [Bus!Devices -> Taken]
      /\ \A x \in Bus!Devices : x # "em9010" \/ free(x) => m[x] = took[x]
      /\ d = "em9010" => m[d] = bit
  BY <1>1, <1>2, ClockedIs
<1> HIDE DEF m
<1>6. /\ e \in [Bus!Devices -> Taken]
      /\ \A x \in Bus!Devices : x # "encoder" \/ free(x) => e[x] = m[x]
      /\ d = "encoder" => e[d] = [n |-> Most(m[d].n + 1),
                   right |-> m[d].right
                             /\ (m[d].n + 1 <= Len(bits) => pin["data"] = bits[m[d].n + 1])]
  BY <1>1, <1>2, <1>5, ClockedIs
<1> HIDE DEF e
<1>7. d = "encoder" => e[d] = bit
  BY <1>2, <1>5, <1>6
<1>8. d = "em9010" => e[d] = bit
  BY <1>2, <1>5, <1>6
<1>9. w.do = "pin"
      /\ took' = IF ~rises THEN took
                 ELSE IF w.line = "clkgen" THEN a
                 ELSE IF w.line = "clk" THEN IF listening THEN e ELSE m
                 ELSE took
  BY DEF Bus!Pin, a, m, e
<1> HIDE DEF a, free
<1>10. took' \in {took, a, m, e}
  BY <1>9
<1>11. took' \in [Bus!Devices -> Taken]
  BY <1>1, <1>4, <1>5, <1>6, <1>10
<1>12. \A x \in Bus!Devices : free(x) => took'[x] = took[x]
  BY <1>4, <1>5, <1>6, <1>10
<1>13. w.line # "clkgen" => took'["clockgen"] = took["clockgen"]
  BY <1>2, <1>5, <1>6, <1>9
<1>14. took'[d] = IF TakesBit(d, s, w) THEN bit ELSE took[d]
  <2>1. s.pin = pin /\ s.listening = listening
    BY DEF ViewOf
  <2> HIDE DEF d, s, bit
  <2>2. CASE d = "clockgen"
    <3>1. TakesBit(d, s, w) <=> w.line = "clkgen" /\ rises
      BY <1>9, <2>1, <2>2 DEF TakesBit, ClockOf
    <3>2. ~(w.line = "clkgen" /\ rises) => took'[d] = took[d]
      BY <1>2, <1>5, <1>6, <1>9, <2>2
    <3>3. w.line = "clkgen" /\ rises => took'[d] = bit
      BY <1>4, <1>9, <2>2
    <3>4. QED BY <3>1, <3>2, <3>3
  <2>3. CASE d = "em9010"
    <3>1. TakesBit(d, s, w) <=> w.line = "clk" /\ rises
      BY <1>9, <2>1, <2>3 DEF TakesBit, ClockOf
    <3>2. ~(w.line = "clk" /\ rises) => took'[d] = took[d]
      BY <1>2, <1>4, <1>9, <2>3
    <3>3. w.line = "clk" /\ rises => took'[d] = bit
      BY <1>5, <1>8, <1>9, <2>3
    <3>4. QED BY <3>1, <3>2, <3>3
  <2>4. CASE d = "encoder"
    <3>1. TakesBit(d, s, w) <=> w.line = "clk" /\ rises /\ listening
      BY <1>9, <2>1, <2>4 DEF TakesBit, ClockOf
    <3>2. ~(w.line = "clk" /\ rises /\ listening) => took'[d] = took[d]
      BY <1>2, <1>4, <1>5, <1>9, <2>4
    <3>3. w.line = "clk" /\ rises /\ listening => took'[d] = bit
      BY <1>7, <1>9, <2>4
    <3>4. QED BY <3>1, <3>2, <3>3
  <2>5. QED BY <1>2, <1>3, <2>2, <2>3, <2>4
<1>15. took[d] = [n |-> s.n, right |-> s.right]
  <2>1. took[d] \in Taken
    BY <1>1, <1>3
  <2>2. took[d] = [n |-> took[d].n, right |-> took[d].right]
    BY <2>1 DEF Taken
  <2>3. QED BY <2>2 DEF ViewOf
<1>16. bit = [n |-> Most(s.n + 1), right |-> s.right /\ RightBit(bits, s)]
  BY DEF ViewOf, RightBit
<1> HIDE DEF s, d, bit, bits
<1>17. took'[d] = [n |-> IF TakesBit(d, s, w) THEN Most(s.n + 1) ELSE s.n,
                   right |-> IF TakesBit(d, s, w) THEN s.right /\ RightBit(bits, s) ELSE s.right]
  <2>1. CASE TakesBit(d, s, w)
    BY <1>14, <1>16, <2>1
  <2>2. CASE ~TakesBit(d, s, w)
    BY <1>14, <1>15, <2>2
  <2>3. QED BY <2>1, <2>2
<1>18. QED BY <1>11, <1>12, <1>13, <1>17 DEF d, s, bits, free

\* The next write of a process, by its kind.
LEMMA NextWrite ==
  ASSUME BusTypes, NEW p \in Bus!Procs, Bus!Busy(p), NEW w, w = Head(todo[p])
  PROVE  /\ w.do = "pin" => w.line \in Bus!Lines /\ w.arg \in Levels /\ w = Bus!Set(w.line, w.arg)
         /\ w.do = "oe" => w.arg \in Levels /\ w = Bus!Drive(w.arg)
         /\ p = "i2c" => w.do # "sample" /\ (w.do = "pin" => w.line # "clkgen")
<1>1. todo[p] \in Seq(AllWrites) /\ todo[p] # << >> /\ (p = "i2c" => todo[p] \in Seq(Wires))
  BY DEF BusTypes, Bus!Busy
<1>2. w \in AllWrites /\ (p = "i2c" => w \in Wires)
  BY <1>1
<1>3. \A x \in Sets : x.do = "pin" /\ x.line \in Bus!Lines /\ x.arg \in Levels
                      /\ x = Bus!Set(x.line, x.arg)
  BY DEF Sets, Bus!Set
<1>4. \A x \in Drives : x.do = "oe" /\ x.arg \in Levels /\ x = Bus!Drive(x.arg)
  BY DEF Drives, Bus!Drive
<1>5. \A x \in Samples : x.do = "sample"
  BY DEF Samples
<1>6. \A x \in Wires : x.do # "sample" /\ (x.do = "pin" => x.line # "clkgen")
  BY WritesAre DEF Wires
<1>7. QED BY <1>2, <1>3, <1>4, <1>5, <1>6 DEF AllWrites

\* A write to a pin keeps the invariant.
LEMMA PinKeeps ==
  ASSUME BusInv, NEW p \in Bus!Procs, Bus!Pin(p)
  PROVE  BusInv'
<1> DEFINE w == Head(todo[p])
           d == want[p].dev
           bits == want[p].bits
           s == ViewOf(d)
           up == w.line = "data" /\ pin[w.line] = 0 /\ w.arg = 1 /\ pin["clk"] = 1
           down == w.line = "data" /\ pin[w.line] = 1 /\ w.arg = 0 /\ pin["clk"] = 1
<1>1. /\ BusTypes /\ Bus!Busy(p) /\ w.do = "pin"
      /\ pin' = [pin EXCEPT ![w.line] = w.arg]
      /\ listening' = (down \/ (listening /\ ~up))
      /\ todo' = [todo EXCEPT ![p] = Tail(@)]
      /\ drive' = drive /\ want' = want /\ alone' = alone
  BY DEF BusInv, Bus!Pin
<1>2. /\ w.line \in Bus!Lines /\ w.arg \in Levels /\ w = Bus!Set(w.line, w.arg)
      /\ p = "i2c" => w.line # "clkgen"
  BY <1>1, NextWrite
<1>3. /\ pin \in [Bus!Lines -> Levels] /\ drive \in Levels /\ listening \in BOOLEAN
  BY <1>1 DEF BusTypes
<1>4. /\ took' \in [Bus!Devices -> Taken]
      /\ \A x \in Bus!Devices : (\A q \in Bus!Procs : ~(Bus!Busy(q) /\ want[q].dev = x))
           => took'[x] = took[x]
      /\ w.line # "clkgen" => took'["clockgen"] = took["clockgen"]
      /\ took'[d] = [n |-> IF TakesBit(d, s, w) THEN Most(s.n + 1) ELSE s.n,
                     right |-> IF TakesBit(d, s, w) THEN s.right /\ RightBit(bits, s) ELSE s.right]
  BY PinTakes
<1>5. pin' \in [Bus!Lines -> Levels] /\ listening' \in BOOLEAN
  BY <1>1, <1>2, <1>3
<1>6. ViewOf(d)' = ViewAfter(d, bits, s, w)
  <2>1. d' = d
    BY <1>1
  <2>2. ViewOf(d)' = [pin |-> pin', drive |-> drive', n |-> took'[d].n, right |-> took'[d].right,
                      listening |-> listening']
    BY <2>1 DEF ViewOf
  <2>3. s.pin = pin /\ s.drive = drive /\ s.listening = listening
    BY DEF ViewOf
  <2>4. listening' = IF w.line = "data" /\ pin["clk"] = 1 /\ pin["data"] # w.arg
                     THEN w.arg = 0 ELSE listening
    <3>1. pin["data"] \in Levels /\ w.arg \in Levels
      BY <1>2, <1>3, LinesAre
    <3> HIDE DEF w
    <3>2. CASE w.line = "data" /\ pin["clk"] = 1 /\ pin["data"] # w.arg
      <4>1. (w.arg = 0 /\ pin["data"] = 1) \/ (w.arg = 1 /\ pin["data"] = 0)
        BY <3>1, <3>2, LinesAre
      <4>2. CASE w.arg = 0 /\ pin["data"] = 1
        BY <1>1, <3>2, <4>2
      <4>3. CASE w.arg = 1 /\ pin["data"] = 0
        BY <1>1, <3>2, <4>3
      <4>4. QED BY <4>1, <4>2, <4>3
    <3>3. CASE ~(w.line = "data" /\ pin["clk"] = 1 /\ pin["data"] # w.arg)
      <4>1. ~up /\ ~down
        BY <3>3
      <4> HIDE DEF up, down
      <4>2. QED BY <1>1, <1>3, <3>3, <4>1
    <3>4. QED BY <3>2, <3>3
  <2> HIDE DEF w, d, bits, s
  <2>5. ViewAfter(d, bits, s, w) =
          [pin |-> pin', drive |-> drive',
           n |-> IF TakesBit(d, s, w) THEN Most(s.n + 1) ELSE s.n,
           right |-> IF TakesBit(d, s, w) THEN s.right /\ RightBit(bits, s) ELSE s.right,
           listening |-> listening']
    BY <1>1, <2>3, <2>4 DEF ViewAfter
  <2>6. QED BY <1>4, <2>2, <2>5
<1>7. ASSUME NEW q \in Bus!Procs \ {p}
      PROVE  /\ ~Bus!Busy(q) /\ want[q].dev # "none" => took'[want[q].dev] = took[want[q].dev]
             /\ want[q].dev = "clockgen" => /\ took'["clockgen"].n = took["clockgen"].n
                                            /\ pin'["clkgen"] = pin["clkgen"]
  <2>1. /\ want[q].dev \in Own(q) \cup {"none"}
        /\ \A x \in Bus!Procs : want[x].dev \in Own(x) \cup {"none"}
    BY <1>1 DEF BusTypes
  <2>2. ASSUME ~Bus!Busy(q), want[q].dev # "none" PROVE took'[want[q].dev] = took[want[q].dev]
    <3>1. want[q].dev \in Bus!Devices
      BY <2>1, <2>2, OwnDiffer
    <3>2. \A x \in Bus!Procs : ~(Bus!Busy(x) /\ want[x].dev = want[q].dev)
      BY <2>1, <2>2, OwnDiffer
    <3>3. QED BY <1>4, <3>1, <3>2
  <2>3. ASSUME want[q].dev = "clockgen"
        PROVE  took'["clockgen"].n = took["clockgen"].n /\ pin'["clkgen"] = pin["clkgen"]
    <3>1. q = "ioctl"
      BY <2>1, <2>3, OwnDiffer
    <3>2. p = "i2c"
      BY <3>1, OwnDiffer
    <3>3. w.line # "clkgen"
      BY <1>2, <3>2
    <3>4. QED BY <1>1, <1>3, <1>4, <3>3, LinesAre
  <2>4. QED BY <2>2, <2>3
<1>8. pin'["clk"] = 0 => w = Bus!Set("clk", 0) \/ (pin["clk"] = 0 /\ w # Bus!Set("clk", 1))
  <2>1. CASE w.line = "clk"
    <3>1. pin'["clk"] = w.arg
      BY <1>1, <1>3, <2>1, LinesAre
    <3>2. QED BY <1>2, <2>1, <3>1
  <2>2. CASE w.line # "clk"
    <3>1. pin'["clk"] = pin["clk"]
      BY <1>1, <1>3, <2>2, LinesAre
    <3>2. w # Bus!Set("clk", 1)
      BY <2>2, WritesAre
    <3>3. QED BY <3>1, <3>2
  <2>3. QED BY <2>1, <2>2
<1>9. drive' = 0 => w = Bus!Drive(0) \/ (drive = 0 /\ w # Bus!Drive(1))
  BY <1>1, WritesAre
<1> HIDE DEF w, s
<1>10. QED BY <1>1, <1>3, <1>4, <1>5, <1>6, <1>7, <1>8, <1>9, BusWriteKeeps DEF w, s

\* Driving the line, or letting it go, keeps it.
LEMMA OeKeeps ==
  ASSUME BusInv, NEW p \in Bus!Procs, Bus!Oe(p)
  PROVE  BusInv'
<1> DEFINE w == Head(todo[p])
           d == want[p].dev
           bits == want[p].bits
           s == ViewOf(d)
<1>1. /\ BusTypes /\ Bus!Busy(p) /\ w.do = "oe" /\ drive' = w.arg
      /\ todo' = [todo EXCEPT ![p] = Tail(@)]
      /\ pin' = pin /\ took' = took /\ listening' = listening /\ want' = want /\ alone' = alone
  BY DEF BusInv, Bus!Oe
<1>2. w.arg \in Levels /\ w = Bus!Drive(w.arg)
  BY <1>1, NextWrite
<1>3. /\ pin \in [Bus!Lines -> Levels] /\ drive \in Levels /\ listening \in BOOLEAN
      /\ took \in [Bus!Devices -> Taken]
  BY <1>1 DEF BusTypes
<1>4. ViewOf(d)' = ViewAfter(d, bits, s, w)
  <2>1. d' = d
    BY <1>1
  <2>2. ViewOf(d)' = [pin |-> s.pin, drive |-> w.arg, n |-> s.n, right |-> s.right,
                      listening |-> s.listening]
    BY <1>1, <2>1 DEF ViewOf
  <2> HIDE DEF w, d, bits, s
  <2>3. ViewAfter(d, bits, s, w) = [pin |-> s.pin, drive |-> w.arg, n |-> s.n, right |-> s.right,
                                    listening |-> s.listening]
    BY <1>1 DEF ViewAfter, TakesBit
  <2>4. QED BY <2>2, <2>3
<1>5. pin'["clk"] = 0 => w = Bus!Set("clk", 0) \/ (pin["clk"] = 0 /\ w # Bus!Set("clk", 1))
  BY <1>1, WritesAre
<1>6. drive' = 0 => w = Bus!Drive(0) \/ (drive = 0 /\ w # Bus!Drive(1))
  BY <1>1, <1>2
<1> HIDE DEF w, s
<1>7. QED BY <1>1, <1>2, <1>3, <1>4, <1>5, <1>6, BusWriteKeeps DEF w, s

\* Reading a bit of the EM9010 keeps it.
LEMMA SampleKeeps ==
  ASSUME BusInv, NEW p \in Bus!Procs, Bus!Sample(p)
  PROVE  BusInv'
<1> DEFINE w == Head(todo[p])
           d == want[p].dev
           bits == want[p].bits
           s == ViewOf(d)
           read == drive = 0 /\ took["em9010"].n = Len(bits) + w.arg - 1
<1>1. /\ BusTypes /\ Bus!Busy(p) /\ w.do = "sample"
      /\ took' = [took EXCEPT !["em9010"].right = @ /\ read]
      /\ todo' = [todo EXCEPT ![p] = Tail(@)]
      /\ pin' = pin /\ drive' = drive /\ listening' = listening /\ want' = want /\ alone' = alone
  BY DEF BusInv, Bus!Sample
<1>2. p = "ioctl"
  BY <1>1, NextWrite, OwnDiffer
<1>3. /\ pin \in [Bus!Lines -> Levels] /\ drive \in Levels /\ listening \in BOOLEAN
      /\ took \in [Bus!Devices -> Taken]
      /\ \A x \in Bus!Procs : want[x].dev \in Own(x) \cup {"none"}
                              /\ (Bus!Busy(x) => want[x].dev # "none")
  BY <1>1 DEF BusTypes
<1>4. "em9010" \in Bus!Devices /\ "clockgen" \in Bus!Devices
  BY DEF Bus!Devices
<1> HIDE DEF read
<1>5. /\ took' \in [Bus!Devices -> Taken]
      /\ \A x \in Bus!Devices \ {"em9010"} : took'[x] = took[x]
      /\ took'["em9010"] = [took["em9010"] EXCEPT !.right = @ /\ read]
  BY <1>1, <1>3, <1>4 DEF Taken
<1>6. d \in Bus!Devices
  BY <1>1, <1>3, OwnDiffer
<1>7. ViewOf(d)' = ViewAfter(d, bits, s, w)
  <2>1. d' = d
    BY <1>1
  <2>2. ViewOf(d)' = [pin |-> s.pin, drive |-> s.drive, n |-> took'[d].n, right |-> took'[d].right,
                      listening |-> s.listening]
    BY <1>1, <2>1 DEF ViewOf
  <2>3. s.n = took[d].n /\ s.right = took[d].right /\ s.drive = drive
    BY DEF ViewOf
  <2> HIDE DEF w, d, bits, s
  <2>4. ViewAfter(d, bits, s, w) =
          [pin |-> s.pin, drive |-> s.drive, n |-> s.n,
           right |-> IF d = "em9010" THEN s.right /\ s.drive = 0 /\ s.n = Len(bits) + w.arg - 1
                     ELSE s.right,
           listening |-> s.listening]
    BY <1>1 DEF ViewAfter, TakesBit
  <2>5. CASE d = "em9010"
    <3>1. took["em9010"] \in Taken
      BY <1>3, <1>4
    <3>2. took'[d].n = s.n /\ took'[d].right = (took["em9010"].right /\ read)
      BY <1>5, <2>3, <2>5, <3>1 DEF Taken
    <3>3. (took["em9010"].right /\ read) = (s.right /\ s.drive = 0 /\ s.n = Len(bits) + w.arg - 1)
      BY <2>3, <2>5 DEF read
    <3>4. QED BY <2>2, <2>4, <2>5, <3>2, <3>3
  <2>6. CASE d # "em9010"
    BY <1>5, <1>6, <2>2, <2>3, <2>4, <2>6
  <2>7. QED BY <2>5, <2>6
<1>8. ASSUME NEW q \in Bus!Procs \ {p}
      PROVE  /\ ~Bus!Busy(q) /\ want[q].dev # "none" => took'[want[q].dev] = took[want[q].dev]
             /\ want[q].dev = "clockgen" => /\ took'["clockgen"].n = took["clockgen"].n
                                            /\ pin'["clkgen"] = pin["clkgen"]
  <2>1. want[q].dev \in {"encoder", "none"}
    BY <1>2, <1>3, OwnDiffer
  <2>2. "encoder" \in Bus!Devices \ {"em9010"}
    BY DEF Bus!Devices
  <2>3. QED BY <1>5, <2>1, <2>2
<1>9. pin'["clk"] = 0 => w = Bus!Set("clk", 0) \/ (pin["clk"] = 0 /\ w # Bus!Set("clk", 1))
  BY <1>1, WritesAre
<1>10. drive' = 0 => w = Bus!Drive(0) \/ (drive = 0 /\ w # Bus!Drive(1))
  BY <1>1, WritesAre
<1> HIDE DEF w, s
<1>11. QED BY <1>1, <1>3, <1>5, <1>7, <1>8, <1>9, <1>10, BusWriteKeeps DEF w, s

\* A step of the bus keeps it, and so does one that leaves it alone.
LEMMA BusStep == BusInv /\ Bus!Next => BusInv'
<1> SUFFICES ASSUME BusInv, Bus!Next PROVE BusInv'
  OBVIOUS
<1>1. CASE \E p \in Bus!Procs : Bus!Pin(p) \/ Bus!Oe(p) \/ Bus!Sample(p)
  BY <1>1, PinKeeps, OeKeeps, SampleKeeps
<1>2. CASE \E b \in Bytes :
             \/ Bus!Begin("ioctl", "clockgen", Bus!Frame("clockgen", 0, b), 0,
                          Bus!em8300_clockgen_write(b))
             \/ Bus!Begin("ioctl", "em9010", Bus!Frame("em9010", 2, b), 0, Bus!em9010_write(2, b))
             \/ Bus!Begin("i2c", "encoder", Bus!Frame("encoder", 0, b), 0, Bus!i2c_transfer(b))
  <2>1. PICK b \in Bytes :
             \/ Bus!Begin("ioctl", "clockgen", Bus!Frame("clockgen", 0, b), 0,
                          Bus!em8300_clockgen_write(b))
             \/ Bus!Begin("ioctl", "em9010", Bus!Frame("em9010", 2, b), 0, Bus!em9010_write(2, b))
             \/ Bus!Begin("i2c", "encoder", Bus!Frame("encoder", 0, b), 0, Bus!i2c_transfer(b))
    BY <1>2
  <2>2. /\ Transfer("ioctl", "clockgen", Bus!Frame("clockgen", 0, b), 0,
                    Bus!em8300_clockgen_write(b))
        /\ Transfer("ioctl", "em9010", Bus!Frame("em9010", 2, b), 0, Bus!em9010_write(2, b))
        /\ Transfer("i2c", "encoder", Bus!Frame("encoder", 0, b), 0, Bus!i2c_transfer(b))
    BY DEF Transfer
  <2>3. QED BY <2>1, <2>2, BeginDelivers
<1>3. CASE Bus!Begin("ioctl", "em9010", Bus!ReadFrame(0), Width + 1, Bus!em9010_read(0))
  <2>1. Transfer("ioctl", "em9010", Bus!ReadFrame(0), Width + 1, Bus!em9010_read(0))
    BY DEF Transfer
  <2>2. QED BY <1>3, <2>1, BeginDelivers
<1>4. QED BY <1>1, <1>2, <1>3 DEF Bus!Next

LEMMA BusStutters == BusInv /\ UNCHANGED busVars => BusInv'
<1> SUFFICES ASSUME BusInv, UNCHANGED busVars PROVE BusInv'
  OBVIOUS
<1>1. /\ pin' = pin /\ drive' = drive /\ todo' = todo /\ want' = want /\ took' = took
      /\ alone' = alone /\ listening' = listening
  BY DEF busVars
<1>2. BusTypes'
  BY <1>1 DEF BusInv, BusTypes, Bus!Busy
<1>3. Restored'
  BY <1>1 DEF BusInv, Restored
<1>4. \A q \in Bus!Procs : Delivers(q)'
  <2> TAKE q \in Bus!Procs
  <2>1. Delivers(q)' = Delivers(q)
    BY <1>1, Zenon DEF Delivers, ViewOf, Goal, Bus!Busy
  <2>2. QED BY <2>1 DEF BusInv
<1>5. (\A q \in Bus!Procs : Bus!Busy(q)') => \A q \in Bus!Procs : ~alone'[q]
  BY <1>1 DEF BusInv, Bus!Busy
<1>6. QED BY <1>2, <1>3, <1>4, <1>5 DEF BusInv

\* The part of the bus of a step of the whole.
LEMMA BusPart == part = "bus" /\ [Next]_vars => [Bus!Next]_busVars /\ part' = part
<1> SUFFICES ASSUME part = "bus", [Next]_vars
             PROVE  (Bus!Next \/ UNCHANGED busVars) /\ part' = part
  OBVIOUS
<1>1. CASE Next
  BY <1>1 DEF Next
<1>2. CASE UNCHANGED vars
  BY <1>2 DEF vars, busVars, shared, bus
<1>3. QED BY <1>1, <1>2

\* A transfer that no other overlaps gives its device the bits meant for it and no others,
\* and the clock generator is given a whole byte even by one that others overlap; when none
\* overlap the card is left driving the data line: whatever earlier transfers, even broken
\* ones, left on the lines, and for bytes of two to eight bits.
THEOREM TransfersArrive == Spec => []BusDelivers
<1>1. Init => (part = "bus" => BusInv)
  BY BusStarts DEF Init
<1>2. (part = "bus" => BusInv) /\ [Next]_vars => (part = "bus" => BusInv)'
  <2> SUFFICES ASSUME part = "bus" => BusInv, [Next]_vars, part' = "bus"
               PROVE  BusInv'
    OBVIOUS
  <2>1. part' = part
    BY DEF Next, vars
  <2>2. Bus!Next \/ UNCHANGED busVars
    BY <2>1, BusPart
  <2>3. QED BY <2>1, <2>2, BusStep, BusStutters
<1>3. (part = "bus" => BusInv) => BusDelivers
  <2> SUFFICES ASSUME BusInv, NEW p \in Bus!Procs, ~Bus!Busy(p), want[p].dev # "none"
               PROVE  /\ alone[p] => /\ took[want[p].dev].right
                                     /\ took[want[p].dev].n = Len(want[p].bits) + want[p].more
                      /\ want[p].dev = "clockgen" => took[want[p].dev].n = Width
                      /\ (\A q \in Bus!Procs : ~Bus!Busy(q) /\ alone[q]) => drive = 1
    BY DEF BusDelivers, Bus!BusDelivers
  <2>1. /\ alone[p] => /\ took[want[p].dev].right
                       /\ took[want[p].dev].n = Len(want[p].bits) + want[p].more
        /\ want[p].dev = "clockgen" => took[want[p].dev].n = Width
    BY DEF BusInv, Delivers, Goal
  <2>2. ASSUME \A q \in Bus!Procs : ~Bus!Busy(q) PROVE drive = 1
    <3>1. \A x : x \notin Calls(<< >>)
      <4>1. Len(<< >>) = 0
        OBVIOUS
      <4>2. QED BY <4>1 DEF Calls
    <3>2. \A q \in Bus!Procs : todo[q] = << >>
      BY <2>2 DEF Bus!Busy
    <3>3. drive # 0
      BY <3>1, <3>2 DEF BusInv, Restored
    <3>4. QED BY <3>3, LinesAre DEF BusInv, BusTypes
  <2>3. QED BY <2>1, <2>2
<1>4. QED BY <1>1, <1>2, <1>3, PTL DEF Spec
===============================================================================
