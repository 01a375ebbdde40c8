---------------------------- MODULE Em8300LifeProofs ----------------------------
(***************************************************************************)
(* Proofs about what the driver holds (Em8300Life, as MCControl runs it),   *)
(* for any number of probes, loads and failures.                            *)
(*                                                                          *)
(* Every list of calls of the driver is in the same order, that of Place:   *)
(* what a probe takes, what a load does, what a removal gives back.  So the *)
(* set of the calls that are left says how far a list has come, and LifeInv *)
(* says what is held when just these are left: of a probe, nothing that is  *)
(* yet to be taken; of a removal or an unwinding, nothing that will not be  *)
(* given back; of a load, no FIFO that will be allocated without being      *)
(* freed before.  A thread that is done has the empty set.                  *)
(*                                                                          *)
(* First come the lists, of which these proofs need the calls and their     *)
(* order, then what a call of each kind does to what LifeInv says of the    *)
(* card (CardTakes and so on) and of the module (ModuleTakes and so on),    *)
(* and at last a lemma for each action.                                     *)
(***************************************************************************)
EXTENDS MCControl, Em8300Lemmas, SequenceTheorems, FiniteSetTheorems, TLAPS

-------------------------------------------------------------------------------
(* What is held, and the calls about it. *)

\* What the module holds, what a card holds, and a FIFO with its buffers.
ModuleOwn == {"proc", "class", "chrdev", "pci driver", "version"}
CardTaken == {"em", "pci device", "mem", "mtrr", "irq", "algo 0", "algo 1", "bus 1", "eeprom",
              "checksum", "bus 0", "encoder", "card proc", "node", "model and zoom", "dsp",
              "subdevice nodes", "alsa"}
Buffers == {"mvbuf", "mabuf", "spbuf", "prep"}
CardOwn == CardTaken \cup Life!Fifos \cup Buffers
PartsOf(f) == {f, Life!Buffer(f)} \cup (IF f = "mafifo" THEN {"prep"} ELSE {})

\* Where a call stands in any list that has it: acquisitions, releases, and what there is
\* between.
Takers == {"get", "try", "hope", "irq", "mtrr"}
TakePlace(r) ==
  CASE r \in {"em", "proc"} -> 1 [] r \in {"pci device", "class"} -> 2
    [] r \in {"mem", "chrdev"} -> 3 [] r \in {"mtrr", "pci driver"} -> 4
    [] r \in {"irq", "version"} -> 5
    [] r = "algo 0" -> 6 [] r = "algo 1" -> 7 [] r = "bus 1" -> 8 [] r = "eeprom" -> 9
    [] r = "checksum" -> 10 [] r = "bus 0" -> 11 [] r = "encoder" -> 12
    [] r = "card proc" -> 13 [] r = "node" -> 14 [] r = "model and zoom" -> 15
    [] r = "dsp" -> 16 [] r = "subdevice nodes" -> 50 [] r = "alsa" -> 51 [] OTHER -> 100
PutPlace(r) ==
  CASE r = "subdevice nodes" -> 20 [] r = "alsa" -> 21 [] r = "dsp" -> 22
    [] r = "card proc" -> 23 [] r = "node" -> 24 [] r = "model and zoom" -> 25
    [] r = "mtrr" -> 26 [] r = "checksum" -> 27 [] r = "eeprom" -> 28 [] r = "encoder" -> 29
    [] r = "algo 0" -> 30 [] r = "bus 0" -> 31 [] r = "algo 1" -> 32 [] r = "bus 1" -> 33
    [] r = "irq" -> 39 [] r = "mem" -> 40 [] r = "em" -> 41 [] r = "pci device" -> 42
    [] r = "version" -> 60 [] r = "pci driver" -> 61 [] r = "chrdev" -> 62
    [] r = "proc" -> 63 [] r = "class" -> 64 [] OTHER -> 100
FifoPlace(f) == IF f = "mvfifo" THEN 0 ELSE IF f = "mafifo" THEN 1 ELSE 2
Place(c) ==
  CASE c.op \in Takers -> TakePlace(c.r) [] c.op = "put" -> PutPlace(c.r)
    [] c.op = "mask" -> 34 [] c.op = "need" -> (IF c.r = "video" THEN 35 ELSE 49)
    [] c.op = "free" -> 36 + FifoPlace(c.r) [] c.op = "alloc" -> 43 + FifoPlace(c.r)
    [] c.op = "init" -> 46 + FifoPlace(c.r) [] OTHER -> 52

Increasing(l) == \A i, j \in 1 .. Len(l) : i < j => Place(l[i]) < Place(l[j])

\* The calls of each kind of list.
Puts(rs) == {Life!Call("put", r) : r \in rs}
ProbeCalls == {Life!Call("get", r) : r \in {"em", "pci device", "mem", "algo 0", "algo 1"}}
              \cup {Life!Call("try", r) : r \in {"eeprom", "checksum", "encoder", "card proc",
                      "node", "model and zoom", "subdevice nodes", "alsa"}}
              \cup {Life!Call("hope", r) : r \in {"bus 0", "bus 1", "dsp"}}
              \cup {Life!Call("mtrr", "mtrr"), Life!Call("irq", "irq")}
Mask == Life!Call("mask", "em")
CloseCalls == Puts(CardTaken) \cup {Life!Call("free", f) : f \in Life!Fifos} \cup {Mask}
Loaded == Life!Call("loaded", "em")
LastCalls == {Life!Call("try", "alsa"), Loaded}
NeedVideo == Life!Call("need", "video")
NeedAudio == Life!Call("need", "audio")
LoadCalls == {Life!Call("free", f) : f \in Life!Fifos}
             \cup {Life!Call("alloc", f) : f \in Life!Fifos}
             \cup {Life!Call("init", f) : f \in Life!Fifos}
             \cup {Mask, NeedVideo, NeedAudio, Life!Call("try", "subdevice nodes")} \cup LastCalls
CardCalls == ProbeCalls \cup CloseCalls \cup LoadCalls
InitCalls == {Life!Call("try", r) : r \in {"proc", "class", "version"}}
             \cup {Life!Call("get", r) : r \in {"chrdev", "pci driver"}}
ModuleCalls == InitCalls \cup Puts(ModuleOwn)

-------------------------------------------------------------------------------
(* The inductive invariant.  C are the calls that the card has left and M those of the
   module; h, p, ig, ab, wr, lk, fw and uc are what Em8300Life calls held, pointer,
   ignored, aborted, wrong, leaked, fwLoader and ucodeloaded. *)

\* An allocation of a FIFO has failed; a failed probe leaves the PCI device enabled; a
\* call is left that gives x back.
Dangles(ab) == ab \cap Life!Fifos # {}
Excused(x, ab) == x = "pci device" /\ ab \cap {"mem", "irq"} # {}
Covered(x, C) ==
  \/ Life!Call("put", x) \in C
  \/ \E f \in Life!Fifos : Life!Call("free", f) \in C /\ x \in PartsOf(f)

\* What the card is about; Shut: it gives back all it has, or has done so.
Probing(C) == C # {} /\ C \subseteq ProbeCalls
Closing(C) == C # {} /\ C \subseteq CloseCalls
Loading(C) == Loaded \in C /\ C \subseteq LoadCalls
Shut(C, h) == Closing(C) \/ (C = {} /\ "em" \notin h)

\* A probe has not taken anything whose turn has not come, and takes the card and its
\* registers; it takes subdevices only where the kernel brings the microcode.
ProbeOK(C, h, ab, fw) ==
  Probing(C) =>
    /\ \A c \in C, x \in h \cap CardOwn : Excused(x, ab) \/ TakePlace(x) < Place(c)
    /\ \A x \in {"em", "mem"} : Life!Call("get", x) \in C \/ x \in h
    /\ \A x \in {"subdevice nodes", "alsa"} : Life!Call("try", x) \in C => fw

\* A load frees each FIFO before it allocates it, and allocates it before its buffers.
LoadOK(C, h, fw, uc) ==
  Loading(C) =>
    /\ {"em", "mem"} \subseteq h
    /\ NeedVideo \in C => \A f \in Life!Fifos : Life!Call("free", f) \in C
    /\ \A f \in Life!Fifos :
         /\ Life!Call("free", f) \in C => Life!Call("alloc", f) \in C
         /\ Life!Call("init", f) \in C => f \in h \/ Life!Call("alloc", f) \in C
         /\ Life!Call("alloc", f) \in C => f \notin h \/ Life!Call("free", f) \in C
    /\ \A x \in {"subdevice nodes", "alsa"} :
         Life!Call("try", x) \in C => x \notin h /\ ~fw /\ ~uc

\* All that a card that goes still has will be given back.
ShutOK(C, h, ab) ==
  Shut(C, h) => \A x \in h \cap CardOwn : Excused(x, ab) \/ Covered(x, C)

\* A card with subdevices is one whose removal will find it enabled, or is about to be.
EnabledOK(C, h, fw, uc) ==
  \A x \in {"subdevice nodes", "alsa"} :
    x \in h => fw \/ uc \/ (Loaded \in C /\ C \subseteq LastCalls)

\* All that is so of a card and its calls.
CardOK(C, h, ab, fw, uc) ==
  /\ Probing(C) \/ Loading(C) \/ Closing(C) \/ C = {}
  /\ ProbeOK(C, h, ab, fw) /\ LoadOK(C, h, fw, uc) /\ ShutOK(C, h, ab)
  /\ EnabledOK(C, h, fw, uc)
  /\ C = {} /\ "em" \in h => "mem" \in h

\* What is held is pointed to; what is pointed to is held, was passed over, or is a FIFO
\* that is about to be allocated or went with its card, unless an allocation failed.
PointersOK(C, h, p, ig, ab) ==
  /\ h \ Buffers \subseteq p /\ p \ h \subseteq ig \cup Life!Fifos /\ p \cap Buffers = {}
  /\ \A f \in Life!Fifos : f \in p \ h =>
       Dangles(ab) \/ (Life!Call("free", f) \notin C
                       /\ (Life!Call("alloc", f) \in C \/ Shut(C, h)))

\* Buffers belong to FIFOs, and those of the audio FIFO come together unless one was
\* passed over.
BuffersOK(h, ig) ==
  /\ \A f \in Life!Fifos : PartsOf(f) \cap h # {} => f \in h
  /\ "prep" \in h /\ "mabuf" \notin h => "mabuf" \in ig

\* What was given back without being held, and what was lost.
LostOK(ig, ab, wr, lk) ==
  /\ wr \subseteq ig \cup (IF Dangles(ab) THEN Life!Fifos ELSE {})
  /\ lk \subseteq ig \cup (IF "mabuf" \in ig THEN {"prep"} ELSE {})

\* While a pointer to a FIFO leads nowhere, or soon may, no handler is at work and none
\* can be started, unless one was at work when the interrupts were masked.
Quiet(ab) == raced \/ Dangles(ab) \/ (~armed /\ ~handler)
Loose(h, p) == \E f \in Life!Fifos : f \in p \ h
Freeing(C) == (\E f \in Life!Fifos : Life!Call("free", f) \in C) /\ Mask \notin C
QuietOK(C, h, p, ab) ==
  /\ Loose(h, p) \/ Freeing(C) => Quiet(ab)
  /\ stale # {} => raced \/ Dangles(ab)
  /\ handler => "irq" \in h

\* The module takes in order what it needs, and will give back what it has taken.
ModuleOK(M, h) ==
  /\ M \subseteq InitCalls \/ M \subseteq Puts(ModuleOwn)
  /\ M # {} /\ M \subseteq InitCalls =>
       /\ \A c \in M, x \in h \cap ModuleOwn : TakePlace(x) < Place(c)
       /\ Life!Call("try", "class") \in M \/ "class" \in h
       /\ Life!Call("get", "chrdev") \in M \/ "chrdev" \in h
       /\ Life!Call("get", "pci driver") \in M \/ "pci driver" \in h
  /\ (M # {} /\ M \subseteq Puts(ModuleOwn)) \/ (M = {} /\ "pci driver" \notin h) =>
       \A x \in h \cap ModuleOwn : Life!Call("put", x) \in M
  /\ "pci driver" \in h => {"class", "chrdev"} \subseteq h

\* Nothing is there without what it depends on, and no card without the driver.
DependsOK(C, h) ==
  /\ \A d \in Life!Depends : d[1] \in h => d[2] \in h
  /\ C # {} \/ "em" \in h => "pci driver" \in h

\* The calls of either thread.
AnyCalls == ModuleCalls \cup CardCalls

\* The lists are in order.
ListsOK ==
  /\ DOMAIN todo = Life!Threads
  /\ todo["module"] \in Seq(AnyCalls) /\ todo["card"] \in Seq(AnyCalls)
  /\ Increasing(todo["module"]) /\ Increasing(todo["card"])

\* All of it, but for the lists and what the handler does.
StateOK(C, M, h, p, ig, ab, wr, lk, fw, uc) ==
  /\ h \subseteq ModuleOwn \cup CardOwn
  /\ CardOK(C, h, ab, fw, uc) /\ PointersOK(C, h, p, ig, ab) /\ BuffersOK(h, ig)
  /\ LostOK(ig, ab, wr, lk) /\ ModuleOK(M, h) /\ DependsOK(C, h)

\* The calls that are left to the card and to the module.
OfCard == Calls(todo["card"])
OfModule == Calls(todo["module"])

\* The inductive invariant.
LifeInv ==
  /\ ListsOK /\ fwLoader \in BOOLEAN
  /\ StateOK(OfCard, OfModule, held, pointer, ignored, aborted, wrong, leaked, fwLoader,
             ucodeloaded)
  /\ QuietOK(OfCard, held, pointer, aborted)

-------------------------------------------------------------------------------
(* Calls and their places. *)

\* What a call does, and to what.
LEMMA CallNamed == \A op, r : Life!Call(op, r).op = op /\ Life!Call(op, r).r = r
BY DEF Life!Call

\* Calls are the same if they do the same to the same.
LEMMA SameCall ==
  \A op, r, op2, r2 : Life!Call(op, r) = Life!Call(op2, r2) <=> op = op2 /\ r = r2
BY CallNamed

\* The place of a call, by what it does to what.
LEMMA PlaceOf ==
  ASSUME NEW r
  PROVE  /\ \A op \in Takers : Place(Life!Call(op, r)) = TakePlace(r)
         /\ Place(Life!Call("put", r)) = PutPlace(r)
         /\ Place(Life!Call("mask", r)) = 34
         /\ Place(Life!Call("need", r)) = IF r = "video" THEN 35 ELSE 49
         /\ Place(Life!Call("free", r)) = 36 + FifoPlace(r)
         /\ Place(Life!Call("alloc", r)) = 43 + FifoPlace(r)
         /\ Place(Life!Call("init", r)) = 46 + FifoPlace(r)
         /\ Place(Life!Call("loaded", r)) = 52
BY CallNamed DEF Place, Takers

\* Places are numbers.
LEMMA PlaceIsNat ==
  /\ \A r : TakePlace(r) \in Nat /\ PutPlace(r) \in Nat /\ FifoPlace(r) \in 0 .. 2
  /\ \A c : Place(c) \in Nat
<1>1. \A r : TakePlace(r) \in Nat
  BY DEF TakePlace
<1>2. \A r : PutPlace(r) \in Nat
  BY DEF PutPlace
<1>3. \A r : FifoPlace(r) \in 0 .. 2
  BY DEF FifoPlace
<1>4. \A c : Place(c) \in Nat
  BY <1>1, <1>2, <1>3 DEF Place, Takers
<1>5. QED BY <1>1, <1>2, <1>3, <1>4

-------------------------------------------------------------------------------
(* The lists, piece by piece. *)

\* A list that is in order, with its calls.
Piece(l, lo, hi, K) ==
  /\ l \in Seq(AnyCalls) /\ Increasing(l) /\ Calls(l) = K
  /\ \A c \in K : lo <= Place(c) /\ Place(c) <= hi

\* Two such lists, one after the other.
LEMMA PieceJoined ==
  \A a, b, K, L :
    \A lo, m, n, hi \in Nat :
      Piece(a, lo, m, K) /\ Piece(b, n, hi, L) /\ m < n /\ lo <= n /\ m <= hi
        => Piece(a \o b, lo, hi, K \cup L)
<1> SUFFICES ASSUME NEW a, NEW b, NEW K, NEW L, NEW lo \in Nat, NEW m \in Nat, NEW n \in Nat,
                    NEW hi \in Nat, Piece(a, lo, m, K), Piece(b, n, hi, L), m < n, lo <= n,
                    m <= hi
             PROVE  Piece(a \o b, lo, hi, K \cup L)
  OBVIOUS
<1> DEFINE l == a \o b
           p == Len(a)
           q == Len(b)
<1>1. a \in Seq(AnyCalls) /\ b \in Seq(AnyCalls) /\ Calls(a) = K /\ Calls(b) = L
  BY DEF Piece
<1>2. l \in Seq(AnyCalls) /\ Calls(l) = K \cup L
  BY <1>1, CallsJoined
<1>3. /\ Len(l) = p + q /\ p \in Nat /\ q \in Nat
      /\ \A i \in 1 .. p + q : l[i] = IF i <= p THEN a[i] ELSE b[i - p]
  BY <1>1, ConcatProperties, LenProperties
<1>4. /\ \A i \in 1 .. p : a[i] \in K
      /\ \A i \in 1 .. q : b[i] \in L
  BY <1>1 DEF Calls
<1>5. /\ \A i, j \in 1 .. p : i < j => Place(a[i]) < Place(a[j])
      /\ \A i, j \in 1 .. q : i < j => Place(b[i]) < Place(b[j])
  BY DEF Piece, Increasing
<1>6. /\ \A c \in K : lo <= Place(c) /\ Place(c) <= m
      /\ \A c \in L : n <= Place(c) /\ Place(c) <= hi
  BY DEF Piece
<1>7. \A c : Place(c) \in Nat
  BY PlaceIsNat
<1> HIDE DEF l, p, q
<1>8. ASSUME NEW i \in 1 .. p + q, NEW j \in 1 .. p + q, i < j
      PROVE  Place(l[i]) < Place(l[j])
  <2>1. CASE j <= p
    <3>1. i \in 1 .. p /\ j \in 1 .. p /\ l[i] = a[i] /\ l[j] = a[j]
      BY <1>3, <1>8, <2>1
    <3>2. QED BY <1>5, <1>8, <3>1
  <2>2. CASE i > p
    <3>1. /\ i - p \in 1 .. q /\ j - p \in 1 .. q /\ i - p < j - p
          /\ l[i] = b[i - p] /\ l[j] = b[j - p]
      BY <1>3, <1>8, <2>2
    <3>2. QED BY <1>5, <3>1
  <2>3. CASE i <= p /\ j > p
    <3>1. i \in 1 .. p /\ j - p \in 1 .. q /\ l[i] = a[i] /\ l[j] = b[j - p]
      BY <1>3, <1>8, <2>3
    <3>2. Place(l[i]) <= m /\ n <= Place(l[j])
      BY <1>4, <1>6, <3>1
    <3>3. QED BY <1>7, <3>2
  <2>4. QED BY <1>3, <2>1, <2>2, <2>3
<1>9. Increasing(l)
  BY <1>3, <1>8 DEF Increasing
<1>10. \A c \in K \cup L : lo <= Place(c) /\ Place(c) <= hi
  BY <1>6, <1>7
<1>11. QED BY <1>2, <1>9, <1>10 DEF Piece, l

\* A list of one call.
LEMMA PieceOne ==
  \A c \in AnyCalls : \A lo \in Nat : Place(c) = lo => Piece(<<c>>, lo, lo, {c})
<1> SUFFICES ASSUME NEW c \in AnyCalls, NEW lo \in Nat, Place(c) = lo
             PROVE  Piece(<<c>>, lo, lo, {c})
  OBVIOUS
<1>1. <<c>> \in Seq(AnyCalls) /\ Len(<<c>>) = 1 /\ <<c>>[1] = c
  OBVIOUS
<1>2. 1 .. 1 = {1}
  OBVIOUS
<1>3. Calls(<<c>>) = {c} /\ Increasing(<<c>>)
  BY <1>1, <1>2 DEF Calls, Increasing
<1>4. QED BY <1>1, <1>3 DEF Piece

\* A list of no calls.
LEMMA PieceNone == \A lo, hi : Piece(<< >>, lo, hi, {})
BY EmptySeq DEF Piece, Calls, Increasing

\* The same list with wider bounds.
LEMMA PieceWider ==
  \A l, K : \A lo, hi, lo2, hi2 \in Nat :
    Piece(l, lo, hi, K) /\ lo2 <= lo /\ hi <= hi2 => Piece(l, lo2, hi2, K)
BY PlaceIsNat DEF Piece

\* A list of two calls.
LEMMA PieceTwo ==
  \A a, b \in AnyCalls : \A lo, hi \in Nat :
    Place(a) = lo /\ Place(b) = hi /\ lo < hi => Piece(<<a, b>>, lo, hi, {a, b})
<1> SUFFICES ASSUME NEW a \in AnyCalls, NEW b \in AnyCalls, NEW lo \in Nat, NEW hi \in Nat,
                    Place(a) = lo, Place(b) = hi, lo < hi
             PROVE  Piece(<<a, b>>, lo, hi, {a, b})
  OBVIOUS
<1> DEFINE l == <<a, b>>
<1>1. l \in Seq(AnyCalls) /\ Len(l) = 2 /\ l[1] = a /\ l[2] = b /\ Calls(l) = {a, b}
  BY Two
<1> HIDE DEF l
<1>2. Increasing(l)
  BY <1>1 DEF Increasing
<1>3. QED BY <1>1, <1>2 DEF Piece, l

\* A list of three calls.
LEMMA PieceThree ==
  \A a, b, c \in AnyCalls : \A lo, m, hi \in Nat :
    Place(a) = lo /\ Place(b) = m /\ Place(c) = hi /\ lo < m /\ m < hi
      => Piece(<<a, b, c>>, lo, hi, {a, b, c})
<1> SUFFICES ASSUME NEW a \in AnyCalls, NEW b \in AnyCalls, NEW c \in AnyCalls,
                    NEW lo \in Nat, NEW m \in Nat, NEW hi \in Nat,
                    Place(a) = lo, Place(b) = m, Place(c) = hi, lo < m, m < hi
             PROVE  Piece(<<a, b, c>>, lo, hi, {a, b, c})
  OBVIOUS
<1> DEFINE l == <<a, b, c>>
<1>1. /\ l \in Seq(AnyCalls) /\ Len(l) = 3 /\ l[1] = a /\ l[2] = b /\ l[3] = c
      /\ Calls(l) = {a, b, c}
  BY Three
<1> HIDE DEF l
<1>2. Increasing(l)
  BY <1>1 DEF Increasing
<1>3. QED BY <1>1, <1>2 DEF Piece, l

\* A list of six calls.
LEMMA PieceSix ==
  \A a, b, c, d, e, f \in AnyCalls : \A lo, hi \in Nat :
    /\ Place(a) = lo /\ Place(f) = hi /\ Place(a) < Place(b) /\ Place(b) < Place(c)
    /\ Place(c) < Place(d) /\ Place(d) < Place(e) /\ Place(e) < Place(f)
    => Piece(<<a, b, c, d, e, f>>, lo, hi, {a, b, c, d, e, f})
<1> SUFFICES ASSUME NEW a \in AnyCalls, NEW b \in AnyCalls, NEW c \in AnyCalls,
                    NEW d \in AnyCalls, NEW e \in AnyCalls, NEW f \in AnyCalls,
                    NEW lo \in Nat, NEW hi \in Nat, Place(a) = lo, Place(f) = hi,
                    Place(a) < Place(b), Place(b) < Place(c), Place(c) < Place(d),
                    Place(d) < Place(e), Place(e) < Place(f)
             PROVE  Piece(<<a, b, c, d, e, f>>, lo, hi, {a, b, c, d, e, f})
  OBVIOUS
<1> DEFINE l == <<a, b, c, d, e, f>>
<1>1. /\ l \in Seq(AnyCalls) /\ Len(l) = 6 /\ l[1] = a /\ l[2] = b /\ l[3] = c
      /\ l[4] = d /\ l[5] = e /\ l[6] = f
  OBVIOUS
<1> HIDE DEF l
<1>2. 1 .. 6 = {1, 2, 3, 4, 5, 6}
  OBVIOUS
<1>3. Calls(l) = {a, b, c, d, e, f}
  BY <1>1, <1>2 DEF Calls
<1>4. \A x : Place(x) \in Nat
  BY PlaceIsNat
<1>5. Increasing(l)
  BY <1>1, <1>4 DEF Increasing
<1>6. \A x \in {a, b, c, d, e, f} : lo <= Place(x) /\ Place(x) <= hi
  BY <1>4
<1>7. QED BY <1>1, <1>3, <1>5, <1>6 DEF Piece, l

\* The same call on several resources.
LEMMA AllOf ==
  ASSUME NEW op
  PROVE  /\ \A a, b : Life!All(op, <<a, b>>) = <<Life!Call(op, a), Life!Call(op, b)>>
         /\ \A a, b, c :
              Life!All(op, <<a, b, c>>) = <<Life!Call(op, a), Life!Call(op, b), Life!Call(op, c)>>
         /\ \A a, b, c, d, e, f :
              Life!All(op, <<a, b, c, d, e, f>>)
                = <<Life!Call(op, a), Life!Call(op, b), Life!Call(op, c), Life!Call(op, d),
                    Life!Call(op, e), Life!Call(op, f)>>
<1>1. \A a, b : Life!All(op, <<a, b>>) = <<Life!Call(op, a), Life!Call(op, b)>>
  BY DEF Life!All
<1>2. \A a, b, c :
        Life!All(op, <<a, b, c>>) = <<Life!Call(op, a), Life!Call(op, b), Life!Call(op, c)>>
  BY DEF Life!All
<1>3. ASSUME NEW a, NEW b, NEW c, NEW d, NEW e, NEW f
      PROVE  Life!All(op, <<a, b, c, d, e, f>>)
                = <<Life!Call(op, a), Life!Call(op, b), Life!Call(op, c), Life!Call(op, d),
                    Life!Call(op, e), Life!Call(op, f)>>
  BY DEF Life!All
<1>4. QED BY <1>1, <1>2, <1>3

\* The lists of the module.
LEMMA InitPiece ==
  Piece(Life!em8300_init, 1, 5, InitCalls)
<1> DEFINE p == Life!Call("try", "proc")
           c == Life!Call("try", "class")
           d == Life!Call("get", "chrdev")
           m == Life!Call("get", "pci driver")
           v == Life!Call("try", "version")
<1>1. Place(p) = 1 /\ Place(c) = 2 /\ Place(d) = 3 /\ Place(m) = 4 /\ Place(v) = 5
  BY DEF Place, Takers, TakePlace, Life!Call
<1>2. p \in AnyCalls /\ c \in AnyCalls /\ d \in AnyCalls /\ m \in AnyCalls /\ v \in AnyCalls
  BY DEF AnyCalls, ModuleCalls, InitCalls
<1>3. Life!em8300_init = ((<<p>> \o <<c>>) \o <<d, m>>) \o <<v>>
  BY AllOf DEF Life!em8300_init, Life!RegisterDriver, Life!procfs_register_driver,
     Life!udev_register_driver, Life!sysfs_postregister_driver
<1>4. InitCalls = {p, c, d, m, v}
  BY DEF InitCalls
<1> HIDE DEF p, c, d, m, v
<1>5. Piece(<<p>>, 1, 1, {p}) /\ Piece(<<c>>, 2, 2, {c}) /\ Piece(<<v>>, 5, 5, {v})
  BY <1>1, <1>2, PieceOne
<1>6. Piece(<<d, m>>, 3, 4, {d, m})
  BY <1>1, <1>2, PieceTwo
<1>7. Piece(<<p>> \o <<c>>, 1, 2, {p} \cup {c})
  BY <1>5, PieceJoined
<1>8. Piece((<<p>> \o <<c>>) \o <<d, m>>, 1, 4, ({p} \cup {c}) \cup {d, m})
  BY <1>6, <1>7, PieceJoined
<1>9. Piece(((<<p>> \o <<c>>) \o <<d, m>>) \o <<v>>, 1, 5, (({p} \cup {c}) \cup {d, m}) \cup {v})
  BY <1>5, <1>8, PieceJoined
<1>10. (({p} \cup {c}) \cup {d, m}) \cup {v} = InitCalls
  BY <1>4
<1>11. QED BY <1>3, <1>9, <1>10

\* The FIFOs.
LEMMA FifosAre == Life!Fifos = {"mvfifo", "mafifo", "spfifo"}
<1>1. 1 .. 3 = {1, 2, 3}
  OBVIOUS
<1>2. QED BY <1>1 DEF Life!Fifos, Life!FifoNames

\* i2c_exit, call by call.
LEMMA I2cExitIs ==
  Life!I2cExit = <<Life!Call("put", "eeprom"), Life!Call("put", "encoder"),
                   Life!Call("put", "algo 0"), Life!Call("put", "bus 0"),
                   Life!Call("put", "algo 1"), Life!Call("put", "bus 1")>>
<1> DEFINE a == "eeprom"
           b == "encoder"
           c == "algo 0"
           d == "bus 0"
           e == "algo 1"
           f == "bus 1"
<1>1. Life!I2cExit = Life!All("put", <<a, b, c, d, e, f>>)
  BY DEF Life!I2cExit
<1> HIDE DEF a, b, c, d, e, f
<1>2. Life!I2cExit = <<Life!Call("put", a), Life!Call("put", b), Life!Call("put", c),
                       Life!Call("put", d), Life!Call("put", e), Life!Call("put", f)>>
  BY <1>1, AllOf
<1>3. QED BY <1>2 DEF a, b, c, d, e, f

\* em8300_exit: all that the module has is given back.
LEMMA ExitPiece ==
  /\ Life!em8300_exit \in Seq(AnyCalls) /\ Increasing(Life!em8300_exit)
  /\ Calls(Life!em8300_exit) = Puts(ModuleOwn)
<1> DEFINE version == Life!Call("put", "version")
           driver == Life!Call("put", "pci driver")
           chrdev == Life!Call("put", "chrdev")
           proc == Life!Call("put", "proc")
           class == Life!Call("put", "class")
<1>1. /\ Place(version) = 60 /\ Place(driver) = 61 /\ Place(chrdev) = 62 /\ Place(proc) = 63
      /\ Place(class) = 64
  BY DEF Place, Takers, TakePlace, PutPlace, FifoPlace, Life!Call
<1>2. /\ version \in AnyCalls /\ driver \in AnyCalls /\ chrdev \in AnyCalls
      /\ proc \in AnyCalls /\ class \in AnyCalls
  BY FifosAre DEF AnyCalls, ModuleCalls, Puts, ModuleOwn
<1> DEFINE l1 == <<version>>
           l2 == <<driver, chrdev>>
           l3 == l1 \o l2
           l4 == <<proc>>
           l5 == <<class>>
           l6 == l4 \o l5
           l7 == l3 \o l6
<1>3. Life!em8300_exit = l7
  BY AllOf DEF Life!em8300_exit, Life!UnregisterDriver, Life!procfs_unregister_driver,
     Life!udev_unregister_driver, Life!sysfs_preunregister_driver
<1> HIDE DEF version, driver, chrdev, proc, class
<1>4. Piece(l1, 60, 60, {version})
  BY <1>1, <1>2, PieceOne
<1>5. Piece(l2, 61, 62, {driver, chrdev})
  BY <1>1, <1>2, PieceTwo
<1>6. Piece(l3, 60, 62,
            {version} \cup {driver, chrdev})
  BY <1>4, <1>5, PieceJoined
<1>7. Piece(l4, 63, 63, {proc})
  BY <1>1, <1>2, PieceOne
<1>8. Piece(l5, 64, 64, {class})
  BY <1>1, <1>2, PieceOne
<1>9. Piece(l6, 63, 64,
            {proc} \cup {class})
  BY <1>7, <1>8, PieceJoined
<1>10. Piece(l7, 60, 64,
            {version} \cup {driver, chrdev} \cup ({proc} \cup {class}))
  BY <1>6, <1>9, PieceJoined
<1> HIDE DEF l1, l2, l3, l4, l5, l6, l7
<1>11. /\ l7 \in Seq(AnyCalls) /\ Increasing(l7)
      /\ Calls(l7) =
           {version} \cup {driver, chrdev} \cup ({proc} \cup {class})
  BY <1>10 DEF Piece
<1>12. Calls(Life!em8300_exit) = {version, driver, chrdev, proc, class}
  BY <1>3, <1>11
<1>13. /\ version \in Puts(ModuleOwn) /\ driver \in Puts(ModuleOwn)
      /\ chrdev \in Puts(ModuleOwn) /\ proc \in Puts(ModuleOwn) /\ class \in Puts(ModuleOwn)
  BY FifosAre DEF Puts, ModuleOwn,
     version, driver, chrdev, proc, class
<1>14. Puts(ModuleOwn) \subseteq Calls(Life!em8300_exit)
  BY <1>12 DEF Puts, ModuleOwn, version, driver, chrdev, proc, class
<1>15. QED BY <1>3, <1>11, <1>12, <1>13, <1>14

\* em8300_probe.
LEMMA ProbePiece ==
  ASSUME NEW fw, NEW l, l = Life!em8300_probe(fw)
  PROVE  /\ l \in Seq(AnyCalls) /\ Increasing(l) /\ Calls(l) \subseteq ProbeCalls
         /\ Life!Call("get", "em") \in Calls(l) /\ Life!Call("get", "mem") \in Calls(l)
         /\ \A x \in {"subdevice nodes", "alsa"} : Life!Call("try", x) \in Calls(l) => fw # FALSE
<1> DEFINE card == Life!Call("get", "em")
           pci == Life!Call("get", "pci device")
           mem == Life!Call("get", "mem")
           mtrr == Life!Call("mtrr", "mtrr")
           irq == Life!Call("irq", "irq")
           algo0 == Life!Call("get", "algo 0")
           algo1 == Life!Call("get", "algo 1")
           bus1 == Life!Call("hope", "bus 1")
           eeprom == Life!Call("try", "eeprom")
           checksum == Life!Call("try", "checksum")
           bus0 == Life!Call("hope", "bus 0")
           tv == Life!Call("try", "encoder")
           files == Life!Call("try", "card proc")
           node == Life!Call("try", "node")
           model == Life!Call("try", "model and zoom")
           dsp == Life!Call("hope", "dsp")
           nodes == Life!Call("try", "subdevice nodes")
           alsa == Life!Call("try", "alsa")
<1>1. /\ Place(card) = 1 /\ Place(pci) = 2 /\ Place(mem) = 3 /\ Place(mtrr) = 4
      /\ Place(irq) = 5 /\ Place(algo0) = 6 /\ Place(algo1) = 7 /\ Place(bus1) = 8
      /\ Place(eeprom) = 9 /\ Place(checksum) = 10 /\ Place(bus0) = 11 /\ Place(tv) = 12
      /\ Place(files) = 13 /\ Place(node) = 14 /\ Place(model) = 15 /\ Place(dsp) = 16
      /\ Place(nodes) = 50 /\ Place(alsa) = 51
  BY DEF Place, Takers, TakePlace, PutPlace, FifoPlace, Life!Call
<1>2. /\ card \in AnyCalls /\ pci \in AnyCalls /\ mem \in AnyCalls /\ mtrr \in AnyCalls
      /\ irq \in AnyCalls /\ algo0 \in AnyCalls /\ algo1 \in AnyCalls /\ bus1 \in AnyCalls
      /\ eeprom \in AnyCalls /\ checksum \in AnyCalls /\ bus0 \in AnyCalls
      /\ tv \in AnyCalls /\ files \in AnyCalls /\ node \in AnyCalls /\ model \in AnyCalls
      /\ dsp \in AnyCalls /\ nodes \in AnyCalls /\ alsa \in AnyCalls
  BY FifosAre DEF AnyCalls, CardCalls, ProbeCalls
<1> DEFINE l1 == <<card, pci, mem>>
           l2 == <<mtrr, irq>>
           l3 == l1 \o l2
           l4 == <<algo0, algo1>>
           l5 == <<bus1, eeprom>>
           l6 == l4 \o l5
           l7 == <<checksum>>
           l8 == l6 \o l7
           l9 == <<bus0, tv>>
           l10 == l8 \o l9
           l11 == l3 \o l10
           l12 == <<files>>
           l13 == <<node>>
           l14 == l12 \o l13
           l15 == <<model>>
           l16 == l14 \o l15
           l17 == l11 \o l16
           l18 == <<dsp>>
           l19 == l17 \o l18
           l20 == <<nodes>>
           l21 == <<alsa>>
           l22 == l20 \o l21
           l23 == IF fw THEN l22 ELSE << >>
           l24 == l19 \o l23
<1>3. l = l24
  BY AllOf DEF Life!em8300_probe, Life!init_em8300, Life!I2cInit1, Life!I2cInit2,
     Life!RegisterCard, Life!procfs_register_card, Life!udev_register_card,
     Life!sysfs_register_card, Life!EnableCard, Life!udev_enable_card, Life!alsa_enable_card
<1> HIDE DEF card, pci, mem, mtrr, irq, algo0, algo1, bus1, eeprom, checksum, bus0, tv,
           files, node, model, dsp, nodes, alsa
<1>4. Piece(l1, 1, 3, {card, pci, mem})
  BY <1>1, <1>2, PieceThree
<1>5. Piece(l2, 4, 5, {mtrr, irq})
  BY <1>1, <1>2, PieceTwo
<1>6. Piece(l3, 1, 5,
            {card, pci, mem} \cup {mtrr, irq})
  BY <1>4, <1>5, PieceJoined
<1>7. Piece(l4, 6, 7, {algo0, algo1})
  BY <1>1, <1>2, PieceTwo
<1>8. Piece(l5, 8, 9, {bus1, eeprom})
  BY <1>1, <1>2, PieceTwo
<1>9. Piece(l6, 6, 9,
            {algo0, algo1} \cup {bus1, eeprom})
  BY <1>7, <1>8, PieceJoined
<1>10. Piece(l7, 10, 10, {checksum})
  BY <1>1, <1>2, PieceOne
<1>11. Piece(l8, 6, 10,
            {algo0, algo1} \cup {bus1, eeprom} \cup {checksum})
  BY <1>9, <1>10, PieceJoined
<1>12. Piece(l9, 11, 12, {bus0, tv})
  BY <1>1, <1>2, PieceTwo
<1>13. Piece(l10, 6, 12,
            {algo0, algo1} \cup {bus1, eeprom} \cup {checksum} \cup {bus0, tv})
  BY <1>11, <1>12, PieceJoined
<1>14. Piece(l11, 1, 12,
            {card, pci, mem} \cup {mtrr, irq} \cup ({algo0, algo1} \cup {bus1,
            eeprom} \cup {checksum} \cup {bus0, tv}))
  BY <1>6, <1>13, PieceJoined
<1>15. Piece(l12, 13, 13, {files})
  BY <1>1, <1>2, PieceOne
<1>16. Piece(l13, 14, 14, {node})
  BY <1>1, <1>2, PieceOne
<1>17. Piece(l14, 13, 14,
            {files} \cup {node})
  BY <1>15, <1>16, PieceJoined
<1>18. Piece(l15, 15, 15, {model})
  BY <1>1, <1>2, PieceOne
<1>19. Piece(l16, 13, 15,
            {files} \cup {node} \cup {model})
  BY <1>17, <1>18, PieceJoined
<1>20. Piece(l17, 1, 15,
            {card, pci, mem} \cup {mtrr, irq} \cup ({algo0, algo1} \cup {bus1,
            eeprom} \cup {checksum} \cup {bus0, tv}) \cup ({files} \cup {node} \cup {model}))
  BY <1>14, <1>19, PieceJoined
<1>21. Piece(l18, 16, 16, {dsp})
  BY <1>1, <1>2, PieceOne
<1>22. Piece(l19, 1, 16,
            {card, pci, mem} \cup {mtrr, irq} \cup ({algo0, algo1} \cup {bus1,
            eeprom} \cup {checksum} \cup {bus0, tv}) \cup ({files} \cup {node}
            \cup {model}) \cup {dsp})
  BY <1>20, <1>21, PieceJoined
<1>23. Piece(l20, 50, 50, {nodes})
  BY <1>1, <1>2, PieceOne
<1>24. Piece(l21, 51, 51, {alsa})
  BY <1>1, <1>2, PieceOne
<1>25. Piece(l22, 50, 51,
            {nodes} \cup {alsa})
  BY <1>23, <1>24, PieceJoined
<1>26. Piece(l23, 50, 51, (IF fw THEN {nodes} \cup {alsa} ELSE {}))
  BY <1>25, PieceNone
<1>27. Piece(l24, 1, 51,
            {card, pci, mem} \cup {mtrr, irq} \cup ({algo0, algo1} \cup {bus1,
            eeprom} \cup {checksum} \cup {bus0, tv}) \cup ({files} \cup {node}
            \cup {model}) \cup {dsp} \cup (IF fw THEN {nodes} \cup {alsa} ELSE {}))
  BY <1>22, <1>26, PieceJoined
<1> HIDE DEF l1, l2, l3, l4, l5, l6, l7, l8, l9, l10, l11, l12, l13, l14, l15, l16,
     l17, l18, l19, l20, l21, l22, l23, l24
<1>28. /\ l24 \in Seq(AnyCalls) /\ Increasing(l24)
      /\ Calls(l24) =
           {card, pci, mem} \cup {mtrr, irq} \cup ({algo0, algo1} \cup {bus1,
           eeprom} \cup {checksum} \cup {bus0, tv}) \cup ({files} \cup {node}
           \cup {model}) \cup {dsp} \cup (IF fw THEN {nodes} \cup {alsa} ELSE {})
  BY <1>27 DEF Piece
<1>29. Calls(l) = {card, pci, mem, mtrr, irq, algo0, algo1, bus1, eeprom, checksum,
                          bus0, tv, files, node, model, dsp}
                        \cup (IF fw THEN {nodes, alsa} ELSE {})
  BY <1>3, <1>28
<1>30. /\ card \in ProbeCalls /\ pci \in ProbeCalls /\ mem \in ProbeCalls
      /\ mtrr \in ProbeCalls /\ irq \in ProbeCalls /\ algo0 \in ProbeCalls
      /\ algo1 \in ProbeCalls /\ bus1 \in ProbeCalls /\ eeprom \in ProbeCalls
      /\ checksum \in ProbeCalls /\ bus0 \in ProbeCalls /\ tv \in ProbeCalls
      /\ files \in ProbeCalls /\ node \in ProbeCalls /\ model \in ProbeCalls
      /\ dsp \in ProbeCalls /\ nodes \in ProbeCalls /\ alsa \in ProbeCalls
  BY FifosAre DEF ProbeCalls,
     card, pci, mem, mtrr, irq, algo0, algo1, bus1, eeprom, checksum, bus0, tv,
     files, node, model, dsp, nodes, alsa
<1>31. (nodes \in Calls(l) => fw) /\ (alsa \in Calls(l) => fw)
  BY <1>1, <1>29
<1>32. Life!Call("get", "em") \in Calls(l) /\ Life!Call("get", "mem") \in Calls(l)
  BY <1>29 DEF card, mem
<1>33. \A x \in {"subdevice nodes", "alsa"} : Life!Call("try", x) \in Calls(l) => fw # FALSE
  <2>1. \A x \in {"subdevice nodes", "alsa"} : Life!Call("try", x) \in Calls(l) => fw
    BY <1>31 DEF nodes, alsa
  <2>2. fw => fw # FALSE
    OBVIOUS
  <2>3. QED BY ONLY <2>1, <2>2, Zenon
<1>34. QED BY <1>3, <1>28, <1>29, <1>30, <1>32, <1>33

\* em8300_remove: all that a card may have is given back.
LEMMA RemovePiece ==
  ASSUME NEW on, NEW l, l = Life!em8300_remove(on)
  PROVE  /\ l \in Seq(AnyCalls) /\ Increasing(l) /\ Calls(l) \subseteq CloseCalls
         /\ \A x \in CardTaken \ {"subdevice nodes", "alsa"} : Life!Call("put", x) \in Calls(l)
         /\ on = TRUE => \A x \in {"subdevice nodes", "alsa"} : Life!Call("put", x) \in Calls(l)
         /\ \A f \in Life!Fifos : Life!Call("free", f) \in Calls(l)
         /\ Mask \in Calls(l)
<1> DEFINE nodes == Life!Call("put", "subdevice nodes")
           alsa == Life!Call("put", "alsa")
           dsp == Life!Call("put", "dsp")
           files == Life!Call("put", "card proc")
           node == Life!Call("put", "node")
           model == Life!Call("put", "model and zoom")
           mtrr == Life!Call("put", "mtrr")
           checksum == Life!Call("put", "checksum")
           eeprom == Life!Call("put", "eeprom")
           tv == Life!Call("put", "encoder")
           algo0 == Life!Call("put", "algo 0")
           bus0 == Life!Call("put", "bus 0")
           algo1 == Life!Call("put", "algo 1")
           bus1 == Life!Call("put", "bus 1")
           card == Life!Call("mask", "em")
           mvfifo == Life!Call("free", "mvfifo")
           mafifo == Life!Call("free", "mafifo")
           spfifo == Life!Call("free", "spfifo")
           irq == Life!Call("put", "irq")
           mem == Life!Call("put", "mem")
           put_card == Life!Call("put", "em")
           pci == Life!Call("put", "pci device")
<1>1. /\ Place(nodes) = 20 /\ Place(alsa) = 21 /\ Place(dsp) = 22 /\ Place(files) = 23
      /\ Place(node) = 24 /\ Place(model) = 25 /\ Place(mtrr) = 26 /\ Place(checksum) = 27
      /\ Place(eeprom) = 28 /\ Place(tv) = 29 /\ Place(algo0) = 30 /\ Place(bus0) = 31
      /\ Place(algo1) = 32 /\ Place(bus1) = 33 /\ Place(card) = 34 /\ Place(mvfifo) = 36
      /\ Place(mafifo) = 37 /\ Place(spfifo) = 38 /\ Place(irq) = 39 /\ Place(mem) = 40
      /\ Place(put_card) = 41 /\ Place(pci) = 42
  BY DEF Place, Takers, TakePlace, PutPlace, FifoPlace, Life!Call
<1>2. /\ nodes \in AnyCalls /\ alsa \in AnyCalls /\ dsp \in AnyCalls /\ files \in AnyCalls
      /\ node \in AnyCalls /\ model \in AnyCalls /\ mtrr \in AnyCalls
      /\ checksum \in AnyCalls /\ eeprom \in AnyCalls /\ tv \in AnyCalls
      /\ algo0 \in AnyCalls /\ bus0 \in AnyCalls /\ algo1 \in AnyCalls /\ bus1 \in AnyCalls
      /\ card \in AnyCalls /\ mvfifo \in AnyCalls /\ mafifo \in AnyCalls
      /\ spfifo \in AnyCalls /\ irq \in AnyCalls /\ mem \in AnyCalls
      /\ put_card \in AnyCalls /\ pci \in AnyCalls
  BY FifosAre DEF AnyCalls, CardCalls, CloseCalls, Puts, CardTaken, Mask
<1> DEFINE l1 == <<nodes>>
           l2 == <<alsa>>
           l3 == l1 \o l2
           l4 == IF on THEN l3 ELSE << >>
           l5 == <<dsp>>
           l6 == l4 \o l5
           l7 == <<files>>
           l8 == <<node>>
           l9 == l7 \o l8
           l10 == <<model>>
           l11 == l9 \o l10
           l12 == l6 \o l11
           l13 == <<mtrr, checksum>>
           l14 == <<eeprom, tv, algo0, bus0, algo1, bus1>>
           l15 == l13 \o l14
           l16 == <<card>>
           l17 == l15 \o l16
           l18 == <<mvfifo, mafifo, spfifo>>
           l19 == l17 \o l18
           l20 == <<irq, mem, put_card>>
           l21 == l19 \o l20
           l22 == l12 \o l21
           l23 == <<pci>>
           l24 == l22 \o l23
<1>3. Life!UnregisterCard = l11
  BY AllOf DEF Life!UnregisterCard, Life!procfs_unregister_card,
     Life!udev_unregister_card, Life!sysfs_unregister_card
<1>4. Life!I2cExit = l14
  BY I2cExitIs
<1>5. Life!release_em8300 = l21
  BY AllOf, <1>3, <1>4 DEF Life!release_em8300, Life!FifoNames
<1>6. l = l24
  BY <1>3, <1>4, <1>5 DEF Life!em8300_remove, Life!DisableCard, Life!udev_disable_card,
     Life!alsa_disable_card
<1> HIDE DEF nodes, alsa, dsp, files, node, model, mtrr, checksum, eeprom, tv, algo0, bus0,
           algo1, bus1, card, mvfifo, mafifo, spfifo, irq, mem, put_card, pci
<1>7. Piece(l1, 20, 20, {nodes})
  BY <1>1, <1>2, PieceOne
<1>8. Piece(l2, 21, 21, {alsa})
  BY <1>1, <1>2, PieceOne
<1>9. Piece(l3, 20, 21,
            {nodes} \cup {alsa})
  BY <1>7, <1>8, PieceJoined
<1>10. Piece(l4, 20, 21, (IF on THEN {nodes} \cup {alsa} ELSE {}))
  BY <1>9, PieceNone
<1>11. Piece(l5, 22, 22, {dsp})
  BY <1>1, <1>2, PieceOne
<1>12. Piece(l6, 20, 22,
            (IF on THEN {nodes} \cup {alsa} ELSE {}) \cup {dsp})
  BY <1>10, <1>11, PieceJoined
<1>13. Piece(l7, 23, 23, {files})
  BY <1>1, <1>2, PieceOne
<1>14. Piece(l8, 24, 24, {node})
  BY <1>1, <1>2, PieceOne
<1>15. Piece(l9, 23, 24,
            {files} \cup {node})
  BY <1>13, <1>14, PieceJoined
<1>16. Piece(l10, 25, 25, {model})
  BY <1>1, <1>2, PieceOne
<1>17. Piece(l11, 23, 25,
            {files} \cup {node} \cup {model})
  BY <1>15, <1>16, PieceJoined
<1>18. Piece(l12, 20, 25,
            (IF on THEN {nodes} \cup {alsa} ELSE {}) \cup {dsp} \cup ({files}
            \cup {node} \cup {model}))
  BY <1>12, <1>17, PieceJoined
<1>19. Piece(l13, 26, 27, {mtrr, checksum})
  BY <1>1, <1>2, PieceTwo
<1>20. /\ Place(eeprom) = 28 /\ Place(tv) = 29 /\ Place(algo0) = 30
      /\ Place(bus0) = 31 /\ Place(algo1) = 32 /\ Place(bus1) = 33
      /\ eeprom \in AnyCalls /\ tv \in AnyCalls /\ algo0 \in AnyCalls
      /\ bus0 \in AnyCalls /\ algo1 \in AnyCalls /\ bus1 \in AnyCalls
  BY <1>1, <1>2
<1>21. Piece(l14, 28, 33, {eeprom, tv, algo0, bus0, algo1, bus1})
  BY <1>20, PieceSix
<1>22. Piece(l15, 26, 33,
            {mtrr, checksum} \cup {eeprom, tv, algo0, bus0, algo1, bus1})
  BY <1>19, <1>21, PieceJoined
<1>23. Piece(l16, 34, 34, {card})
  BY <1>1, <1>2, PieceOne
<1>24. Piece(l17, 26, 34,
            {mtrr, checksum} \cup {eeprom, tv, algo0, bus0, algo1, bus1} \cup {card})
  BY <1>22, <1>23, PieceJoined
<1>25. Piece(l18, 36, 38, {mvfifo, mafifo, spfifo})
  BY <1>1, <1>2, PieceThree
<1>26. Piece(l19, 26, 38,
            {mtrr, checksum} \cup {eeprom, tv, algo0, bus0, algo1, bus1}
            \cup {card} \cup {mvfifo, mafifo, spfifo})
  BY <1>24, <1>25, PieceJoined
<1>27. Piece(l20, 39, 41, {irq, mem, put_card})
  BY <1>1, <1>2, PieceThree
<1>28. Piece(l21, 26, 41,
            {mtrr, checksum} \cup {eeprom, tv, algo0, bus0, algo1, bus1}
            \cup {card} \cup {mvfifo, mafifo, spfifo} \cup {irq, mem, put_card})
  BY <1>26, <1>27, PieceJoined
<1>29. Piece(l22, 20, 41,
            (IF on THEN {nodes} \cup {alsa} ELSE {}) \cup {dsp} \cup ({files}
            \cup {node} \cup {model}) \cup ({mtrr, checksum} \cup {eeprom, tv, algo0,
            bus0, algo1, bus1} \cup {card} \cup {mvfifo, mafifo, spfifo} \cup {irq, mem, put_card}))
  BY <1>18, <1>28, PieceJoined
<1>30. Piece(l23, 42, 42, {pci})
  BY <1>1, <1>2, PieceOne
<1>31. Piece(l24, 20, 42,
            (IF on THEN {nodes} \cup {alsa} ELSE {}) \cup {dsp} \cup ({files}
            \cup {node} \cup {model}) \cup ({mtrr, checksum} \cup {eeprom, tv, algo0,
            bus0, algo1, bus1} \cup {card} \cup {mvfifo, mafifo, spfifo} \cup {irq,
            mem, put_card}) \cup {pci})
  BY <1>29, <1>30, PieceJoined
<1> HIDE DEF l1, l2, l3, l4, l5, l6, l7, l8, l9, l10, l11, l12, l13, l14, l15, l16,
     l17, l18, l19, l20, l21, l22, l23, l24
<1>32. /\ l24 \in Seq(AnyCalls) /\ Increasing(l24)
      /\ Calls(l24) =
           (IF on THEN {nodes} \cup {alsa} ELSE {}) \cup {dsp} \cup ({files}
           \cup {node} \cup {model}) \cup ({mtrr, checksum} \cup {eeprom, tv, algo0,
           bus0, algo1, bus1} \cup {card} \cup {mvfifo, mafifo, spfifo} \cup {irq, mem,
           put_card}) \cup {pci}
  BY <1>31 DEF Piece
<1>33. Calls(l) = {dsp, files, node, model, mtrr, checksum, eeprom, tv, algo0, bus0,
                          algo1, bus1, card, mvfifo, mafifo, spfifo, irq, mem, put_card, pci}
                        \cup (IF on THEN {nodes, alsa} ELSE {})
  BY <1>6, <1>32
<1>34. /\ nodes \in CloseCalls /\ alsa \in CloseCalls /\ dsp \in CloseCalls
      /\ files \in CloseCalls /\ node \in CloseCalls /\ model \in CloseCalls
      /\ mtrr \in CloseCalls /\ checksum \in CloseCalls /\ eeprom \in CloseCalls
      /\ tv \in CloseCalls /\ algo0 \in CloseCalls /\ bus0 \in CloseCalls
      /\ algo1 \in CloseCalls /\ bus1 \in CloseCalls /\ card \in CloseCalls
      /\ mvfifo \in CloseCalls /\ mafifo \in CloseCalls /\ spfifo \in CloseCalls
      /\ irq \in CloseCalls /\ mem \in CloseCalls /\ put_card \in CloseCalls
      /\ pci \in CloseCalls
  BY FifosAre DEF CloseCalls, Puts, CardTaken, Mask,
     nodes, alsa, dsp, files, node, model, mtrr, checksum, eeprom, tv, algo0, bus0,
     algo1, bus1, card, mvfifo, mafifo, spfifo, irq, mem, put_card, pci
<1>35. \A x \in CardTaken \ {"subdevice nodes", "alsa"} : Life!Call("put", x) \in Calls(l)
  BY <1>33 DEF CardTaken,
     nodes, alsa, dsp, files, node, model, mtrr, checksum, eeprom, tv, algo0, bus0,
     algo1, bus1, card, mvfifo, mafifo, spfifo, irq, mem, put_card, pci
<1>36. on = TRUE => \A x \in {"subdevice nodes", "alsa"} : Life!Call("put", x) \in Calls(l)
  <2>1. on => \A x \in {"subdevice nodes", "alsa"} : Life!Call("put", x) \in Calls(l)
    BY <1>33 DEF nodes, alsa
  <2>2. on = TRUE => on
    OBVIOUS
  <2>3. QED BY ONLY <2>1, <2>2, Zenon
<1>37. \A f \in Life!Fifos : Life!Call("free", f) \in Calls(l)
  BY <1>33, FifosAre DEF mvfifo, mafifo, spfifo
<1>38. Mask \in Calls(l)
  BY <1>33 DEF card, Mask
<1>39. QED BY <1>6, <1>32, <1>33, <1>34, <1>35, <1>36, <1>37, <1>38

\* em8300_require_ucode and em8300_ioctl_init.
LEMMA LoadPiece ==
  ASSUME NEW on, NEW l, l = Life!StartUcode(on)
  PROVE  /\ l \in Seq(AnyCalls) /\ Increasing(l) /\ Calls(l) \subseteq LoadCalls
         /\ Loaded \in Calls(l) /\ NeedVideo \in Calls(l) /\ Mask \in Calls(l)
         /\ \A op \in {"free", "alloc", "init"}, f \in Life!Fifos : Life!Call(op, f) \in Calls(l)
         /\ \A x \in {"subdevice nodes", "alsa"} : Life!Call("try", x) \in Calls(l) => on # FALSE
<1> DEFINE card == Life!Call("mask", "em")
           need_video == Life!Call("need", "video")
           mvfifo == Life!Call("free", "mvfifo")
           mafifo == Life!Call("free", "mafifo")
           spfifo == Life!Call("free", "spfifo")
           alloc_mvfifo == Life!Call("alloc", "mvfifo")
           alloc_mafifo == Life!Call("alloc", "mafifo")
           alloc_spfifo == Life!Call("alloc", "spfifo")
           init_mvfifo == Life!Call("init", "mvfifo")
           init_mafifo == Life!Call("init", "mafifo")
           init_spfifo == Life!Call("init", "spfifo")
           need_audio == Life!Call("need", "audio")
           nodes == Life!Call("try", "subdevice nodes")
           alsa == Life!Call("try", "alsa")
           loaded_card == Life!Call("loaded", "em")
<1>1. /\ Place(card) = 34 /\ Place(need_video) = 35 /\ Place(mvfifo) = 36
      /\ Place(mafifo) = 37 /\ Place(spfifo) = 38 /\ Place(alloc_mvfifo) = 43
      /\ Place(alloc_mafifo) = 44 /\ Place(alloc_spfifo) = 45 /\ Place(init_mvfifo) = 46
      /\ Place(init_mafifo) = 47 /\ Place(init_spfifo) = 48 /\ Place(need_audio) = 49
      /\ Place(nodes) = 50 /\ Place(alsa) = 51 /\ Place(loaded_card) = 52
  BY DEF Place, Takers, TakePlace, PutPlace, FifoPlace, Life!Call
<1>2. /\ card \in AnyCalls /\ need_video \in AnyCalls /\ mvfifo \in AnyCalls
      /\ mafifo \in AnyCalls /\ spfifo \in AnyCalls /\ alloc_mvfifo \in AnyCalls
      /\ alloc_mafifo \in AnyCalls /\ alloc_spfifo \in AnyCalls /\ init_mvfifo \in AnyCalls
      /\ init_mafifo \in AnyCalls /\ init_spfifo \in AnyCalls /\ need_audio \in AnyCalls
      /\ nodes \in AnyCalls /\ alsa \in AnyCalls /\ loaded_card \in AnyCalls
  BY FifosAre DEF AnyCalls, CardCalls, LoadCalls, Mask, NeedVideo, NeedAudio,
     LastCalls, Loaded
<1> DEFINE l1 == <<card, need_video>>
           l2 == <<mvfifo, mafifo, spfifo>>
           l3 == l1 \o l2
           l4 == <<alloc_mvfifo, alloc_mafifo, alloc_spfifo>>
           l5 == l3 \o l4
           l6 == <<init_mvfifo, init_mafifo, init_spfifo>>
           l7 == l5 \o l6
           l8 == <<need_audio>>
           l9 == l7 \o l8
           l10 == <<nodes>>
           l11 == <<alsa>>
           l12 == l10 \o l11
           l13 == IF on THEN l12 ELSE << >>
           l14 == l9 \o l13
           l15 == <<loaded_card>>
           l16 == l14 \o l15
<1>3. l = l16
  BY AllOf DEF Life!StartUcode, Life!FifoNames, Life!EnableCard, Life!udev_enable_card,
     Life!alsa_enable_card
<1> HIDE DEF card, need_video, mvfifo, mafifo, spfifo, alloc_mvfifo, alloc_mafifo,
           alloc_spfifo, init_mvfifo, init_mafifo, init_spfifo, need_audio, nodes, alsa,
           loaded_card
<1>4. Piece(l1, 34, 35, {card, need_video})
  BY <1>1, <1>2, PieceTwo
<1>5. Piece(l2, 36, 38, {mvfifo, mafifo, spfifo})
  BY <1>1, <1>2, PieceThree
<1>6. Piece(l3, 34, 38,
            {card, need_video} \cup {mvfifo, mafifo, spfifo})
  BY <1>4, <1>5, PieceJoined
<1>7. Piece(l4, 43, 45, {alloc_mvfifo, alloc_mafifo, alloc_spfifo})
  BY <1>1, <1>2, PieceThree
<1>8. Piece(l5, 34, 45,
            {card, need_video} \cup {mvfifo, mafifo, spfifo} \cup {alloc_mvfifo,
            alloc_mafifo, alloc_spfifo})
  BY <1>6, <1>7, PieceJoined
<1>9. Piece(l6, 46, 48, {init_mvfifo, init_mafifo, init_spfifo})
  BY <1>1, <1>2, PieceThree
<1>10. Piece(l7, 34, 48,
            {card, need_video} \cup {mvfifo, mafifo, spfifo} \cup {alloc_mvfifo,
            alloc_mafifo, alloc_spfifo} \cup {init_mvfifo, init_mafifo, init_spfifo})
  BY <1>8, <1>9, PieceJoined
<1>11. Piece(l8, 49, 49, {need_audio})
  BY <1>1, <1>2, PieceOne
<1>12. Piece(l9, 34, 49,
            {card, need_video} \cup {mvfifo, mafifo, spfifo} \cup {alloc_mvfifo,
            alloc_mafifo, alloc_spfifo} \cup {init_mvfifo, init_mafifo, init_spfifo} \cup {need_audio})
  BY <1>10, <1>11, PieceJoined
<1>13. Piece(l10, 50, 50, {nodes})
  BY <1>1, <1>2, PieceOne
<1>14. Piece(l11, 51, 51, {alsa})
  BY <1>1, <1>2, PieceOne
<1>15. Piece(l12, 50, 51,
            {nodes} \cup {alsa})
  BY <1>13, <1>14, PieceJoined
<1>16. Piece(l13, 50, 51, (IF on THEN {nodes} \cup {alsa} ELSE {}))
  BY <1>15, PieceNone
<1>17. Piece(l14, 34, 51,
            {card, need_video} \cup {mvfifo, mafifo, spfifo} \cup {alloc_mvfifo,
            alloc_mafifo, alloc_spfifo} \cup {init_mvfifo, init_mafifo,
            init_spfifo} \cup {need_audio} \cup (IF on THEN {nodes} \cup {alsa} ELSE {}))
  BY <1>12, <1>16, PieceJoined
<1>18. Piece(l15, 52, 52, {loaded_card})
  BY <1>1, <1>2, PieceOne
<1>19. Piece(l16, 34, 52,
            {card, need_video} \cup {mvfifo, mafifo, spfifo} \cup {alloc_mvfifo,
            alloc_mafifo, alloc_spfifo} \cup {init_mvfifo, init_mafifo,
            init_spfifo} \cup {need_audio} \cup (IF on THEN {nodes}
            \cup {alsa} ELSE {}) \cup {loaded_card})
  BY <1>17, <1>18, PieceJoined
<1> HIDE DEF l1, l2, l3, l4, l5, l6, l7, l8, l9, l10, l11, l12, l13, l14, l15, l16
<1>20. /\ l16 \in Seq(AnyCalls) /\ Increasing(l16)
      /\ Calls(l16) =
           {card, need_video} \cup {mvfifo, mafifo, spfifo} \cup {alloc_mvfifo,
           alloc_mafifo, alloc_spfifo} \cup {init_mvfifo, init_mafifo,
           init_spfifo} \cup {need_audio} \cup (IF on THEN {nodes}
           \cup {alsa} ELSE {}) \cup {loaded_card}
  BY <1>19 DEF Piece
<1>21. Calls(l) = {card, need_video, mvfifo, mafifo, spfifo, alloc_mvfifo,
                          alloc_mafifo, alloc_spfifo, init_mvfifo, init_mafifo, init_spfifo,
                          need_audio, loaded_card}
                        \cup (IF on THEN {nodes, alsa} ELSE {})
  BY <1>3, <1>20
<1>22. /\ card \in LoadCalls /\ need_video \in LoadCalls /\ mvfifo \in LoadCalls
      /\ mafifo \in LoadCalls /\ spfifo \in LoadCalls /\ alloc_mvfifo \in LoadCalls
      /\ alloc_mafifo \in LoadCalls /\ alloc_spfifo \in LoadCalls
      /\ init_mvfifo \in LoadCalls /\ init_mafifo \in LoadCalls /\ init_spfifo \in LoadCalls
      /\ need_audio \in LoadCalls /\ nodes \in LoadCalls /\ alsa \in LoadCalls
      /\ loaded_card \in LoadCalls
  BY FifosAre DEF LoadCalls, Mask, NeedVideo, NeedAudio,
     LastCalls, Loaded,
     card, need_video, mvfifo, mafifo, spfifo, alloc_mvfifo, alloc_mafifo,
     alloc_spfifo, init_mvfifo, init_mafifo, init_spfifo, need_audio, nodes, alsa,
     loaded_card
<1>23. (nodes \in Calls(l) => on) /\ (alsa \in Calls(l) => on)
  BY <1>1, <1>21
<1>24. Loaded \in Calls(l) /\ NeedVideo \in Calls(l) /\ Mask \in Calls(l)
  BY <1>21 DEF card, need_video, loaded_card, Mask, NeedVideo, Loaded
<1>25. \A op \in {"free", "alloc", "init"}, f \in Life!Fifos : Life!Call(op, f) \in Calls(l)
  BY <1>21, FifosAre DEF mvfifo, mafifo, spfifo, alloc_mvfifo,
     alloc_mafifo, alloc_spfifo, init_mvfifo, init_mafifo, init_spfifo
<1>26. \A x \in {"subdevice nodes", "alsa"} : Life!Call("try", x) \in Calls(l) => on # FALSE
  <2>1. \A x \in {"subdevice nodes", "alsa"} : Life!Call("try", x) \in Calls(l) => on
    BY <1>23 DEF nodes, alsa
  <2>2. on => on # FALSE
    OBVIOUS
  <2>3. QED BY ONLY <2>1, <2>2, Zenon
<1>27. QED BY <1>3, <1>20, <1>21, <1>22, <1>24, <1>25, <1>26

-------------------------------------------------------------------------------
(* Unwinding, and lists without their first calls. *)

\* What is given back when an acquisition fails.
Undone(r) ==
  CASE r = "chrdev" -> {"proc", "class"} [] r = "pci driver" -> {"proc", "class", "chrdev"}
    [] r \in {"pci device", "mem"} -> {"em"} [] r = "irq" -> {"mtrr", "mem", "em"}
    [] OTHER -> {}

\* The list of a failed acquisition (Unwinding) gives that back, in order.
LEMMA UnwindingPiece ==
  ASSUME NEW r
  PROVE  /\ Life!Unwinding(r) \in Seq(AnyCalls) /\ Increasing(Life!Unwinding(r))
         /\ Calls(Life!Unwinding(r)) = Puts(Undone(r))
<1> DEFINE l == Life!Unwinding(r)
           chrdev == Life!Call("put", "chrdev")
           proc == Life!Call("put", "proc")
           class == Life!Call("put", "class")
           mtrr == Life!Call("put", "mtrr")
           mem == Life!Call("put", "mem")
           card == Life!Call("put", "em")
           drivers == <<proc>> \o <<class>>
<1>1. /\ Place(chrdev) = 62 /\ Place(proc) = 63 /\ Place(class) = 64
      /\ Place(mtrr) = 26 /\ Place(mem) = 40 /\ Place(card) = 41
  BY DEF Place, Takers, PutPlace, Life!Call
<1>2. /\ chrdev \in AnyCalls /\ proc \in AnyCalls /\ class \in AnyCalls
      /\ mtrr \in AnyCalls /\ mem \in AnyCalls /\ card \in AnyCalls
  BY DEF AnyCalls, ModuleCalls, CardCalls, CloseCalls, Puts, ModuleOwn, CardTaken
<1>3. /\ r = "chrdev" => l = drivers
      /\ r = "pci driver" => l = <<chrdev>> \o drivers
      /\ r \in {"pci device", "mem"} => l = <<card>>
      /\ r = "irq" => l = Life!All("put", <<"mtrr", "mem", "em">>)
      /\ r \notin {"chrdev", "pci driver", "pci device", "mem", "irq"} => l = << >>
  BY DEF Life!Unwinding, Life!UnregisterDriver, Life!procfs_unregister_driver,
     Life!udev_unregister_driver
<1>4. Life!All("put", <<"mtrr", "mem", "em">>) = <<mtrr, mem, card>>
  BY AllOf
<1>5. /\ r = "chrdev" => Puts(Undone(r)) = {proc} \cup {class}
      /\ r = "pci driver" => Puts(Undone(r)) = {chrdev} \cup ({proc} \cup {class})
      /\ r \in {"pci device", "mem"} => Puts(Undone(r)) = {card}
      /\ r = "irq" => Puts(Undone(r)) = {mtrr, mem, card}
      /\ r \notin {"chrdev", "pci driver", "pci device", "mem", "irq"} => Puts(Undone(r)) = {}
  BY DEF Puts, Undone
<1> HIDE DEF chrdev, proc, class, mtrr, mem, card
<1>6. Piece(<<proc>>, 63, 63, {proc}) /\ Piece(<<class>>, 64, 64, {class})
  BY <1>1, <1>2, PieceOne
<1>7. Piece(<<chrdev>>, 62, 62, {chrdev}) /\ Piece(<<card>>, 41, 41, {card})
  BY <1>1, <1>2, PieceOne
<1>8. Piece(<<mtrr, mem, card>>, 26, 41, {mtrr, mem, card})
  BY <1>1, <1>2, PieceThree
<1>9. Piece(drivers, 63, 64, {proc} \cup {class})
  BY <1>6, PieceJoined
<1>10. Piece(<<chrdev>> \o drivers, 62, 64, {chrdev} \cup ({proc} \cup {class}))
  BY <1>7, <1>9, PieceJoined
<1>11. Piece(<< >>, 0, 0, {})
  BY PieceNone
<1> HIDE DEF drivers, l
<1>12. \E lo, hi \in Nat : Piece(l, lo, hi, Puts(Undone(r)))
  <2>1. CASE r = "chrdev"
    BY <1>3, <1>5, <1>9, <2>1
  <2>2. CASE r = "pci driver"
    BY <1>3, <1>5, <1>10, <2>2
  <2>3. CASE r \in {"pci device", "mem"}
    BY <1>3, <1>5, <1>7, <2>3
  <2>4. CASE r = "irq"
    BY <1>3, <1>4, <1>5, <1>8, <2>4
  <2>5. CASE r \notin {"chrdev", "pci driver", "pci device", "mem", "irq"}
    BY <1>3, <1>5, <1>11, <2>5
  <2>6. QED BY <2>1, <2>2, <2>3, <2>4, <2>5
<1>13. QED BY <1>12 DEF Piece, l

\* A list without its first call, which stands before all others.
LEMMA ListStep ==
  ASSUME NEW l \in Seq(AnyCalls), l # << >>, Increasing(l)
  PROVE  /\ Head(l) \in AnyCalls /\ Tail(l) \in Seq(AnyCalls) /\ Increasing(Tail(l))
         /\ Calls(l) = {Head(l)} \cup Calls(Tail(l))
         /\ \A c \in Calls(Tail(l)) : Place(Head(l)) < Place(c)
<1> DEFINE t == Tail(l)
           n == Len(l)
<1>1. /\ Head(l) \in AnyCalls /\ t \in Seq(AnyCalls) /\ Head(l) = l[1] /\ Len(t) = n - 1
      /\ n \in Nat /\ n > 0
      /\ \A i \in 1 .. n - 1 : t[i] = l[i + 1]
  BY ListLeft
<1>2. Calls(l) = {Head(l)} \cup Calls(t)
  BY CallsLeft
<1>3. \A i, j \in 1 .. n : i < j => Place(l[i]) < Place(l[j])
  BY DEF Increasing
<1> HIDE DEF t, n
<1>4. ASSUME NEW i \in 1 .. n - 1, NEW j \in 1 .. n - 1, i < j
      PROVE  Place(t[i]) < Place(t[j])
  <2>1. i + 1 \in 1 .. n /\ j + 1 \in 1 .. n /\ i + 1 < j + 1
    BY <1>1, <1>4
  <2>2. QED BY <1>1, <1>3, <2>1
<1>5. ASSUME NEW i \in 1 .. n - 1 PROVE Place(Head(l)) < Place(t[i])
  <2>1. i + 1 \in 1 .. n /\ 1 \in 1 .. n /\ 1 < i + 1
    BY <1>1
  <2>2. QED BY <1>1, <1>3, <2>1
<1>6. Increasing(t) /\ \A c \in Calls(t) : Place(Head(l)) < Place(c)
  BY <1>1, <1>4, <1>5 DEF Increasing, Calls
<1>7. QED BY <1>1, <1>2, <1>6 DEF t

\* A list is empty if there are no calls in it.
LEMMA NoCalls ==
  ASSUME NEW l \in Seq(AnyCalls)
  PROVE  Calls(l) = {} <=> l = << >>
<1>1. l = << >> => Calls(l) = {}
  BY EmptySeq DEF Calls
<1>2. l # << >> => Head(l) \in Calls(l)
  BY CallsLeft
<1>3. QED BY <1>1, <1>2

\* The calls of a probe: acquisitions, in the order of what they take.
LEMMA ProbeCallIs ==
  ASSUME NEW c \in ProbeCalls
  PROVE  /\ c = Life!Call(c.op, c.r) /\ c.r \in CardTaken /\ Place(c) = TakePlace(c.r)
         /\ c.op \in Takers
         /\ c.op = "get" => c.r \in {"em", "pci device", "mem", "algo 0", "algo 1"}
         /\ c.op = "try" => c.r \in {"eeprom", "checksum", "encoder", "card proc",
                                     "node", "model and zoom", "subdevice nodes", "alsa"}
         /\ c.op = "hope" => c.r \in {"bus 0", "bus 1", "dsp"}
         /\ c.op = "mtrr" => c.r = "mtrr"
         /\ c.op = "irq" => c.r = "irq"
<1>1. CASE c \in {Life!Call("get", r) : r \in {"em", "pci device", "mem", "algo 0", "algo 1"}}
  <2>1. PICK r \in {"em", "pci device", "mem", "algo 0", "algo 1"} : c = Life!Call("get", r)
    BY <1>1
  <2>2. c.op = "get" /\ c.r = r
    BY <2>1, CallNamed
  <2>3. Place(c) = TakePlace(c.r)
    BY <2>1, <2>2, PlaceOf DEF Takers
  <2>4. QED BY <2>1, <2>2, <2>3 DEF Takers, CardTaken
<1>2. CASE c \in {Life!Call("try", r) : r \in {"eeprom", "checksum", "encoder", "card proc",
                      "node", "model and zoom", "subdevice nodes", "alsa"}}
  <2>1. PICK r \in {"eeprom", "checksum", "encoder", "card proc",
                      "node", "model and zoom", "subdevice nodes", "alsa"} : c = Life!Call("try", r)
    BY <1>2
  <2>2. c.op = "try" /\ c.r = r
    BY <2>1, CallNamed
  <2>3. Place(c) = TakePlace(c.r)
    BY <2>1, <2>2, PlaceOf DEF Takers
  <2>4. QED BY <2>1, <2>2, <2>3 DEF Takers, CardTaken
<1>3. CASE c \in {Life!Call("hope", r) : r \in {"bus 0", "bus 1", "dsp"}}
  <2>1. PICK r \in {"bus 0", "bus 1", "dsp"} : c = Life!Call("hope", r)
    BY <1>3
  <2>2. c.op = "hope" /\ c.r = r
    BY <2>1, CallNamed
  <2>3. Place(c) = TakePlace(c.r)
    BY <2>1, <2>2, PlaceOf DEF Takers
  <2>4. QED BY <2>1, <2>2, <2>3 DEF Takers, CardTaken
<1>4. CASE c \in {Life!Call("mtrr", "mtrr"), Life!Call("irq", "irq")}
  <2>1. /\ c = Life!Call(c.op, c.r)
        /\ (c.op = "mtrr" /\ c.r = "mtrr") \/ (c.op = "irq" /\ c.r = "irq")
    BY <1>4, CallNamed
  <2>2. Place(c) = TakePlace(c.r)
    BY <2>1, PlaceOf DEF Takers
  <2>3. QED BY <2>1, <2>2 DEF Takers, CardTaken
<1>5. QED BY <1>1, <1>2, <1>3, <1>4 DEF ProbeCalls

\* The calls of a removal and of an unwinding: releases, FIFOs freed, the mask.
LEMMA CloseCallIs ==
  ASSUME NEW c \in CloseCalls
  PROVE  /\ c = Life!Call(c.op, c.r) /\ c.op \notin Takers
         /\ \/ c.op = "put" /\ c.r \in CardTaken
            \/ c.op = "free" /\ c.r \in Life!Fifos
            \/ c.op = "mask" /\ c = Mask
<1>1. CASE c \in Puts(CardTaken)
  BY <1>1, CallNamed DEF Puts, Takers
<1>2. CASE c \in {Life!Call("free", f) : f \in Life!Fifos}
  BY <1>2, CallNamed DEF Takers
<1>3. CASE c = Mask
  BY <1>3, CallNamed DEF Mask, Takers
<1>4. QED BY <1>1, <1>2, <1>3 DEF CloseCalls

\* The calls of a load, with their places.
LEMMA LoadCallIs ==
  ASSUME NEW c \in LoadCalls
  PROVE  /\ c = Life!Call(c.op, c.r)
         /\ \/ c.op = "free" /\ c.r \in Life!Fifos /\ Place(c) \in 36 .. 38
            \/ c.op = "alloc" /\ c.r \in Life!Fifos /\ Place(c) \in 43 .. 45
            \/ c.op = "init" /\ c.r \in Life!Fifos /\ Place(c) \in 46 .. 48
            \/ c.op = "mask" /\ c = Mask /\ Place(c) = 34
            \/ c.op = "need" /\ c = NeedVideo /\ c.r = "video" /\ Place(c) = 35
            \/ c.op = "need" /\ c = NeedAudio /\ c.r = "audio" /\ Place(c) = 49
            \/ c.op = "try" /\ c.r = "subdevice nodes" /\ Place(c) = 50
            \/ c.op = "try" /\ c.r = "alsa" /\ Place(c) = 51
            \/ c.op = "loaded" /\ c = Loaded /\ Place(c) = 52
<1> DEFINE G(op) == {Life!Call(op, f) : f \in Life!Fifos}
<1>1. CASE c \in G("free") \cup G("alloc") \cup G("init")
  <2>1. PICK op \in {"free", "alloc", "init"}, f \in Life!Fifos : c = Life!Call(op, f)
    BY <1>1
  <2>2. c.op = op /\ c.r = f
    BY <2>1, CallNamed
  <2>3. FifoPlace(f) \in 0 .. 2
    BY PlaceIsNat
  <2>4. /\ op = "free" => Place(c) = 36 + FifoPlace(f)
        /\ op = "alloc" => Place(c) = 43 + FifoPlace(f)
        /\ op = "init" => Place(c) = 46 + FifoPlace(f)
    BY <2>1, PlaceOf
  <2>5. CASE op = "free"
    BY <2>1, <2>2, <2>3, <2>4, <2>5
  <2>6. CASE op = "alloc"
    BY <2>1, <2>2, <2>3, <2>4, <2>6
  <2>7. CASE op = "init"
    BY <2>1, <2>2, <2>3, <2>4, <2>7
  <2>8. QED BY <2>1, <2>5, <2>6, <2>7
<1>2. CASE c \in {Mask, NeedVideo, NeedAudio, Life!Call("try", "subdevice nodes")} \cup LastCalls
  <2>1. /\ Place(Mask) = 34 /\ Place(NeedVideo) = 35 /\ Place(NeedAudio) = 49
        /\ Place(Loaded) = 52
    BY DEF Mask, NeedVideo, NeedAudio, Loaded, Place, Takers, Life!Call
  <2>2. /\ Place(Life!Call("try", "subdevice nodes")) = 50
        /\ Place(Life!Call("try", "alsa")) = 51
    BY DEF Place, Takers, TakePlace, Life!Call
  <2>3. /\ Mask.op = "mask" /\ Mask.r = "em" /\ NeedVideo.op = "need" /\ NeedVideo.r = "video"
        /\ NeedAudio.op = "need" /\ NeedAudio.r = "audio"
        /\ Loaded.op = "loaded" /\ Loaded.r = "em"
    BY CallNamed DEF Mask, NeedVideo, NeedAudio, Loaded
  <2>4. /\ Mask = Life!Call(Mask.op, Mask.r) /\ Loaded = Life!Call(Loaded.op, Loaded.r)
        /\ NeedVideo = Life!Call(NeedVideo.op, NeedVideo.r)
        /\ NeedAudio = Life!Call(NeedAudio.op, NeedAudio.r)
    BY <2>3 DEF Mask, NeedVideo, NeedAudio, Loaded
  <2>5. CASE c = Life!Call("try", "subdevice nodes")
    <3>1. c.op = "try" /\ c.r = "subdevice nodes"
      BY <2>5 DEF Life!Call
    <3>2. c = Life!Call(c.op, c.r) /\ Place(c) = 50
      BY <2>2, <2>5, <3>1
    <3>3. QED BY <3>1, <3>2
  <2>6. CASE c = Life!Call("try", "alsa")
    <3>1. c.op = "try" /\ c.r = "alsa"
      BY <2>6 DEF Life!Call
    <3>2. c = Life!Call(c.op, c.r) /\ Place(c) = 51
      BY <2>2, <2>6, <3>1
    <3>3. QED BY <3>1, <3>2
  <2>7. CASE c = Mask
    BY <2>1, <2>3, <2>4, <2>7
  <2>8. CASE c = NeedVideo \/ c = NeedAudio
    BY <2>1, <2>3, <2>4, <2>8
  <2>9. CASE c = Loaded
    BY <2>1, <2>3, <2>4, <2>9
  <2>10. QED BY <1>2, <2>5, <2>6, <2>7, <2>8, <2>9 DEF LastCalls
<1>3. LoadCalls = G("free") \cup G("alloc") \cup G("init")
        \cup ({Mask, NeedVideo, NeedAudio, Life!Call("try", "subdevice nodes")} \cup LastCalls)
  BY DEF LoadCalls
<1>4. QED BY <1>1, <1>2, <1>3

\* The calls of the module.
LEMMA ModuleCallIs ==
  /\ \A c \in InitCalls :
       /\ c = Life!Call(c.op, c.r) /\ c.op \in {"get", "try"} /\ c.r \in ModuleOwn
       /\ Place(c) = TakePlace(c.r)
       /\ c.op = "get" => c.r \in {"chrdev", "pci driver"}
       /\ c.op = "try" => c.r \in {"proc", "class", "version"}
  /\ \A c \in Puts(ModuleOwn) :
       /\ c = Life!Call(c.op, c.r) /\ c.op = "put" /\ c.r \in ModuleOwn
       /\ Place(c) = PutPlace(c.r)
<1>1. ASSUME NEW c \in InitCalls
      PROVE  /\ c = Life!Call(c.op, c.r) /\ c.op \in {"get", "try"} /\ c.r \in ModuleOwn
             /\ Place(c) = TakePlace(c.r)
             /\ c.op = "get" => c.r \in {"chrdev", "pci driver"}
             /\ c.op = "try" => c.r \in {"proc", "class", "version"}
  <2>1. \/ c.op = "try" /\ c.r \in {"proc", "class", "version"}
        \/ c.op = "get" /\ c.r \in {"chrdev", "pci driver"}
    <3>1. CASE c \in {Life!Call("try", r) : r \in {"proc", "class", "version"}}
      <4>1. PICK r \in {"proc", "class", "version"} : c = Life!Call("try", r)
        BY <3>1
      <4>2. c.op = "try" /\ c.r = r
        BY <4>1, CallNamed
      <4>3. QED BY <4>2
    <3>2. CASE c \in {Life!Call("get", r) : r \in {"chrdev", "pci driver"}}
      <4>1. PICK r \in {"chrdev", "pci driver"} : c = Life!Call("get", r)
        BY <3>2
      <4>2. c.op = "get" /\ c.r = r
        BY <4>1, CallNamed
      <4>3. QED BY <4>2
    <3>3. QED BY <3>1, <3>2 DEF InitCalls
  <2>2. c = Life!Call(c.op, c.r)
    BY CallNamed DEF InitCalls
  <2>3. Place(c) = TakePlace(c.r)
    BY <2>1, <2>2, PlaceOf DEF Takers
  <2>4. QED BY <2>1, <2>2, <2>3 DEF ModuleOwn
<1>2. ASSUME NEW c \in Puts(ModuleOwn)
      PROVE  /\ c = Life!Call(c.op, c.r) /\ c.op = "put" /\ c.r \in ModuleOwn
             /\ Place(c) = PutPlace(c.r)
  BY CallNamed, PlaceOf DEF Puts
<1>3. QED BY <1>1, <1>2

\* Of the calls C, the first is made and D are left.
FirstOf(C, c, D) == C = {c} \cup D /\ \A d \in D : Place(c) < Place(d)

\* The first call is none of those left.
LEMMA FirstIs ==
  ASSUME NEW C, NEW c, NEW D, FirstOf(C, c, D)
  PROVE  /\ c \in C /\ c \notin D /\ D \subseteq C
         /\ \A d \in C : d = c \/ d \in D
BY PlaceIsNat DEF FirstOf

\* Which calls are of one kind only.
LEMMA KindsApart ==
  /\ \A d \in ProbeCalls : d \notin CloseCalls /\ d # Loaded
  /\ Loaded \notin CloseCalls /\ Loaded \in LoadCalls
  /\ \A d \in LoadCalls : Place(d) \in 34 .. 52
<1>1. Loaded.op = "loaded"
  BY CallNamed DEF Loaded
<1>2. \A d \in ProbeCalls : d \notin CloseCalls /\ d # Loaded
  BY <1>1, ProbeCallIs, CloseCallIs DEF Takers
<1>3. Loaded \notin CloseCalls
  BY <1>1, CloseCallIs
<1>4. Loaded \in LoadCalls
  BY DEF LoadCalls, LastCalls
<1>5. ASSUME NEW d \in LoadCalls PROVE Place(d) \in 34 .. 52
  <2>1. \/ Place(d) \in 36 .. 38 \/ Place(d) \in 43 .. 45 \/ Place(d) \in 46 .. 48
        \/ Place(d) = 34 \/ Place(d) = 35 \/ Place(d) = 49 \/ Place(d) = 50
        \/ Place(d) = 51 \/ Place(d) = 52
    BY LoadCallIs, Zenon
  <2>2. QED BY <2>1
<1>6. QED BY <1>2, <1>3, <1>4, <1>5

\* What kind of list it is stays so.
LEMMA KindLeft ==
  ASSUME NEW C, NEW c, NEW D, FirstOf(C, c, D)
  PROVE  /\ Probing(C) => /\ c \in ProbeCalls /\ (D = {} \/ Probing(D))
                          /\ ~Loading(D) /\ ~Closing(D) /\ ~Loading(C) /\ ~Closing(C)
         /\ Closing(C) => /\ c \in CloseCalls /\ (D = {} \/ Closing(D))
                          /\ ~Loading(D) /\ ~Probing(D) /\ ~Loading(C) /\ ~Probing(C)
         /\ Loading(C) => /\ c \in LoadCalls
                          /\ (c = Loaded /\ D = {}) \/ (c # Loaded /\ Loading(D))
                          /\ ~Probing(D) /\ ~Closing(D) /\ ~Probing(C) /\ ~Closing(C)
<1>1. c \in C /\ c \notin D /\ D \subseteq C
  BY FirstIs
<1>2. \A d \in ProbeCalls : d \notin CloseCalls /\ d # Loaded
  BY KindsApart
<1>3. Loaded \notin CloseCalls
  BY KindsApart
<1>4. \A d \in LoadCalls : Place(d) \in 34 .. 52
  BY KindsApart
<1>5. Place(Loaded) = 52
  BY DEF Loaded, Place, Takers, Life!Call
<1>6. c = Loaded /\ D \subseteq LoadCalls => D = {}
  BY <1>4, <1>5, PlaceIsNat DEF FirstOf
<1>7. c # Loaded /\ Loaded \in C => Loaded \in D
  BY FirstIs
<1>8. QED BY <1>1, <1>2, <1>3, <1>6, <1>7 DEF Probing, Closing, Loading

\* A step of a probe that does not end it badly.
LEMMA ProbeStep ==
  ASSUME NEW C, NEW c, NEW D, NEW h, NEW k, NEW ab, NEW fw, NEW uc,
         FirstOf(C, c, D), Probing(C), CardOK(C, h, ab, fw, uc),
         h \subseteq k, k \subseteq h \cup {c.r},
         c.op = "get" => c.r \in k
  PROVE  CardOK(D, k, ab, fw, uc)
<1>1. c \in C /\ c \notin D /\ D \subseteq C /\ \A d \in C : d = c \/ d \in D
  BY FirstIs
<1>2. /\ c \in ProbeCalls /\ (D = {} \/ Probing(D))
      /\ ~Loading(D) /\ ~Closing(D)
  BY KindLeft
<1>3. ProbeOK(C, h, ab, fw) /\ EnabledOK(C, h, fw, uc)
  BY DEF CardOK
<1>4. /\ \A d \in C, x \in h \cap CardOwn : Excused(x, ab) \/ TakePlace(x) < Place(d)
      /\ \A x \in {"em", "mem"} : Life!Call("get", x) \in C \/ x \in h
      /\ \A x \in {"subdevice nodes", "alsa"} : Life!Call("try", x) \in C => fw
  BY <1>3 DEF ProbeOK
<1>5. c = Life!Call(c.op, c.r) /\ Place(c) = TakePlace(c.r)
  BY <1>2, ProbeCallIs
<1>6. \A x \in {"em", "mem"} : Life!Call("get", x) \in D \/ x \in k
  <2>1. ASSUME NEW x \in {"em", "mem"}, Life!Call("get", x) = c
        PROVE  x \in k
    BY <2>1, CallNamed
  <2>2. QED BY <1>1, <1>4, <2>1
<1>7. \A d \in D, x \in k \cap CardOwn : Excused(x, ab) \/ TakePlace(x) < Place(d)
  BY <1>1, <1>4, <1>5 DEF FirstOf
<1>8. ProbeOK(D, k, ab, fw)
  BY <1>1, <1>4, <1>6, <1>7 DEF ProbeOK
<1>9. D = {} => "em" \in k /\ "mem" \in k
  BY <1>6
<1>10. ShutOK(D, k, ab)
  BY <1>2, <1>9 DEF ShutOK, Shut
<1>11. EnabledOK(D, k, fw, uc)
  <2>1. ASSUME NEW x \in {"subdevice nodes", "alsa"}, x \in k PROVE fw \/ uc
    <3>1. CASE x \in h
      <4>1. Loaded \notin C
        BY KindsApart DEF Probing
      <4>2. QED BY <1>3, <3>1, <4>1 DEF EnabledOK
    <3>2. CASE x = c.r
      <4>1. c.op = "try"
        BY <1>2, <3>2, ProbeCallIs DEF Takers
      <4>2. QED BY <1>1, <1>4, <1>5, <3>2, <4>1
    <3>3. QED BY <2>1, <3>1, <3>2
  <2>2. QED BY <2>1 DEF EnabledOK
<1>12. QED BY <1>2, <1>8, <1>9, <1>10, <1>11 DEF CardOK, LoadOK

-------------------------------------------------------------------------------
(* A load and a removal, call by call. *)

\* Where the calls of a load stand.
LEMMA LoadPlaces ==
  /\ Place(NeedVideo) = 35 /\ Place(NeedAudio) = 49 /\ Place(Mask) = 34 /\ Place(Loaded) = 52
  /\ \A f : /\ Place(Life!Call("free", f)) \in 36 .. 38
            /\ Place(Life!Call("alloc", f)) \in 43 .. 45
            /\ Place(Life!Call("init", f)) \in 46 .. 48
<1>1. /\ Place(NeedVideo) = 35 /\ Place(NeedAudio) = 49 /\ Place(Mask) = 34
      /\ Place(Loaded) = 52
  BY DEF NeedVideo, NeedAudio, Mask, Loaded, Place, Takers, Life!Call
<1>2. ASSUME NEW f
      PROVE  /\ Place(Life!Call("free", f)) \in 36 .. 38
             /\ Place(Life!Call("alloc", f)) \in 43 .. 45
             /\ Place(Life!Call("init", f)) \in 46 .. 48
  BY PlaceOf, PlaceIsNat
<1>3. QED BY <1>1, <1>2

\* After the subdevice nodes, a load only has its last calls to make.
LEMMA LastOfLoad == \A d \in LoadCalls : Place(d) > 50 => d \in LastCalls
<1> SUFFICES ASSUME NEW d \in LoadCalls, Place(d) > 50
             PROVE  d \in LastCalls
  OBVIOUS
<1>1. \/ Place(d) \in 36 .. 38 \/ Place(d) \in 43 .. 45 \/ Place(d) \in 46 .. 48
      \/ Place(d) = 34 \/ Place(d) = 35 \/ Place(d) = 49 \/ Place(d) = 50
      \/ d.op = "try" /\ d.r = "alsa" /\ d = Life!Call(d.op, d.r)
      \/ d = Loaded
  BY LoadCallIs, Zenon
<1>2. d = Loaded \/ (d.op = "try" /\ d.r = "alsa" /\ d = Life!Call(d.op, d.r))
  BY <1>1
<1>3. QED BY <1>2 DEF LastCalls

\* What is what.
LEMMA OwnersApart ==
  /\ \A f \in Life!Fifos : /\ f \notin Buffers /\ f \notin CardTaken /\ f \notin ModuleOwn
                           /\ Life!Buffer(f) \in Buffers
                           /\ PartsOf(f) \subseteq {f} \cup Buffers /\ f \in PartsOf(f)
                           /\ \A g \in Life!Fifos : f # g => PartsOf(f) \cap PartsOf(g) = {}
  /\ \A x \in Buffers : x \notin CardTaken /\ x \notin ModuleOwn
                        /\ \E f \in Life!Fifos : x \in PartsOf(f)
  /\ \A x \in CardTaken : x \notin ModuleOwn
<1>1. \A f \in Life!Fifos : f \notin Buffers /\ f \notin CardTaken /\ f \notin ModuleOwn
  BY FifosAre DEF Buffers, CardTaken, ModuleOwn
<1>2. /\ PartsOf("mvfifo") = {"mvfifo", "mvbuf"} /\ Life!Buffer("mvfifo") = "mvbuf"
      /\ PartsOf("mafifo") = {"mafifo", "mabuf", "prep"} /\ Life!Buffer("mafifo") = "mabuf"
      /\ PartsOf("spfifo") = {"spfifo", "spbuf"} /\ Life!Buffer("spfifo") = "spbuf"
  BY DEF PartsOf, Life!Buffer
<1>3. ASSUME NEW f \in Life!Fifos
      PROVE  /\ Life!Buffer(f) \in Buffers
             /\ PartsOf(f) \subseteq {f} \cup Buffers /\ f \in PartsOf(f)
             /\ \A g \in Life!Fifos : f # g => PartsOf(f) \cap PartsOf(g) = {}
  BY <1>2, FifosAre DEF Buffers
<1>4. ASSUME NEW x \in Buffers
      PROVE  x \notin CardTaken /\ x \notin ModuleOwn /\ \E f \in Life!Fifos : x \in PartsOf(f)
  BY <1>2, FifosAre DEF Buffers, CardTaken, ModuleOwn
<1>5. \A x \in CardTaken : x \notin ModuleOwn
  BY DEF CardTaken, ModuleOwn
<1>6. QED BY <1>1, <1>3, <1>4, <1>5

\* A step of a load that neither fails nor ends it.
LEMMA LoadStep ==
  ASSUME NEW C, NEW c, NEW D, NEW h, NEW k, NEW ab, NEW fw, NEW uc,
         FirstOf(C, c, D), Loading(C), c # Loaded, CardOK(C, h, ab, fw, uc),
         h \subseteq k \cup (IF c.op = "free" THEN PartsOf(c.r) ELSE {}),
         k \subseteq h \cup Buffers \cup (IF c.op \in {"alloc", "try"} THEN {c.r} ELSE {}),
         c.op = "free" => c.r \notin k,
         c.op = "alloc" => c.r \in k
  PROVE  CardOK(D, k, ab, fw, uc)
<1>1. c \in C /\ c \notin D /\ D \subseteq C /\ \A d \in C : d = c \/ d \in D
  BY FirstIs
<1>2. c \in LoadCalls /\ Loading(D) /\ ~Probing(D) /\ ~Closing(D)
  BY KindLeft
<1>3. LoadOK(C, h, fw, uc) /\ EnabledOK(C, h, fw, uc)
  BY DEF CardOK
<1>4. /\ {"em", "mem"} \subseteq h
      /\ NeedVideo \in C => \A f \in Life!Fifos : Life!Call("free", f) \in C
      /\ \A f \in Life!Fifos :
           /\ Life!Call("free", f) \in C => Life!Call("alloc", f) \in C
           /\ Life!Call("init", f) \in C => f \in h \/ Life!Call("alloc", f) \in C
           /\ Life!Call("alloc", f) \in C => f \notin h \/ Life!Call("free", f) \in C
      /\ \A x \in {"subdevice nodes", "alsa"} :
           Life!Call("try", x) \in C => x \notin h /\ ~fw /\ ~uc
  BY <1>3 DEF LoadOK
<1>5. \A d \in D : Place(c) < Place(d) /\ Place(c) \in Nat /\ Place(d) \in Nat
  BY PlaceIsNat DEF FirstOf
<1>6. c = Life!Call(c.op, c.r)
  BY <1>2, LoadCallIs
<1>7. c.op \in {"free", "alloc", "init"} => c.r \in Life!Fifos
  BY <1>2, LoadCallIs
<1>8. /\ c.op = "try" => c.r \in {"subdevice nodes", "alsa"}
      /\ c.op = "try" => Place(c) >= 50
  <2>1. c.op = "try" => c.r \in {"subdevice nodes", "alsa"}
    BY <1>2, LoadCallIs
  <2>2. c.op = "try" => Place(c) = 50 \/ Place(c) = 51
    BY <1>2, LoadCallIs
  <2>3. c.op = "try" => Place(c) >= 50
    BY ONLY <2>2
  <2>4. QED BY <2>1, <2>3
<1>9. {"em", "mem"} \subseteq k
  BY <1>4, <1>7, OwnersApart DEF CardTaken
<1>10. NeedVideo \in D => \A f \in Life!Fifos : Life!Call("free", f) \in D
  <2>1. ASSUME NeedVideo \in D, NEW f, c = Life!Call("free", f) PROVE FALSE
    BY <1>5, <2>1, LoadPlaces
  <2>2. QED BY <1>1, <1>4, <2>1
<1>11. ASSUME NEW f \in Life!Fifos
       PROVE  /\ Life!Call("free", f) \in D => Life!Call("alloc", f) \in D
              /\ Life!Call("init", f) \in D => f \in k \/ Life!Call("alloc", f) \in D
              /\ Life!Call("alloc", f) \in D => f \notin k \/ Life!Call("free", f) \in D
  <2>1. Life!Call("free", f) \in C /\ Life!Call("alloc", f) # c => Life!Call("alloc", f) \in D
    BY <1>1, <1>4, <1>11
  <2>2. Life!Call("free", f) \in D => Life!Call("alloc", f) # c
    BY <1>5, LoadPlaces
  <2>3. c = Life!Call("alloc", f) => c.op = "alloc" /\ c.r = f
    BY CallNamed
  <2>4. c = Life!Call("free", f) => c.op = "free" /\ c.r = f /\ Life!Call("alloc", f) # c
    BY CallNamed
  <2>5. ASSUME f \in h, f \notin k PROVE c = Life!Call("free", f)
    <3>1. c.op = "free" /\ f \in PartsOf(c.r)
      BY <2>5
    <3>2. c.r \in Life!Fifos /\ c.r = f
      BY <1>7, <1>11, <3>1, OwnersApart
    <3>3. QED BY <1>6, <3>1, <3>2
  <2>6. ASSUME f \notin h, f \in k PROVE c = Life!Call("alloc", f)
    <3>1. f \notin Buffers /\ f \notin {"subdevice nodes", "alsa"}
      BY <1>11, OwnersApart DEF CardTaken
    <3>2. c.op \in {"alloc", "try"} /\ c.r = f
      BY <2>6, <3>1
    <3>3. c.op = "alloc"
      BY <1>8, <3>1, <3>2
    <3>4. QED BY <1>6, <3>2, <3>3
  <2>7. Life!Call("init", f) \in D => f \in k \/ Life!Call("alloc", f) \in D
    BY <1>1, <1>4, <1>11, <2>1, <2>3, <2>4, <2>5
  <2>8. Life!Call("alloc", f) \in D => f \notin k \/ Life!Call("free", f) \in D
    BY <1>1, <1>4, <1>11, <2>4, <2>6
  <2>9. QED BY <1>1, <2>1, <2>2, <2>7, <2>8
<1>12. ASSUME NEW x \in {"subdevice nodes", "alsa"}, x \notin h, x \in k
       PROVE  c = Life!Call("try", x) /\ Place(c) >= 50
  <2>1. x \notin Buffers /\ x \notin Life!Fifos
    BY <1>12, FifosAre DEF Buffers
  <2>2. c.op \in {"alloc", "try"} /\ c.r = x
    BY <1>12, <2>1
  <2>3. c.op = "try"
    BY <1>7, <2>1, <2>2
  <2>4. QED BY <1>6, <1>8, <2>2, <2>3
<1>13. \A x \in {"subdevice nodes", "alsa"} :
           Life!Call("try", x) \in D => x \notin k /\ ~fw /\ ~uc
  BY <1>1, <1>4, <1>12
<1>14. LoadOK(D, k, fw, uc)
  BY <1>9, <1>10, <1>11, <1>13 DEF LoadOK
<1>15. EnabledOK(D, k, fw, uc)
  <2>1. ASSUME NEW x, x \in {"subdevice nodes", "alsa"}, x \in k, x \notin h
        PROVE  D \subseteq LastCalls
    <3>1. Place(c) >= 50
      BY <1>12, <2>1
    <3>2. \A d \in D : Place(d) > 50
      BY <1>5, <3>1, PlaceIsNat
    <3>3. \A d \in D : d \in LoadCalls
      BY <1>2 DEF Loading
    <3>4. QED BY ONLY <3>2, <3>3, LastOfLoad, Zenon
  <2>2. QED BY <1>1, <1>2, <1>3, <2>1 DEF EnabledOK, Loading
<1>16. D # {}
  BY <1>2 DEF Loading
<1>17. QED BY <1>2, <1>14, <1>15, <1>16 DEF CardOK, ProbeOK, ShutOK, Shut

\* A step of a removal or of an unwinding.
LEMMA CloseStep ==
  ASSUME NEW C, NEW c, NEW D, NEW h, NEW k, NEW ab, NEW fw, NEW uc,
         FirstOf(C, c, D), Closing(C), CardOK(C, h, ab, fw, uc), k \subseteq h,
         c.op = "put" => c.r \notin k,
         c.op = "free" => PartsOf(c.r) \cap k = {}
  PROVE  CardOK(D, k, ab, fw, uc) /\ Shut(D, k)
<1>1. c \in C /\ c \notin D /\ D \subseteq C /\ \A d \in C : d = c \/ d \in D
  BY FirstIs
<1>2. (D = {} \/ Closing(D)) /\ ~Loading(D) /\ ~Probing(D) /\ ~Loading(C)
  BY KindLeft
<1>3. /\ \A x \in h \cap CardOwn : Excused(x, ab) \/ Covered(x, C)
      /\ EnabledOK(C, h, fw, uc)
  BY DEF CardOK, ShutOK, Shut
<1>4. ASSUME NEW x, x \in k \cap CardOwn PROVE Excused(x, ab) \/ Covered(x, D)
  <2>1. Excused(x, ab) \/ Covered(x, C)
    BY <1>3, <1>4
  <2>2. ASSUME Life!Call("put", x) \in C PROVE Life!Call("put", x) \in D
    <3>1. Life!Call("put", x) # c
      BY <1>4, CallNamed
    <3>2. QED BY <1>1, <2>2, <3>1
  <2>3. ASSUME NEW f \in Life!Fifos, Life!Call("free", f) \in C, x \in PartsOf(f)
        PROVE  Life!Call("free", f) \in D
    <3>1. Life!Call("free", f) # c
      BY <1>4, <2>3, CallNamed
    <3>2. QED BY <1>1, <2>3, <3>1
  <2>4. QED BY <2>1, <2>2, <2>3 DEF Covered
<1>5. "em" \in k => D # {}
  <2>1. "em" \in CardOwn /\ ~Excused("em", ab) /\ ~Covered("em", {})
    BY DEF CardOwn, CardTaken, Excused, Covered
  <2>2. QED BY <1>4, <2>1
<1>6. Shut(D, k)
  BY <1>2, <1>5 DEF Shut
<1>7. ShutOK(D, k, ab)
  BY <1>4 DEF ShutOK
<1>8. EnabledOK(D, k, fw, uc)
  <2>1. Loaded \notin C
    BY KindsApart DEF Closing
  <2>2. QED BY <1>3, <2>1 DEF EnabledOK
<1>9. QED BY <1>2, <1>5, <1>6, <1>7, <1>8 DEF CardOK, ProbeOK, LoadOK

-------------------------------------------------------------------------------
(* What fails. *)

\* What a probe takes first.
LEMMA TakenFirst ==
  /\ TakePlace("em") = 1 /\ TakePlace("pci device") = 2 /\ TakePlace("mem") = 3
  /\ TakePlace("mtrr") = 4 /\ TakePlace("irq") = 5
  /\ \A x : x \in CardOwn /\ TakePlace(x) < 5 => x \in {"em", "pci device", "mem", "mtrr"}
<1>1. /\ TakePlace("em") = 1 /\ TakePlace("pci device") = 2 /\ TakePlace("mem") = 3
      /\ TakePlace("mtrr") = 4 /\ TakePlace("irq") = 5
  BY DEF TakePlace
<1>2. ASSUME NEW x, x \in CardOwn, x \notin {"em", "pci device", "mem", "mtrr"}
      PROVE  TakePlace(x) \in {5, 6, 7, 8, 9, 10, 11, 12, 13, 14, 15, 16, 50, 51, 100}
  BY <1>2, FifosAre DEF TakePlace, CardOwn, CardTaken, Buffers
<1>3. ASSUME NEW x, x \in CardOwn, TakePlace(x) < 5
      PROVE  x \in {"em", "pci device", "mem", "mtrr"}
  <2>1. ~(TakePlace(x) \in {5, 6, 7, 8, 9, 10, 11, 12, 13, 14, 15, 16, 50, 51, 100})
    <3>1. TakePlace(x) < 5
      BY <1>3, Zenon
    <3>2. QED BY ONLY <3>1
  <2> DEFINE late == TakePlace(x) \in {5, 6, 7, 8, 9, 10, 11, 12, 13, 14, 15, 16, 50, 51, 100}
             early == x \in {"em", "pci device", "mem", "mtrr"}
  <2>2. x \notin {"em", "pci device", "mem", "mtrr"} => late
    BY <1>2, <1>3, Zenon
  <2>3. ~late
    BY <2>1
  <2>4. (~early) <=> x \notin {"em", "pci device", "mem", "mtrr"}
    OBVIOUS
  <2> HIDE DEF late, early
  <2>5. early
    BY <2>2, <2>3, <2>4
  <2>6. QED BY <2>5 DEF early
<1>4. QED BY <1>1, <1>3, Zenon

\* A probe that fails: what it has taken is given back, but for the PCI device.
LEMMA FailedProbe ==
  ASSUME NEW C, NEW c \in C, NEW h, NEW ab, NEW fw, NEW uc,
         Probing(C), CardOK(C, h, ab, fw, uc), c.op \in {"get", "irq"},
         c.r \notin Life!Unchecked
  PROVE  CardOK(Puts(Undone(c.r)), h, ab \cup {c.r}, fw, uc)
<1> DEFINE D == Puts(Undone(c.r))
           a == ab \cup {c.r}
<1>1. /\ c = Life!Call(c.op, c.r) /\ Place(c) = TakePlace(c.r)
      /\ c.r \in {"em", "pci device", "mem", "irq"}
  BY ProbeCallIs DEF Probing, Life!Unchecked
<1>2. /\ \A x \in h \cap CardOwn : Excused(x, ab) \/ TakePlace(x) < Place(c)
      /\ EnabledOK(C, h, fw, uc)
  BY DEF CardOK, ProbeOK
<1>3. ASSUME NEW x, x \in CardOwn, TakePlace(x) < TakePlace(c.r)
      PROVE  \/ Excused(x, a)
             \/ x \in Undone(c.r)
  <2>1. CASE c.r = "em"
    <3>1. TakePlace(c.r) = 1 /\ TakePlace(x) >= 1
      BY <2>1 DEF TakePlace
    <3>2. QED BY <1>3, <3>1, PlaceIsNat
  <2>2. CASE c.r = "pci device"
    <3>1. x = "em"
      <4>1. TakePlace(x) < 2 /\ TakePlace(x) \in Nat
        BY <1>3, <2>2, PlaceIsNat, TakenFirst, Zenon
      <4>2. TakePlace(x) < 5 /\ TakePlace(x) # 2 /\ TakePlace(x) # 3 /\ TakePlace(x) # 4
        BY ONLY <4>1
      <4>3. QED BY ONLY <1>3, <4>2, TakenFirst, Zenon
    <3>2. QED BY <2>2, <3>1 DEF Undone
  <2>3. CASE c.r = "mem"
    <3>1. x = "em" \/ x = "pci device"
      <4>1. TakePlace(x) < 3 /\ TakePlace(x) \in Nat
        BY <1>3, <2>3, PlaceIsNat, TakenFirst, Zenon
      <4>2. TakePlace(x) < 5 /\ TakePlace(x) # 3 /\ TakePlace(x) # 4
        BY ONLY <4>1
      <4>3. QED BY ONLY <1>3, <4>2, TakenFirst, Zenon
    <3>2. QED BY <2>3, <3>1 DEF Undone, Excused
  <2>4. CASE c.r = "irq"
    <3>1. TakePlace(x) < 5
      BY <1>3, <2>4, TakenFirst, Zenon
    <3>2. x \in {"em", "pci device", "mem", "mtrr"}
      BY ONLY <1>3, <3>1, TakenFirst, Zenon
    <3>3. QED BY <2>4, <3>2 DEF Undone, Excused
  <2>5. QED BY <1>1, <2>1, <2>2, <2>3, <2>4
<1>4. \A x \in h \cap CardOwn : Excused(x, a) \/ x \in Undone(c.r)
  BY <1>1, <1>2, <1>3 DEF Excused
<1>5. \A x : x \in Undone(c.r) => Covered(x, D)
  BY DEF Covered, Puts
<1>6. D = {} => "em" \notin h
  <2>1. "em" \in CardOwn /\ ~Excused("em", a)
    BY DEF CardOwn, CardTaken, Excused
  <2>2. QED BY <1>4, <2>1 DEF Puts
<1>7. D \subseteq CloseCalls
  BY <1>1 DEF Undone, Puts, CloseCalls, CardTaken
<1>8. (D = {} \/ Closing(D)) /\ ~Probing(D) /\ ~Loading(D)
  BY <1>7, KindsApart DEF Closing, Probing, Loading
<1>9. EnabledOK(D, h, fw, uc)
  <2>1. Loaded \notin C
    BY KindsApart DEF Probing
  <2>2. QED BY <1>2, <2>1 DEF EnabledOK
<1>10. ShutOK(D, h, a)
  BY <1>4, <1>5 DEF ShutOK
<1>11. QED BY <1>6, <1>8, <1>9, <1>10 DEF CardOK, ProbeOK, LoadOK

\* A load that fails leaves a card without its microcode, or with the old.
LEMMA FailedLoad ==
  ASSUME NEW C, NEW c \in C, NEW h, NEW ab, NEW a, NEW fw, NEW uc,
         Loading(C), CardOK(C, h, ab, fw, uc), c \notin LastCalls
  PROVE  CardOK({}, h, a, fw, uc)
<1>1. {"em", "mem"} \subseteq h /\ EnabledOK(C, h, fw, uc)
  BY DEF CardOK, LoadOK
<1>2. EnabledOK({}, h, fw, uc)
  BY <1>1 DEF EnabledOK
<1>3. ~Probing({}) /\ ~Loading({}) /\ ~Closing({}) /\ ~Shut({}, h)
  BY <1>1 DEF Probing, Loading, Closing, Shut
<1>4. QED BY <1>1, <1>2, <1>3 DEF CardOK, ProbeOK, LoadOK, ShutOK

\* A load that is done leaves a card with its microcode.
LEMMA DoneLoad ==
  ASSUME NEW C, NEW h, NEW ab, NEW fw, NEW uc, Loading(C), CardOK(C, h, ab, fw, uc)
  PROVE  CardOK({}, h, ab, fw, TRUE)
<1>1. {"em", "mem"} \subseteq h
  BY DEF CardOK, LoadOK
<1>2. EnabledOK({}, h, fw, TRUE)
  BY DEF EnabledOK
<1>3. ~Probing({}) /\ ~Loading({}) /\ ~Closing({}) /\ ~Shut({}, h)
  BY <1>1 DEF Probing, Loading, Closing, Shut
<1>4. QED BY <1>1, <1>2, <1>3 DEF CardOK, ProbeOK, LoadOK, ShutOK

-------------------------------------------------------------------------------
(* What does not change. *)

\* What depends on what.
LEMMA DependsAre ==
  \A d \in Life!Depends :
    \/ d[1] = "card proc" /\ d[2] = "proc"
    \/ d[1] = "node" /\ d[2] = "class"
    \/ d[1] = "subdevice nodes" /\ d[2] = "class"
    \/ d[1] = "em" /\ d[2] = "pci driver"
    \/ d[1] = "mem" /\ d[2] = "em"
    \/ d[1] = "irq" /\ d[2] = "mem"
    \/ d[1] = "node" /\ d[2] = "chrdev"
    \/ d[1] = "eeprom" /\ d[2] = "bus 1"
    \/ d[1] = "encoder" /\ d[2] = "bus 0"
    \/ /\ d[1] \in {"card proc", "node", "model and zoom", "subdevice nodes", "alsa", "dsp",
                    "bus 0", "bus 1"}
       /\ d[2] \in {"em", "mem"}
<1> DEFINE few == {<<"card proc", "proc">>, <<"node", "class">>, <<"subdevice nodes", "class">>,
                   <<"em", "pci driver">>, <<"mem", "em">>, <<"irq", "mem">>,
                   <<"node", "chrdev">>, <<"eeprom", "bus 1">>, <<"encoder", "bus 0">>}
           many == {"card proc", "node", "model and zoom", "subdevice nodes", "alsa", "dsp",
                    "bus 0", "bus 1"}
<1>1. Life!Depends = few \cup (many \X {"em", "mem"})
  BY DEF Life!Depends
<1>2. ASSUME NEW d, d \in few
      PROVE  \/ d[1] = "card proc" /\ d[2] = "proc"
             \/ d[1] = "node" /\ d[2] = "class"
             \/ d[1] = "subdevice nodes" /\ d[2] = "class"
             \/ d[1] = "em" /\ d[2] = "pci driver"
             \/ d[1] = "mem" /\ d[2] = "em"
             \/ d[1] = "irq" /\ d[2] = "mem"
             \/ d[1] = "node" /\ d[2] = "chrdev"
             \/ d[1] = "eeprom" /\ d[2] = "bus 1"
             \/ d[1] = "encoder" /\ d[2] = "bus 0"
  <2>1. \A x, y : <<x, y>>[1] = x /\ <<x, y>>[2] = y
    OBVIOUS
  <2>2. CASE d = <<"card proc", "proc">>
    BY <2>2
  <2>3. CASE d = <<"node", "class">>
    BY <2>3
  <2>4. CASE d = <<"subdevice nodes", "class">>
    BY <2>4
  <2>5. CASE d = <<"em", "pci driver">>
    BY <2>5
  <2>6. CASE d = <<"mem", "em">>
    BY <2>6
  <2>7. CASE d = <<"irq", "mem">>
    BY <2>7
  <2>8. CASE d = <<"node", "chrdev">>
    BY <2>8
  <2>9. CASE d = <<"eeprom", "bus 1">>
    BY <2>9
  <2>10. CASE d = <<"encoder", "bus 0">>
    BY <2>10
  <2>11. QED BY <1>2, <2>2, <2>3, <2>4, <2>5, <2>6, <2>7, <2>8, <2>9, <2>10, Zenon
<1>3. ASSUME NEW d, d \in many \X {"em", "mem"}
      PROVE  d[1] \in many /\ d[2] \in {"em", "mem"}
  <2> HIDE DEF many
  <2>1. QED BY <1>3
<1> HIDE DEF few
<1>4. \A d \in Life!Depends : d \in few \/ d \in many \X {"em", "mem"}
  BY <1>1
<1>5. QED BY <1>2, <1>3, <1>4, Zenon

\* What depends on something is taken after it and given back before it.
LEMMA DependsOrder ==
  ASSUME NEW d \in Life!Depends
  PROVE  /\ d[1] \in CardTaken /\ d[1] # "pci device"
         /\ d[2] \in CardTaken \cup {"proc", "class", "chrdev", "pci driver"}
         /\ d[2] \in CardTaken => PutPlace(d[1]) < PutPlace(d[2])
         /\ d[2] = "em" => TakePlace(d[1]) > 1
         /\ d[2] = "mem" => TakePlace(d[1]) > 3
         /\ d[2] \notin {"em", "mem", "pci driver", "class", "chrdev"} =>
              d[2] \in Life!Needs(d[1])
<1>1. /\ PutPlace("card proc") = 23 /\ PutPlace("node") = 24 /\ PutPlace("subdevice nodes") = 20
      /\ PutPlace("em") = 41 /\ PutPlace("mem") = 40 /\ PutPlace("irq") = 39
      /\ PutPlace("eeprom") = 28 /\ PutPlace("bus 1") = 33 /\ PutPlace("encoder") = 29
      /\ PutPlace("bus 0") = 31 /\ PutPlace("model and zoom") = 25 /\ PutPlace("alsa") = 21
      /\ PutPlace("dsp") = 22
  BY DEF PutPlace
<1>2. /\ TakePlace("card proc") = 13 /\ TakePlace("node") = 14 /\ TakePlace("mem") = 3
      /\ TakePlace("irq") = 5 /\ TakePlace("subdevice nodes") = 50 /\ TakePlace("bus 1") = 8
      /\ TakePlace("bus 0") = 11 /\ TakePlace("model and zoom") = 15 /\ TakePlace("alsa") = 51
      /\ TakePlace("dsp") = 16
  BY DEF TakePlace
<1>3. d[1] \in CardTaken /\ d[1] # "pci device"
  BY DependsAre DEF CardTaken
<1>4. d[2] \in CardTaken \cup {"proc", "class", "chrdev", "pci driver"}
  BY DependsAre DEF CardTaken
<1>5. d[2] = "em" =>
        \/ d[1] = "mem" \/ d[1] = "card proc" \/ d[1] = "node" \/ d[1] = "model and zoom"
        \/ d[1] = "subdevice nodes" \/ d[1] = "alsa" \/ d[1] = "dsp"
        \/ d[1] = "bus 0" \/ d[1] = "bus 1"
  BY DependsAre
<1>6. d[2] = "mem" =>
        \/ d[1] = "irq" \/ d[1] = "card proc" \/ d[1] = "node" \/ d[1] = "model and zoom"
        \/ d[1] = "subdevice nodes" \/ d[1] = "alsa" \/ d[1] = "dsp"
        \/ d[1] = "bus 0" \/ d[1] = "bus 1"
  BY DependsAre
<1>7. ASSUME d[2] = "em"
      PROVE  PutPlace(d[1]) < PutPlace(d[2]) /\ TakePlace(d[1]) > 1
  <2>1. PutPlace(d[2]) = 41
    BY <1>1, <1>7, Zenon
  <2>2. \/ PutPlace(d[1]) = 40 \/ PutPlace(d[1]) = 23 \/ PutPlace(d[1]) = 24
        \/ PutPlace(d[1]) = 25 \/ PutPlace(d[1]) = 20 \/ PutPlace(d[1]) = 21
        \/ PutPlace(d[1]) = 22 \/ PutPlace(d[1]) = 31 \/ PutPlace(d[1]) = 33
    BY <1>1, <1>5, <1>7, Zenon
  <2>3. \/ TakePlace(d[1]) = 3 \/ TakePlace(d[1]) = 13 \/ TakePlace(d[1]) = 14
        \/ TakePlace(d[1]) = 15 \/ TakePlace(d[1]) = 50 \/ TakePlace(d[1]) = 51
        \/ TakePlace(d[1]) = 16 \/ TakePlace(d[1]) = 11 \/ TakePlace(d[1]) = 8
    BY <1>2, <1>5, <1>7, Zenon
  <2>4. QED BY ONLY <2>1, <2>2, <2>3
<1>8. ASSUME d[2] = "mem"
      PROVE  PutPlace(d[1]) < PutPlace(d[2]) /\ TakePlace(d[1]) > 3
  <2>1. PutPlace(d[2]) = 40
    BY <1>1, <1>8, Zenon
  <2>2. \/ PutPlace(d[1]) = 39 \/ PutPlace(d[1]) = 23 \/ PutPlace(d[1]) = 24
        \/ PutPlace(d[1]) = 25 \/ PutPlace(d[1]) = 20 \/ PutPlace(d[1]) = 21
        \/ PutPlace(d[1]) = 22 \/ PutPlace(d[1]) = 31 \/ PutPlace(d[1]) = 33
    BY <1>1, <1>6, <1>8, Zenon
  <2>3. \/ TakePlace(d[1]) = 5 \/ TakePlace(d[1]) = 13 \/ TakePlace(d[1]) = 14
        \/ TakePlace(d[1]) = 15 \/ TakePlace(d[1]) = 50 \/ TakePlace(d[1]) = 51
        \/ TakePlace(d[1]) = 16 \/ TakePlace(d[1]) = 11 \/ TakePlace(d[1]) = 8
    BY <1>2, <1>6, <1>8, Zenon
  <2>4. QED BY ONLY <2>1, <2>2, <2>3
<1>9. ASSUME d[2] \in CardTaken, d[2] # "em", d[2] # "mem"
      PROVE  PutPlace(d[1]) < PutPlace(d[2])
  <2>1. (d[1] = "eeprom" /\ d[2] = "bus 1") \/ (d[1] = "encoder" /\ d[2] = "bus 0")
    BY <1>9, DependsAre DEF CardTaken
  <2>2. \/ PutPlace(d[1]) = 28 /\ PutPlace(d[2]) = 33
        \/ PutPlace(d[1]) = 29 /\ PutPlace(d[2]) = 31
    BY <1>1, <2>1, Zenon
  <2>3. QED BY ONLY <2>2
<1>10. d[2] \notin {"em", "mem", "pci driver", "class", "chrdev"} => d[2] \in Life!Needs(d[1])
  BY DependsAre DEF Life!Needs
<1>11. QED BY <1>3, <1>4, <1>7, <1>8, <1>9, <1>10, Zenon

\* What a card's calls say does not depend on what the module holds.
LEMMA CardSame ==
  ASSUME NEW C, NEW h, NEW k, NEW ab, NEW b, NEW fw, NEW uc,
         CardOK(C, h, ab, fw, uc), k \cap CardOwn = h \cap CardOwn, ab \subseteq b
  PROVE  CardOK(C, k, b, fw, uc) /\ (Shut(C, h) <=> Shut(C, k))
<1>1. \A x \in CardOwn : x \in h <=> x \in k
  OBVIOUS
<1>2. /\ "em" \in CardOwn /\ "mem" \in CardOwn /\ "subdevice nodes" \in CardOwn
      /\ "alsa" \in CardOwn /\ \A f \in Life!Fifos : f \in CardOwn
  BY DEF CardOwn, CardTaken
<1>3. \A x : Excused(x, ab) => Excused(x, b)
  BY DEF Excused
<1>4. Shut(C, h) <=> Shut(C, k)
  BY <1>1, <1>2 DEF Shut
<1>5. ProbeOK(C, k, b, fw)
  BY <1>1, <1>2, <1>3 DEF CardOK, ProbeOK
<1>6. LoadOK(C, k, fw, uc)
  BY <1>1, <1>2 DEF CardOK, LoadOK
<1>7. ShutOK(C, k, b)
  BY <1>1, <1>3, <1>4 DEF CardOK, ShutOK
<1>8. EnabledOK(C, k, fw, uc)
  BY <1>1, <1>2 DEF CardOK, EnabledOK
<1>9. QED BY <1>1, <1>2, <1>4, <1>5, <1>6, <1>7, <1>8 DEF CardOK

\* Nor what the module's calls say on what a card holds.
LEMMA ModuleSame ==
  ASSUME NEW M, NEW h, NEW k, ModuleOK(M, h), k \cap ModuleOwn = h \cap ModuleOwn
  PROVE  ModuleOK(M, k)
<1>1. \A x \in ModuleOwn : x \in h <=> x \in k
  OBVIOUS
<1>2. "class" \in ModuleOwn /\ "chrdev" \in ModuleOwn /\ "pci driver" \in ModuleOwn
  BY DEF ModuleOwn
<1>3. QED BY <1>1, <1>2 DEF ModuleOK

\* The FIFOs that a pointer leads to although they are gone.
FifosOK(C, h, p, ab) ==
  \A f \in Life!Fifos : f \in p \ h =>
       Dangles(ab) \/ (Life!Call("free", f) \notin C
                       /\ (Life!Call("alloc", f) \in C \/ Shut(C, h)))

\* What the pointers say, with the FIFOs apart.
LEMMA PointersAre ==
  ASSUME NEW C, NEW h, NEW p, NEW ig, NEW ab
  PROVE  PointersOK(C, h, p, ig, ab) <=>
           /\ h \ Buffers \subseteq p /\ p \ h \subseteq ig \cup Life!Fifos /\ p \cap Buffers = {}
           /\ FifosOK(C, h, p, ab)
BY DEF PointersOK, FifosOK

\* It stays so while no other FIFO goes missing.
LEMMA FifosLeft ==
  ASSUME NEW C, NEW D, NEW h, NEW k, NEW p, NEW q, NEW ab, NEW b,
         FifosOK(C, h, p, ab), D \subseteq C, ab \subseteq b, Shut(C, h) => Shut(D, k),
         \A f \in Life!Fifos : f \in q \ k =>
           f \in p \ h /\ (Life!Call("alloc", f) \in C => Life!Call("alloc", f) \in D)
  PROVE  FifosOK(D, k, q, b)
<1>1. Dangles(ab) => Dangles(b)
  BY DEF Dangles
<1>2. QED BY <1>1 DEF FifosOK

\* Once an allocation has failed, the pointers to FIFOs may lead nowhere.
LEMMA Dangling ==
  ASSUME NEW C, NEW h, NEW p, NEW ab, Dangles(ab)
  PROVE  FifosOK(C, h, p, ab)
BY DEF FifosOK

\* A probe has the card before anything else, and its registers before most;
\* a load has both.
LEMMA FirstTaken ==
  ASSUME NEW C, NEW c, NEW D, NEW h, NEW ab, NEW fw, NEW uc,
         FirstOf(C, c, D), CardOK(C, h, ab, fw, uc), c.op \in Takers
  PROVE  /\ c = Life!Call(c.op, c.r) /\ c.r \in CardTaken /\ ~Closing(C)
         /\ Probing(C) \/ (Loading(C) /\ c.op = "try" /\ c # Loaded /\ c # Mask)
         /\ TakePlace(c.r) > 1 => "em" \in h
         /\ TakePlace(c.r) > 3 => "mem" \in h
<1>1. c \in C /\ c \notin D /\ D \subseteq C /\ \A d \in C : d = c \/ d \in D
  BY FirstIs
<1>2. ~Closing(C)
  BY <1>1, CloseCallIs DEF Closing
<1>3. CASE Probing(C)
  <2>1. c = Life!Call(c.op, c.r) /\ c.r \in CardTaken /\ Place(c) = TakePlace(c.r)
    BY <1>1, <1>3, ProbeCallIs DEF Probing
  <2>2. \A x \in {"em", "mem"} : Life!Call("get", x) \in C \/ x \in h
    BY <1>3 DEF CardOK, ProbeOK
  <2>3. Place(Life!Call("get", "em")) = 1 /\ Place(Life!Call("get", "mem")) = 3
    BY PlaceOf, TakenFirst DEF Takers
  <2>4. Life!Call("get", "em") \in C => TakePlace(c.r) <= 1
    BY <1>1, <2>1, <2>3, PlaceIsNat DEF FirstOf
  <2>5. Life!Call("get", "mem") \in C => TakePlace(c.r) <= 3
    BY <1>1, <2>1, <2>3, PlaceIsNat DEF FirstOf
  <2>6. (TakePlace(c.r) > 1 => "em" \in h) /\ (TakePlace(c.r) > 3 => "mem" \in h)
    <3>1. TakePlace(c.r) \in Nat
      BY PlaceIsNat
    <3>2. TakePlace(c.r) > 1 => ~(TakePlace(c.r) <= 1)
      BY ONLY <3>1
    <3>3. TakePlace(c.r) > 3 => ~(TakePlace(c.r) <= 3)
      BY ONLY <3>1
    <3>4. QED BY <2>2, <2>4, <2>5, <3>2, <3>3, Zenon
  <2>7. QED BY <1>2, <1>3, <2>1, <2>6
<1>4. CASE Loading(C)
  <2>1. {"em", "mem"} \subseteq h
    BY <1>4 DEF CardOK, LoadOK
  <2>2. c \in LoadCalls
    BY <1>1, <1>4 DEF Loading
  <2>3. c.op = "try" /\ c = Life!Call(c.op, c.r) /\ c.r \in CardTaken
    BY <2>2, LoadCallIs DEF Takers, CardTaken
  <2>4. c # Loaded /\ c # Mask
    BY <2>3, CallNamed DEF Loaded, Mask
  <2>5. QED BY <1>2, <1>4, <2>1, <2>3, <2>4
<1>5. QED BY <1>1, <1>2, <1>3, <1>4 DEF CardOK

\* Buffers belong to their FIFOs also when something else is taken or given back.
LEMMA BuffersSame ==
  ASSUME NEW h, NEW k, NEW ig, NEW jg, BuffersOK(h, ig), ig \subseteq jg,
         \A x \in Life!Fifos \cup Buffers : x \in h <=> x \in k
  PROVE  BuffersOK(k, jg)
<1>1. \A f \in Life!Fifos : PartsOf(f) \subseteq Life!Fifos \cup Buffers
  BY OwnersApart
<1>2. "prep" \in Buffers /\ "mabuf" \in Buffers
  BY DEF Buffers
<1>3. \A f \in Life!Fifos : PartsOf(f) \cap k # {} => PartsOf(f) \cap h # {}
  BY <1>1
<1>4. QED BY <1>2, <1>3 DEF BuffersOK

\* What was lost is accounted for by what failed, also when more fails.
LEMMA LostSame ==
  ASSUME NEW ig, NEW jg, NEW ab, NEW b, NEW wr, NEW lk, LostOK(ig, ab, wr, lk),
         ig \subseteq jg, ab \subseteq b
  PROVE  LostOK(jg, b, wr, lk)
BY DEF LostOK, Dangles

\* The owner of what a call of the card takes or gives back.
LEMMA TakenApart ==
  ASSUME NEW r, r \in CardTaken
  PROVE  r \notin Buffers /\ r \notin Life!Fifos /\ r \notin ModuleOwn /\ r \in CardOwn
         /\ \A f \in Life!Fifos : r \notin PartsOf(f)
BY OwnersApart DEF CardOwn

-------------------------------------------------------------------------------
(* What a call of the card does to the rest. *)

\* A call of the card takes what it is for.
LEMMA CardTakes ==
  ASSUME NEW C, NEW c, NEW D, NEW M, NEW h, NEW p, NEW ig, NEW ab, NEW wr, NEW lk, NEW fw, NEW uc,
         StateOK(C, M, h, p, ig, ab, wr, lk, fw, uc), FirstOf(C, c, D), c.op \in Takers,
         Life!Needs(c.r) \subseteq h
  PROVE  StateOK(D, M, h \cup {c.r}, p \cup {c.r}, ig, ab, wr, lk, fw, uc)
<1> DEFINE r == c.r
           k == h \cup {r}
           q == p \cup {r}
<1>1. CardOK(C, h, ab, fw, uc) /\ h \subseteq ModuleOwn \cup CardOwn
  BY DEF StateOK
<1>2. c \in C /\ c \notin D /\ D \subseteq C /\ \A d \in C : d = c \/ d \in D
  BY FirstIs
<1>3. /\ c = Life!Call(c.op, r) /\ r \in CardTaken /\ ~Closing(C)
      /\ Probing(C) \/ (Loading(C) /\ c.op = "try" /\ c # Loaded /\ c # Mask)
      /\ TakePlace(r) > 1 => "em" \in h
      /\ TakePlace(r) > 3 => "mem" \in h
  BY <1>1, FirstTaken
<1>4. CardOK(D, k, ab, fw, uc)
  <2>1. CASE Probing(C)
    BY <1>1, <2>1, ProbeStep
  <2>2. CASE Loading(C) /\ c.op = "try" /\ c # Loaded
    BY <1>1, <2>2, LoadStep
  <2>3. QED BY <1>3, <2>1, <2>2
<1>5. /\ r \notin Buffers /\ r \notin Life!Fifos /\ r \notin ModuleOwn /\ r \in CardOwn
  BY <1>3, TakenApart
<1>6. PointersOK(D, k, q, ig, ab)
  <2>1. /\ h \ Buffers \subseteq p /\ p \ h \subseteq ig \cup Life!Fifos /\ p \cap Buffers = {}
        /\ FifosOK(C, h, p, ab)
    BY PointersAre DEF StateOK
  <2>2. ~Shut(C, h)
    BY <1>2, <1>3 DEF Shut
  <2>3. \A f : Life!Call("alloc", f) # c
    BY CallNamed DEF Takers
  <2>4. FifosOK(D, k, q, ab)
    BY <1>2, <2>1, <2>2, <2>3, FifosLeft
  <2>5. k \ Buffers \subseteq q /\ q \ k \subseteq ig \cup Life!Fifos /\ q \cap Buffers = {}
    BY <1>5, <2>1
  <2>6. QED BY <2>4, <2>5, PointersAre
<1>7. BuffersOK(k, ig)
  BY <1>5, BuffersSame DEF StateOK
<1>8. ModuleOK(M, k)
  BY <1>5, ModuleSame DEF StateOK
<1>9. DependsOK(D, k)
  <2>1. "pci driver" \in h
    BY <1>2 DEF StateOK, DependsOK
  <2>2. {"class", "chrdev"} \subseteq h
    BY <2>1 DEF StateOK, ModuleOK
  <2>3. ASSUME NEW d \in Life!Depends, d[1] \in k PROVE d[2] \in k
    <3>1. CASE d[1] \in h
      BY <3>1 DEF StateOK, DependsOK
    <3>2. CASE d[1] = r
      <4>1. CASE d[2] = "em"
        BY <1>3, <3>2, <4>1, DependsOrder
      <4>2. CASE d[2] = "mem"
        BY <1>3, <3>2, <4>2, DependsOrder
      <4>3. CASE d[2] \in {"pci driver", "class", "chrdev"}
        BY <2>1, <2>2, <4>3
      <4>4. CASE d[2] \notin {"em", "mem", "pci driver", "class", "chrdev"}
        BY <3>2, <4>4, DependsOrder
      <4>5. QED BY <4>1, <4>2, <4>3, <4>4
    <3>3. QED BY <2>3, <3>1, <3>2
  <2>4. QED BY <2>1, <2>3 DEF DependsOK
<1>10. k \subseteq ModuleOwn \cup CardOwn
  BY <1>1, <1>5
<1>11. QED BY <1>4, <1>6, <1>7, <1>8, <1>9, <1>10 DEF StateOK

\* A call of the card fails and is passed over.
LEMMA CardGoesWithout ==
  ASSUME NEW C, NEW c, NEW D, NEW M, NEW h, NEW p, NEW ig, NEW ab, NEW wr, NEW lk, NEW fw, NEW uc,
         NEW q, NEW m, c.op \in {"try", "hope", "irq", "mtrr"},
         StateOK(C, M, h, p, ig, ab, wr, lk, fw, uc), FirstOf(C, c, D),
         q \in {p \cup {c.r}, p \ {c.r}}, m \subseteq lk \cup {c.r}
  PROVE  StateOK(D, M, h, q, ig \cup {c.r}, ab, wr, m, fw, uc)
<1> DEFINE r == c.r
           j == ig \cup {r}
<1>1. CardOK(C, h, ab, fw, uc) /\ h \subseteq ModuleOwn \cup CardOwn
  BY DEF StateOK
<1>2. c \in C /\ c \notin D /\ D \subseteq C /\ \A d \in C : d = c \/ d \in D
  BY FirstIs
<1>3. /\ c = Life!Call(c.op, r) /\ r \in CardTaken /\ ~Closing(C)
      /\ Probing(C) \/ (Loading(C) /\ c.op = "try" /\ c # Loaded /\ c # Mask)
  BY <1>1, FirstTaken DEF Takers
<1>4. CardOK(D, h, ab, fw, uc)
  <2>1. CASE Probing(C)
    BY <1>1, <2>1, ProbeStep
  <2>2. CASE Loading(C) /\ c.op = "try" /\ c # Loaded
    BY <1>1, <2>2, LoadStep
  <2>3. QED BY <1>3, <2>1, <2>2
<1>5. /\ r \notin Buffers /\ r \notin Life!Fifos /\ r \notin ModuleOwn /\ r \in CardOwn
  BY <1>3, TakenApart
<1>6. r \notin h
  <2>1. CASE Probing(C)
    <3>1. c \in ProbeCalls
      BY <1>2, <2>1 DEF Probing
    <3>2. Place(c) = TakePlace(r) /\ r # "pci device"
      BY <3>1, ProbeCallIs
    <3>3. \A x \in h \cap CardOwn : Excused(x, ab) \/ TakePlace(x) < Place(c)
      BY <1>1, <1>2, <2>1 DEF CardOK, ProbeOK
    <3>4. ~(TakePlace(r) < TakePlace(r))
      BY PlaceIsNat
    <3>5. QED BY <1>5, <3>2, <3>3, <3>4 DEF Excused
  <2>2. CASE Loading(C) /\ c.op = "try"
    <3>1. r \in {"subdevice nodes", "alsa"}
      BY <1>2, <2>2, LoadCallIs DEF Loading
    <3>2. QED BY <1>1, <1>2, <1>3, <2>2, <3>1 DEF CardOK, LoadOK
  <2>3. QED BY <1>3, <2>1, <2>2
<1>7. PointersOK(D, h, q, j, ab)
  <2>1. /\ h \ Buffers \subseteq p /\ p \ h \subseteq ig \cup Life!Fifos /\ p \cap Buffers = {}
        /\ FifosOK(C, h, p, ab)
    BY PointersAre DEF StateOK
  <2>2. ~Shut(C, h)
    BY <1>2, <1>3 DEF Shut
  <2>3. \A f : Life!Call("alloc", f) # c
    BY CallNamed
  <2>4. \A f \in Life!Fifos : f \in q \ h => f \in p \ h
    BY <1>5
  <2>5. FifosOK(D, h, q, ab)
    BY <1>2, <2>1, <2>2, <2>3, <2>4, FifosLeft
  <2>6. h \ Buffers \subseteq q /\ q \ h \subseteq j \cup Life!Fifos /\ q \cap Buffers = {}
    BY <1>5, <1>6, <2>1
  <2>7. QED BY <2>5, <2>6, PointersAre
<1>8. BuffersOK(h, j)
  BY BuffersSame DEF StateOK
<1>9. LostOK(j, ab, wr, m)
  BY DEF StateOK, LostOK
<1>10. DependsOK(D, h)
  BY <1>2 DEF StateOK, DependsOK
<1>11. QED BY <1>1, <1>4, <1>7, <1>8, <1>9, <1>10 DEF StateOK

\* A probe fails and takes back what it has done.
LEMMA CardFails ==
  ASSUME NEW C, NEW c, NEW D, NEW M, NEW h, NEW p, NEW ig, NEW ab, NEW wr, NEW lk, NEW fw, NEW uc,
         StateOK(C, M, h, p, ig, ab, wr, lk, fw, uc), FirstOf(C, c, D),
         c.op \in {"get", "irq"}, c.r \notin Life!Unchecked
  PROVE  /\ StateOK(Puts(Undone(c.r)), M, h, p, ig, ab \cup {c.r}, wr, lk, fw, uc)
         /\ \A f \in Life!Fifos : f \in p \ h => Dangles(ab)
<1> DEFINE r == c.r
           b == ab \cup {r}
           E == Puts(Undone(r))
<1>1. CardOK(C, h, ab, fw, uc) /\ h \subseteq ModuleOwn \cup CardOwn
  BY DEF StateOK
<1>2. c \in C /\ c \notin D /\ D \subseteq C /\ \A d \in C : d = c \/ d \in D
  BY FirstIs
<1>3. ~Closing(C) /\ Probing(C)
  BY <1>1, FirstTaken DEF Takers
<1>4. CardOK(E, h, b, fw, uc)
  BY <1>1, <1>2, <1>3, FailedProbe
<1>5. ASSUME NEW f \in Life!Fifos, f \in p \ h PROVE Dangles(ab) /\ Dangles(b)
  <2>1. Life!Call("alloc", f) \notin C
    <3>1. Life!Call("alloc", f).op = "alloc"
      BY CallNamed
    <3>2. QED BY <1>3, <3>1, ProbeCallIs DEF Probing, Takers
  <2>2. ~Shut(C, h)
    BY <1>2, <1>3 DEF Shut
  <2>3. Dangles(ab)
    BY <1>5, <2>1, <2>2 DEF StateOK, PointersOK
  <2>4. QED BY <2>3 DEF Dangles
<1>6. PointersOK(E, h, p, ig, b)
  BY <1>5 DEF StateOK, PointersOK
<1>7. LostOK(ig, b, wr, lk)
  BY LostSame DEF StateOK
<1>8. DependsOK(E, h)
  BY <1>2 DEF StateOK, DependsOK
<1>9. QED BY <1>1, <1>4, <1>5, <1>6, <1>7, <1>8 DEF StateOK

\* The interrupt mask is cleared, or a command of a load succeeds.
LEMMA CardGoesOn ==
  ASSUME NEW C, NEW c, NEW D, NEW M, NEW h, NEW p, NEW ig, NEW ab, NEW wr, NEW lk, NEW fw, NEW uc,
         StateOK(C, M, h, p, ig, ab, wr, lk, fw, uc), FirstOf(C, c, D),
         c.op \in {"mask", "need"}
  PROVE  StateOK(D, M, h, p, ig, ab, wr, lk, fw, uc)
<1>1. CardOK(C, h, ab, fw, uc)
  BY DEF StateOK
<1>2. c \in C /\ c \notin D /\ D \subseteq C /\ \A d \in C : d = c \/ d \in D
  BY FirstIs
<1>3. Closing(C) \/ Loading(C)
  <2>1. ~Probing(C)
    BY <1>2, ProbeCallIs DEF Probing, Takers
  <2>2. QED BY <1>1, <1>2, <2>1 DEF CardOK
<1>4. c # Loaded
  BY CallNamed DEF Loaded
<1>5. CardOK(D, h, ab, fw, uc) /\ (Shut(C, h) => Shut(D, h))
  <2>1. CASE Closing(C)
    BY <1>1, <2>1, CloseStep
  <2>2. CASE Loading(C)
    <3>1. CardOK(D, h, ab, fw, uc)
      BY <1>1, <1>4, <2>2, LoadStep
    <3>2. ~Shut(C, h)
      BY <1>2, <2>2, KindLeft DEF Shut
    <3>3. QED BY <3>1, <3>2
  <2>3. QED BY <1>3, <2>1, <2>2
<1>6. PointersOK(D, h, p, ig, ab)
  <2>1. \A f : Life!Call("alloc", f) # c
    BY CallNamed
  <2>2. FifosOK(C, h, p, ab)
    BY PointersAre DEF StateOK
  <2>3. FifosOK(D, h, p, ab)
    BY <1>2, <1>5, <2>1, <2>2, FifosLeft
  <2>4. QED BY <2>3, PointersAre DEF StateOK
<1>7. DependsOK(D, h)
  BY <1>2 DEF StateOK, DependsOK
<1>8. QED BY <1>5, <1>6, <1>7 DEF StateOK

\* A command of a load fails: the load ends there, and so when it is done.
LEMMA CardGivesUp ==
  ASSUME NEW C, NEW c, NEW D, NEW M, NEW h, NEW p, NEW ig, NEW ab, NEW wr, NEW lk, NEW fw, NEW uc,
         NEW b, NEW vc,
         StateOK(C, M, h, p, ig, ab, wr, lk, fw, uc), FirstOf(C, c, D),
         \/ c.op = "need" /\ vc = uc
         \/ c.op = "loaded" /\ vc = TRUE,
         ab \subseteq b
  PROVE  /\ StateOK({}, M, h, p, ig, b, wr, lk, fw, vc)
         /\ \A f \in Life!Fifos : f \in p \ h => Dangles(ab)
<1>1. CardOK(C, h, ab, fw, uc)
  BY DEF StateOK
<1>2. c \in C /\ c \notin D /\ D \subseteq C /\ \A d \in C : d = c \/ d \in D
  BY FirstIs
<1>3. Loading(C)
  <2>1. ~Probing(C)
    BY <1>2, ProbeCallIs DEF Probing, Takers
  <2>2. ~Closing(C)
    BY <1>2, CloseCallIs DEF Closing
  <2>3. QED BY <1>1, <1>2, <2>1, <2>2 DEF CardOK
<1>4. c \in LoadCalls
  BY <1>2, <1>3 DEF Loading
<1>5. CardOK({}, h, b, fw, vc)
  <2>1. CASE c.op = "need" /\ vc = uc
    <3>1. c \notin LastCalls
      BY <2>1, CallNamed DEF LastCalls, Loaded
    <3>2. QED BY <1>1, <1>2, <1>3, <2>1, <3>1, FailedLoad
  <2>2. CASE vc = TRUE
    <3>1. CardOK({}, h, ab, fw, TRUE)
      BY <1>1, <1>3, DoneLoad
    <3>2. QED BY <2>2, <3>1, CardSame
  <2>3. QED BY <2>1, <2>2
<1>6. ASSUME NEW f \in Life!Fifos, f \in p \ h PROVE Dangles(ab)
  <2>1. ~Shut(C, h)
    BY <1>2, <1>3, KindLeft DEF Shut
  <2>2. Dangles(ab) \/ (Life!Call("free", f) \notin C /\ Life!Call("alloc", f) \in C)
    BY <1>6, <2>1 DEF StateOK, PointersOK
  <2>3. c = NeedVideo => Life!Call("free", f) \in C
    BY <1>1, <1>2, <1>3 DEF CardOK, LoadOK
  <2>4. c # NeedVideo => Place(c) = 49 \/ Place(c) = 52
    BY <1>4, LoadCallIs
  <2>5. c # NeedVideo => Life!Call("alloc", f) \notin C
    <3>1. SUFFICES ASSUME Life!Call("alloc", f) \in C, Place(c) = 49 \/ Place(c) = 52
                   PROVE  FALSE
      BY <2>4
    <3>2. Place(Life!Call("alloc", f)) \in 43 .. 45
      BY LoadPlaces
    <3>3. Life!Call("alloc", f) # c
      BY <3>1, <3>2
    <3>4. Place(c) < Place(Life!Call("alloc", f))
      BY <1>2, <3>1, <3>3 DEF FirstOf
    <3>5. QED BY <3>1, <3>2, <3>4
  <2>6. QED BY <2>2, <2>3, <2>5
<1>7. FifosOK({}, h, p, b)
  BY <1>6 DEF FifosOK, Dangles
<1>8. PointersOK({}, h, p, ig, b)
  BY <1>7, PointersAre DEF StateOK
<1>9. LostOK(ig, b, wr, lk)
  BY LostSame DEF StateOK
<1>10. DependsOK({}, h)
  BY <1>2 DEF StateOK, DependsOK
<1>11. QED BY <1>5, <1>6, <1>8, <1>9, <1>10 DEF StateOK

\* A call of the card gives back what it is for.
LEMMA CardGives ==
  ASSUME NEW C, NEW c, NEW D, NEW M, NEW h, NEW p, NEW ig, NEW ab, NEW wr, NEW lk, NEW fw, NEW uc,
         NEW k, NEW q, NEW w, c.op = "put",
         StateOK(C, M, h, p, ig, ab, wr, lk, fw, uc), FirstOf(C, c, D),
         \/ c.r \in p /\ k = h \ {c.r} /\ q = p \ {c.r} /\ w = wr \cup ({c.r} \ h)
         \/ c.r \notin p /\ k = h /\ q = p /\ w = wr
  PROVE  /\ StateOK(D, M, k, q, ig, ab, w, lk, fw, uc)
         /\ k = h \ {c.r} /\ q = p \ {c.r}
<1> DEFINE r == c.r
<1>1. CardOK(C, h, ab, fw, uc) /\ h \subseteq ModuleOwn \cup CardOwn
  BY DEF StateOK
<1>2. c \in C /\ c \notin D /\ D \subseteq C /\ \A d \in C : d = c \/ d \in D
  BY FirstIs
<1>3. Closing(C)
  <2>1. ~Probing(C)
    BY <1>2, ProbeCallIs DEF Probing, Takers
  <2>2. ~Loading(C)
    BY <1>2, LoadCallIs DEF Loading
  <2>3. QED BY <1>1, <1>2, <2>1, <2>2 DEF CardOK
<1>4. c = Life!Call(c.op, r) /\ r \in CardTaken
  BY <1>2, <1>3, CloseCallIs DEF Closing
<1>5. /\ r \notin Buffers /\ r \notin Life!Fifos /\ r \notin ModuleOwn /\ r \in CardOwn
  BY <1>4, TakenApart
<1>6. /\ h \ Buffers \subseteq p /\ p \ h \subseteq ig \cup Life!Fifos /\ p \cap Buffers = {}
      /\ FifosOK(C, h, p, ab)
  BY PointersAre DEF StateOK
<1>7. k = h \ {r} /\ q = p \ {r}
  BY <1>5, <1>6
<1>8. w \subseteq wr \cup ig
  BY <1>5, <1>6
<1>9. CardOK(D, k, ab, fw, uc) /\ Shut(D, k)
  BY <1>1, <1>3, <1>7, CloseStep
<1>10. PointersOK(D, k, q, ig, ab)
  <2>1. \A f : Life!Call("alloc", f) # c
    BY CallNamed
  <2>2. \A f \in Life!Fifos : f \in q \ k => f \in p \ h
    BY <1>5, <1>7
  <2>3. FifosOK(D, k, q, ab)
    BY <1>2, <1>6, <1>9, <2>1, <2>2, FifosLeft
  <2>4. k \ Buffers \subseteq q /\ q \ k \subseteq ig \cup Life!Fifos /\ q \cap Buffers = {}
    BY <1>6, <1>7
  <2>5. QED BY <2>3, <2>4, PointersAre
<1>11. BuffersOK(k, ig)
  BY <1>5, <1>7, BuffersSame DEF StateOK
<1>12. LostOK(ig, ab, w, lk)
  BY <1>8 DEF StateOK, LostOK
<1>13. ModuleOK(M, k)
  BY <1>5, <1>7, ModuleSame DEF StateOK
<1>14. DependsOK(D, k)
  <2>1. "pci driver" \in h /\ "pci driver" \notin CardTaken
    BY <1>2 DEF StateOK, DependsOK, CardTaken
  <2>2. "pci driver" \in k
    BY <1>4, <1>7, <2>1
  <2>3. ASSUME NEW d \in Life!Depends, d[1] \in k PROVE d[2] \in k
    <3>1. d[2] \in h
      BY <1>7, <2>3 DEF StateOK, DependsOK
    <3>2. ASSUME d[2] = r PROVE FALSE
      <4>1. /\ d[1] \in CardTaken /\ d[1] # "pci device" /\ PutPlace(d[1]) < PutPlace(r)
        BY <1>4, <3>2, DependsOrder
      <4>2. d[1] \in CardOwn /\ \A f \in Life!Fifos : d[1] \notin PartsOf(f)
        BY <4>1, TakenApart
      <4>3. Covered(d[1], D)
        BY <1>9, <2>3, <4>1, <4>2 DEF CardOK, ShutOK, Excused
      <4>4. Life!Call("put", d[1]) \in D
        BY <4>2, <4>3 DEF Covered
      <4>5. Place(c) < Place(Life!Call("put", d[1]))
        BY <4>4 DEF FirstOf
      <4>6. Place(c) = PutPlace(r) /\ Place(Life!Call("put", d[1])) = PutPlace(d[1])
        BY <1>4, PlaceOf
      <4>7. PutPlace(r) < PutPlace(d[1])
        BY <4>5, <4>6
      <4>8. PutPlace(r) \in Nat /\ PutPlace(d[1]) \in Nat
        BY PlaceIsNat
      <4> DEFINE m == PutPlace(r)
                 n == PutPlace(d[1])
      <4>9. m \in Nat /\ n \in Nat /\ m < n /\ n < m
        BY <4>1, <4>7, <4>8
      <4> HIDE DEF m, n
      <4>10. QED BY <4>9
    <3>3. QED BY <1>7, <3>1, <3>2
  <2>4. QED BY <2>2, <2>3 DEF DependsOK
<1>15. k \subseteq ModuleOwn \cup CardOwn
  BY <1>1, <1>7
<1>16. QED BY <1>7, <1>9, <1>10, <1>11, <1>12, <1>13, <1>14, <1>15 DEF StateOK

-------------------------------------------------------------------------------
(* FIFOs. *)

\* Which lists have calls about FIFOs.
LEMMA FifoCalls ==
  ASSUME NEW C, NEW c, NEW D, NEW h, NEW ab, NEW fw, NEW uc,
         CardOK(C, h, ab, fw, uc), FirstOf(C, c, D), c.op \in {"free", "alloc", "init"}
  PROVE  /\ Loading(C) \/ (Closing(C) /\ c.op = "free")
         /\ c = Life!Call(c.op, c.r) /\ c.r \in Life!Fifos /\ c # Loaded
<1>1. c \in C
  BY FirstIs
<1>2. ~Probing(C)
  BY <1>1, ProbeCallIs DEF Probing, Takers
<1>3. Closing(C) => c.op = "free" /\ c = Life!Call(c.op, c.r) /\ c.r \in Life!Fifos
  BY <1>1, CloseCallIs DEF Closing
<1>4. Loading(C) => c = Life!Call(c.op, c.r) /\ c.r \in Life!Fifos
  BY <1>1, LoadCallIs DEF Loading
<1>5. c # Loaded
  BY CallNamed DEF Loaded
<1>6. QED BY <1>1, <1>2, <1>3, <1>4, <1>5 DEF CardOK

\* A FIFO is freed, with its buffers when it is valid.
LEMMA CardFrees ==
  ASSUME NEW C, NEW c, NEW D, NEW M, NEW h, NEW p, NEW ig, NEW ab, NEW wr, NEW lk, NEW fw, NEW uc,
         NEW k, NEW w, NEW m, c.op = "free",
         StateOK(C, M, h, p, ig, ab, wr, lk, fw, uc), FirstOf(C, c, D),
         \/ /\ c.r \in p /\ k = h \ PartsOf(c.r) /\ w = wr \cup ({c.r} \ h)
            /\ \/ m = lk
               \/ Life!Buffer(c.r) \notin h /\ m = lk \cup ((PartsOf(c.r) \ {c.r}) \cap h)
         \/ c.r \notin p /\ k = h /\ w = wr /\ m = lk
  PROVE  /\ StateOK(D, M, k, p, ig, ab, w, m, fw, uc)
         /\ k = h \ PartsOf(c.r) /\ c \in C /\ Mask \notin C
         /\ c = Life!Call("free", c.r) /\ c.r \in Life!Fifos
<1> DEFINE f == c.r
<1>1. CardOK(C, h, ab, fw, uc) /\ h \subseteq ModuleOwn \cup CardOwn
  BY DEF StateOK
<1>2. c \in C /\ c \notin D /\ D \subseteq C /\ \A d \in C : d = c \/ d \in D
  BY FirstIs
<1>3. /\ Loading(C) \/ Closing(C)
      /\ c = Life!Call("free", f) /\ f \in Life!Fifos /\ c # Loaded
  BY <1>1, FifoCalls
<1>4. /\ f \notin Buffers /\ f \notin CardTaken /\ f \notin ModuleOwn
      /\ PartsOf(f) \subseteq {f} \cup Buffers /\ f \in PartsOf(f)
      /\ \A g \in Life!Fifos : g # f => PartsOf(f) \cap PartsOf(g) = {} /\ g \notin Buffers
  BY <1>3, OwnersApart
<1>5. /\ h \ Buffers \subseteq p /\ p \ h \subseteq ig \cup Life!Fifos /\ p \cap Buffers = {}
      /\ FifosOK(C, h, p, ab) /\ BuffersOK(h, ig)
  BY PointersAre DEF StateOK
<1>6. k = h \ PartsOf(f)
  <2>1. f \notin h => PartsOf(f) \cap h = {}
    BY <1>3, <1>5 DEF BuffersOK
  <2>2. f \notin p => f \notin h
    BY <1>4, <1>5
  <2>3. QED BY <2>1, <2>2
<1>7. Mask \notin C
  <2>1. c # Mask
    BY <1>3, CallNamed DEF Mask
  <2>2. Mask \notin D
    BY LoadPlaces, <1>3 DEF FirstOf
  <2>3. QED BY <1>2, <2>1, <2>2
<1>8. CardOK(D, k, ab, fw, uc) /\ (Closing(C) => Shut(D, k))
  <2>1. CASE Closing(C)
    BY <1>1, <1>6, <2>1, CloseStep
  <2>2. CASE Loading(C)
    <3>1. CardOK(D, k, ab, fw, uc)
      BY <1>1, <1>3, <1>4, <1>6, <2>2, LoadStep
    <3>2. ~Closing(C)
      BY <2>2, KindLeft
    <3>3. QED BY <3>1, <3>2
  <2>3. QED BY <1>3, <2>1, <2>2
<1>9. ASSUME NEW g \in Life!Fifos, g \in p \ k
      PROVE  Dangles(ab) \/ (Life!Call("free", g) \notin D
                             /\ (Life!Call("alloc", g) \in D \/ Shut(D, k)))
  <2>1. Life!Call("alloc", g) # c
    BY <1>3, CallNamed
  <2>2. CASE g = f
    <3>1. Life!Call("free", g) \notin D
      BY <1>2, <1>3, <2>2
    <3>2. Loading(C) => Life!Call("alloc", g) \in C
      BY <1>1, <1>2, <1>3, <2>2 DEF CardOK, LoadOK
    <3>3. QED BY <1>2, <1>3, <1>8, <2>1, <3>1, <3>2
  <2>3. CASE g # f
    <3>1. g \in p \ h
      BY <1>4, <1>6, <1>9, <2>3
    <3>2. Dangles(ab) \/ (Life!Call("free", g) \notin C
                          /\ (Life!Call("alloc", g) \in C \/ Shut(C, h)))
      BY <1>5, <3>1 DEF FifosOK
    <3>3. Shut(C, h) => Closing(C)
      BY <1>2 DEF Shut
    <3>4. QED BY <1>2, <1>8, <2>1, <3>2, <3>3
  <2>4. QED BY <2>2, <2>3
<1>10. PointersOK(D, k, p, ig, ab)
  <2>1. FifosOK(D, k, p, ab)
    BY <1>9 DEF FifosOK
  <2>2. k \ Buffers \subseteq p /\ p \ k \subseteq ig \cup Life!Fifos
    BY <1>3, <1>4, <1>5, <1>6
  <2>3. QED BY <1>5, <2>1, <2>2, PointersAre
<1>11. BuffersOK(k, ig)
  <2>1. ASSUME NEW g \in Life!Fifos, PartsOf(g) \cap k # {} PROVE g \in k
    <3>1. g \in h /\ g # f
      BY <1>5, <1>6, <2>1 DEF BuffersOK
    <3>2. g \in PartsOf(g)
      BY OwnersApart
    <3>3. QED BY <1>4, <1>6, <3>1, <3>2
  <2>2. ASSUME "prep" \in k, "mabuf" \notin k PROVE "mabuf" \in ig
    <3>1. "prep" \in h /\ "prep" \notin PartsOf(f)
      BY <1>6, <2>2
    <3>2. "mabuf" \notin PartsOf(f)
      <4>1. \A g \in Life!Fifos : "mabuf" \in PartsOf(g) => g = "mafifo"
        BY FifosAre DEF PartsOf, Life!Buffer
      <4>2. "prep" \in PartsOf("mafifo")
        BY DEF PartsOf
      <4>3. QED BY <1>3, <3>1, <4>1, <4>2
    <3>3. "mabuf" \notin h
      BY <1>6, <2>2, <3>2
    <3>4. QED BY <1>5, <3>1, <3>3 DEF BuffersOK
  <2>3. QED BY <2>1, <2>2 DEF BuffersOK
<1>12. LostOK(ig, ab, w, m)
  <2>1. f \in p \ h => Dangles(ab)
    BY <1>2, <1>3, <1>5 DEF FifosOK
  <2>2. w \subseteq ig \cup (IF Dangles(ab) THEN Life!Fifos ELSE {})
    BY <1>3, <2>1 DEF StateOK, LostOK
  <2>3. ASSUME Life!Buffer(f) \notin h, NEW x, x \in (PartsOf(f) \ {f}) \cap h
        PROVE  x = "prep" /\ "mabuf" \in ig
    <3>1. x # Life!Buffer(f) /\ x \in PartsOf(f) /\ x # f /\ x \in h
      BY <2>3
    <3>2. x = "prep" /\ f = "mafifo"
      BY <3>1 DEF PartsOf
    <3>3. Life!Buffer(f) = "mabuf"
      BY <3>2 DEF Life!Buffer
    <3>4. QED BY <1>5, <2>3, <3>1, <3>2, <3>3 DEF BuffersOK
  <2>4. lk \subseteq ig \cup (IF "mabuf" \in ig THEN {"prep"} ELSE {})
    BY DEF StateOK, LostOK
  <2>5. m \subseteq ig \cup (IF "mabuf" \in ig THEN {"prep"} ELSE {})
    BY <2>3, <2>4
  <2>6. QED BY <2>2, <2>5 DEF LostOK
<1>13. ModuleOK(M, k)
  <2>1. \A x \in Buffers : x \notin ModuleOwn
    BY OwnersApart
  <2>2. k \cap ModuleOwn = h \cap ModuleOwn
    BY <1>4, <1>6, <2>1
  <2>3. QED BY <2>2, ModuleSame DEF StateOK
<1>14. DependsOK(D, k)
  <2>1. \A x \in CardTaken \cup ModuleOwn : x \in h => x \in k
    BY <1>4, <1>6, OwnersApart
  <2>2. \A d \in Life!Depends : d[2] \in CardTaken \cup ModuleOwn
    BY DependsOrder DEF ModuleOwn
  <2>3. "pci driver" \in h /\ "pci driver" \in ModuleOwn
    BY <1>2 DEF StateOK, DependsOK, ModuleOwn
  <2>4. ASSUME NEW d \in Life!Depends, d[1] \in k PROVE d[2] \in k
    <3>1. d[1] \in h
      BY <1>6, <2>4
    <3>2. d[2] \in h
      BY <3>1 DEF StateOK, DependsOK
    <3>3. QED BY <2>1, <2>2, <3>2
  <2>5. QED BY <2>1, <2>3, <2>4 DEF DependsOK
<1>15. k \subseteq ModuleOwn \cup CardOwn
  BY <1>1, <1>6
<1>16. QED BY <1>2, <1>3, <1>6, <1>7, <1>8, <1>10, <1>11, <1>12, <1>13, <1>14, <1>15 DEF StateOK

\* A FIFO is allocated.
LEMMA CardAllocates ==
  ASSUME NEW C, NEW c, NEW D, NEW M, NEW h, NEW p, NEW ig, NEW ab, NEW wr, NEW lk, NEW fw, NEW uc,
         c.op = "alloc", StateOK(C, M, h, p, ig, ab, wr, lk, fw, uc), FirstOf(C, c, D)
  PROVE  StateOK(D, M, h \cup {c.r}, p \cup {c.r}, ig, ab, wr, lk, fw, uc)
<1> DEFINE f == c.r
           k == h \cup {f}
           q == p \cup {f}
<1>1. CardOK(C, h, ab, fw, uc) /\ h \subseteq ModuleOwn \cup CardOwn
  BY DEF StateOK
<1>2. c \in C /\ c \notin D /\ D \subseteq C /\ \A d \in C : d = c \/ d \in D
  BY FirstIs
<1>3. /\ Loading(C) /\ c = Life!Call("alloc", f) /\ f \in Life!Fifos /\ c # Loaded
  BY <1>1, FifoCalls
<1>4. /\ f \notin Buffers /\ f \notin CardTaken /\ f \notin ModuleOwn /\ f \in CardOwn
      /\ \A g \in Life!Fifos : g # f => f \notin PartsOf(g)
  BY <1>3, OwnersApart DEF CardOwn
<1>5. /\ h \ Buffers \subseteq p /\ p \ h \subseteq ig \cup Life!Fifos /\ p \cap Buffers = {}
      /\ FifosOK(C, h, p, ab) /\ BuffersOK(h, ig)
  BY PointersAre DEF StateOK
<1>6. CardOK(D, k, ab, fw, uc)
  BY <1>1, <1>3, LoadStep
<1>7. PointersOK(D, k, q, ig, ab)
  <2>1. ASSUME NEW g \in Life!Fifos, g \in q \ k
        PROVE  g \in p \ h /\ Life!Call("alloc", g) # c
    BY <2>1, CallNamed
  <2>2. ~Shut(C, h)
    BY <1>2, <1>3, KindLeft DEF Shut
  <2>3. FifosOK(D, k, q, ab)
    BY <1>2, <1>5, <2>1, <2>2, FifosLeft
  <2>4. k \ Buffers \subseteq q /\ q \ k \subseteq ig \cup Life!Fifos /\ q \cap Buffers = {}
    BY <1>4, <1>5
  <2>5. QED BY <2>3, <2>4, PointersAre
<1>8. BuffersOK(k, ig)
  <2>1. ASSUME NEW g \in Life!Fifos, PartsOf(g) \cap k # {} PROVE g \in k
    BY <1>4, <1>5, <2>1 DEF BuffersOK
  <2>2. "prep" \in Buffers
    BY DEF Buffers
  <2>3. "prep" \in k => "prep" \in h
    BY <1>4, <2>2
  <2>4. QED BY <1>5, <2>1, <2>3 DEF BuffersOK
<1>9. ModuleOK(M, k)
  BY <1>4, ModuleSame DEF StateOK
<1>10. DependsOK(D, k)
  <2>1. \A d \in Life!Depends : d[1] # f
    BY <1>4, DependsOrder
  <2>2. QED BY <1>2, <2>1 DEF StateOK, DependsOK
<1>11. k \subseteq ModuleOwn \cup CardOwn
  BY <1>1, <1>4
<1>12. QED BY <1>6, <1>7, <1>8, <1>9, <1>10, <1>11 DEF StateOK

\* It is not: the load ends, and the pointers to the others are as they were.
LEMMA CardAllocatesNot ==
  ASSUME NEW C, NEW c, NEW D, NEW M, NEW h, NEW p, NEW ig, NEW ab, NEW wr, NEW lk, NEW fw, NEW uc,
         c.op = "alloc", StateOK(C, M, h, p, ig, ab, wr, lk, fw, uc), FirstOf(C, c, D)
  PROVE  /\ StateOK({}, M, h, p \ {c.r}, ig, ab \cup {c.r}, wr, lk, fw, uc)
         /\ Dangles(ab \cup {c.r})
<1> DEFINE f == c.r
           q == p \ {f}
           b == ab \cup {f}
<1>1. CardOK(C, h, ab, fw, uc)
  BY DEF StateOK
<1>2. c \in C /\ c \notin D /\ D \subseteq C /\ \A d \in C : d = c \/ d \in D
  BY FirstIs
<1>3. /\ Loading(C) /\ c = Life!Call("alloc", f) /\ f \in Life!Fifos /\ c # Loaded
  BY <1>1, FifoCalls
<1>4. /\ h \ Buffers \subseteq p /\ p \ h \subseteq ig \cup Life!Fifos /\ p \cap Buffers = {}
  BY PointersAre DEF StateOK
<1>5. Dangles(b)
  BY <1>3 DEF Dangles
<1>6. f \notin h
  <2>1. f \notin h \/ Life!Call("free", f) \in C
    BY <1>1, <1>2, <1>3 DEF CardOK, LoadOK
  <2>2. Place(Life!Call("free", f)) \in 36 .. 38 /\ Place(c) \in 43 .. 45
    BY <1>3, LoadPlaces
  <2>3. Life!Call("free", f) # c
    BY <1>3, CallNamed
  <2>4. Life!Call("free", f) \notin C
    BY <1>2, <2>2, <2>3 DEF FirstOf
  <2>5. QED BY <2>1, <2>4
<1>7. CardOK({}, h, b, fw, uc)
  <2>1. c \notin LastCalls
    BY CallNamed DEF LastCalls, Loaded
  <2>2. QED BY <1>1, <1>2, <1>3, <2>1, FailedLoad
<1>8. PointersOK({}, h, q, ig, b)
  <2>1. FifosOK({}, h, q, b)
    BY <1>5, Dangling
  <2>2. h \ Buffers \subseteq q /\ q \ h \subseteq ig \cup Life!Fifos /\ q \cap Buffers = {}
    BY <1>4, <1>6
  <2>3. QED BY <2>1, <2>2, PointersAre
<1>9. LostOK(ig, b, wr, lk)
  BY LostSame DEF StateOK
<1>10. DependsOK({}, h)
  BY <1>2 DEF StateOK, DependsOK
<1>11. QED BY <1>5, <1>7, <1>8, <1>9, <1>10 DEF StateOK

\* A FIFO gets its buffers, or some of them.
LEMMA CardInits ==
  ASSUME NEW C, NEW c, NEW D, NEW M, NEW h, NEW p, NEW ig, NEW ab, NEW wr, NEW lk, NEW fw, NEW uc,
         NEW k, NEW j, c.op = "init",
         StateOK(C, M, h, p, ig, ab, wr, lk, fw, uc), FirstOf(C, c, D),
         \/ k = h \cup (PartsOf(c.r) \ {c.r}) /\ j = ig
         \/ k \in {h, h \cup (PartsOf(c.r) \cap {"prep"})} /\ j = ig \cup {Life!Buffer(c.r)}
  PROVE  StateOK(D, M, k, p, j, ab, wr, lk, fw, uc) /\ h \subseteq k
<1> DEFINE f == c.r
<1>1. CardOK(C, h, ab, fw, uc) /\ h \subseteq ModuleOwn \cup CardOwn
  BY DEF StateOK
<1>2. c \in C /\ c \notin D /\ D \subseteq C /\ \A d \in C : d = c \/ d \in D
  BY FirstIs
<1>3. /\ Loading(C) /\ c = Life!Call("init", f) /\ f \in Life!Fifos /\ c # Loaded
  BY <1>1, FifoCalls
<1>4. /\ f \notin Buffers /\ PartsOf(f) \subseteq {f} \cup Buffers /\ f \in PartsOf(f)
      /\ \A g \in Life!Fifos : g # f => PartsOf(f) \cap PartsOf(g) = {}
      /\ \A g \in Life!Fifos : g \notin Buffers
      /\ \A x \in Buffers : x \notin CardTaken /\ x \notin ModuleOwn
  BY <1>3, OwnersApart
<1>5. /\ h \ Buffers \subseteq p /\ p \ h \subseteq ig \cup Life!Fifos /\ p \cap Buffers = {}
      /\ FifosOK(C, h, p, ab) /\ BuffersOK(h, ig)
  BY PointersAre DEF StateOK
<1>6. "prep" \in Buffers
  BY DEF Buffers
<1>7. /\ h \subseteq k /\ k \subseteq h \cup Buffers /\ k \subseteq h \cup PartsOf(f)
      /\ ig \subseteq j
  BY <1>4, <1>6
<1>8. CardOK(D, k, ab, fw, uc)
  BY <1>1, <1>3, <1>7, LoadStep
<1>9. PointersOK(D, k, p, j, ab)
  <2>1. ASSUME NEW g \in Life!Fifos, g \in p \ k
        PROVE  g \in p \ h /\ Life!Call("alloc", g) # c
    BY <1>3, <1>7, <2>1, CallNamed
  <2>2. ~Shut(C, h)
    BY <1>2, <1>3, KindLeft DEF Shut
  <2>3. FifosOK(D, k, p, ab)
    BY <1>2, <1>5, <2>1, <2>2, FifosLeft
  <2>4. k \ Buffers \subseteq p /\ p \ k \subseteq j \cup Life!Fifos
    BY <1>5, <1>7
  <2>5. QED BY <1>5, <2>3, <2>4, PointersAre
<1>10. f \in h
  <2>1. f \in h \/ Life!Call("alloc", f) \in C
    BY <1>1, <1>2, <1>3 DEF CardOK, LoadOK
  <2>2. Place(Life!Call("alloc", f)) \in 43 .. 45 /\ Place(c) \in 46 .. 48
    BY <1>3, LoadPlaces
  <2>3. Life!Call("alloc", f) # c
    BY <1>3, CallNamed
  <2>4. Life!Call("alloc", f) \notin C
    BY <1>2, <2>2, <2>3 DEF FirstOf
  <2>5. QED BY <2>1, <2>4
<1>11. BuffersOK(k, j)
  <2>1. ASSUME NEW g \in Life!Fifos, PartsOf(g) \cap k # {} PROVE g \in k
    <3>1. CASE g = f
      BY <1>7, <1>10, <3>1
    <3>2. CASE g # f
      BY <1>4, <1>5, <1>7, <2>1, <3>2 DEF BuffersOK
    <3>3. QED BY <3>1, <3>2
  <2>2. ASSUME "prep" \in k, "mabuf" \notin k PROVE "mabuf" \in j
    <3>1. CASE "prep" \in h
      BY <1>5, <1>7, <2>2, <3>1 DEF BuffersOK
    <3>2. CASE "prep" \notin h
      <4>1. "prep" \in PartsOf(f)
        BY <1>7, <2>2, <3>2
      <4>2. f = "mafifo"
        BY <1>3, <4>1, FifosAre DEF PartsOf, Life!Buffer
      <4>3. Life!Buffer(f) = "mabuf" /\ "mabuf" \in PartsOf(f) /\ "mabuf" # f
        BY <4>2 DEF PartsOf, Life!Buffer
      <4>4. QED BY <2>2, <4>3
    <3>3. QED BY <3>1, <3>2
  <2>3. QED BY <2>1, <2>2 DEF BuffersOK
<1>12. LostOK(j, ab, wr, lk)
  BY <1>7, LostSame DEF StateOK
<1>13. ModuleOK(M, k)
  <2>1. k \cap ModuleOwn = h \cap ModuleOwn
    BY <1>4, <1>7
  <2>2. QED BY <2>1, ModuleSame DEF StateOK
<1>14. DependsOK(D, k)
  <2>1. \A d \in Life!Depends : d[1] \notin Buffers
    BY <1>4, DependsOrder
  <2>2. QED BY <1>2, <1>7, <2>1 DEF StateOK, DependsOK
<1>15. k \subseteq ModuleOwn \cup CardOwn
  BY <1>1, <1>7 DEF CardOwn
<1>16. QED BY <1>7, <1>8, <1>9, <1>11, <1>12, <1>13, <1>14, <1>15 DEF StateOK

-------------------------------------------------------------------------------
(* What a call of the module does to the rest. *)

\* A call of the module: what the card's thread relies on stays as it was.
LEMMA ModuleStep ==
  ASSUME NEW C, NEW M, NEW N, NEW h, NEW p, NEW ig, NEW ab, NEW wr, NEW lk, NEW fw, NEW uc,
         NEW r \in ModuleOwn, NEW k, NEW q, NEW j, NEW b, NEW w,
         StateOK(C, M, h, p, ig, ab, wr, lk, fw, uc),
         k \in {h, h \cup {r}, h \ {r}}, q \in {p, p \cup {r}, p \ {r}},
         k \ Buffers \subseteq q, q \ k \subseteq j \cup Life!Fifos,
         ig \subseteq j, ab \subseteq b, w \subseteq wr \cup ig,
         ModuleOK(N, k), DependsOK(C, k)
  PROVE  StateOK(C, N, k, q, j, b, w, lk, fw, uc)
<1>1. r \notin CardTaken /\ r \notin Buffers /\ r \notin Life!Fifos
  BY OwnersApart
<1>2. k \cap CardOwn = h \cap CardOwn
  BY <1>1 DEF CardOwn
<1>3. CardOK(C, k, b, fw, uc) /\ (Shut(C, h) <=> Shut(C, k))
  BY <1>2, CardSame DEF StateOK
<1>4. PointersOK(C, k, q, j, b)
  <2>1. FifosOK(C, h, p, ab) /\ p \cap Buffers = {}
    BY PointersAre DEF StateOK
  <2>2. \A f \in Life!Fifos : f \in q \ k => f \in p \ h
    BY <1>1
  <2>3. FifosOK(C, k, q, b)
    BY <1>3, <2>1, <2>2, FifosLeft
  <2>4. q \cap Buffers = {}
    BY <1>1, <2>1
  <2>5. QED BY <2>3, <2>4, PointersAre
<1>5. BuffersOK(k, j)
  BY <1>1, BuffersSame DEF StateOK
<1>6. LostOK(ig, ab, w, lk)
  BY DEF StateOK, LostOK
<1>7. LostOK(j, b, w, lk)
  BY <1>6, LostSame
<1>8. k \subseteq ModuleOwn \cup CardOwn
  BY DEF StateOK
<1>9. QED BY <1>3, <1>4, <1>5, <1>7, <1>8 DEF StateOK

\* Nothing that depends on something else is the module's own.
LEMMA DependsLeft ==
  ASSUME NEW C, NEW h, NEW k, DependsOK(C, h), "pci driver" \in h => "pci driver" \in k,
         \A x \in CardTaken : x \in h <=> x \in k, h \subseteq k
  PROVE  DependsOK(C, k)
<1>1. "em" \in CardTaken
  BY DEF CardTaken
<1>2. \A d \in Life!Depends : d[1] \in CardTaken
  BY DependsOrder
<1>3. QED BY <1>1, <1>2 DEF DependsOK

\* The places of the module's calls.
LEMMA ModulePlaces ==
  /\ TakePlace("proc") = 1 /\ TakePlace("class") = 2 /\ TakePlace("chrdev") = 3
  /\ TakePlace("pci driver") = 4 /\ TakePlace("version") = 5
  /\ PutPlace("version") = 60 /\ PutPlace("pci driver") = 61 /\ PutPlace("chrdev") = 62
  /\ PutPlace("proc") = 63 /\ PutPlace("class") = 64
BY DEF TakePlace, PutPlace

\* The first call of a loading of the module.
LEMMA ModuleFirst ==
  ASSUME NEW M, NEW c, NEW N, NEW h, FirstOf(M, c, N), ModuleOK(M, h), c.op \in {"get", "try", "irq"}
  PROVE  /\ M \subseteq InitCalls /\ M # {} /\ N \subseteq M /\ c \in InitCalls
         /\ c = Life!Call(c.op, c.r) /\ c.r \in ModuleOwn /\ c.op \in {"get", "try"}
         /\ c.op = "get" => c.r \in {"chrdev", "pci driver"}
         /\ c.op = "try" => c.r \in {"proc", "class", "version"}
         /\ \A x \in h \cap ModuleOwn : TakePlace(x) < TakePlace(c.r)
         /\ Life!Call("try", "class") \in M \/ "class" \in h
         /\ Life!Call("get", "chrdev") \in M \/ "chrdev" \in h
         /\ Life!Call("get", "pci driver") \in M \/ "pci driver" \in h
         /\ \A d \in M : d = c \/ (d \in N /\ TakePlace(c.r) < Place(d))
<1>1. c \in M /\ c \notin N /\ N \subseteq M /\ \A d \in M : d = c \/ d \in N
  BY FirstIs
<1>2. c \notin Puts(ModuleOwn)
  BY ModuleCallIs
<1>3. M \subseteq InitCalls /\ c \in InitCalls
  BY <1>1, <1>2 DEF ModuleOK
<1>4. /\ c = Life!Call(c.op, c.r) /\ c.r \in ModuleOwn /\ c.op \in {"get", "try"}
      /\ c.op = "get" => c.r \in {"chrdev", "pci driver"}
      /\ c.op = "try" => c.r \in {"proc", "class", "version"}
      /\ Place(c) = TakePlace(c.r)
  BY <1>3, ModuleCallIs
<1>5. \A x \in h \cap ModuleOwn : TakePlace(x) < TakePlace(c.r)
  BY <1>1, <1>3, <1>4 DEF ModuleOK
<1>6. \A d \in M : d = c \/ (d \in N /\ TakePlace(c.r) < Place(d))
  BY <1>1, <1>4 DEF FirstOf
<1>7. /\ Life!Call("try", "class") \in M \/ "class" \in h
      /\ Life!Call("get", "chrdev") \in M \/ "chrdev" \in h
      /\ Life!Call("get", "pci driver") \in M \/ "pci driver" \in h
  BY <1>1, <1>3 DEF ModuleOK
<1>8. QED BY <1>1, <1>3, <1>4, <1>5, <1>6, <1>7

\* A step of the loading of the module that does not end it badly.
LEMMA InitStep ==
  ASSUME NEW M, NEW c, NEW N, NEW h, NEW k, FirstOf(M, c, N), ModuleOK(M, h),
         c.op \in {"get", "try", "irq"}, h \subseteq k, k \subseteq h \cup {c.r},
         c.op = "get" \/ c.r = "class" => c.r \in k
  PROVE  ModuleOK(N, k)
<1> DEFINE r == c.r
<1>1. /\ M \subseteq InitCalls /\ M # {} /\ N \subseteq M /\ c \in InitCalls
      /\ c = Life!Call(c.op, r) /\ r \in ModuleOwn /\ c.op \in {"get", "try"}
      /\ c.op = "get" => r \in {"chrdev", "pci driver"}
      /\ c.op = "try" => r \in {"proc", "class", "version"}
      /\ \A x \in h \cap ModuleOwn : TakePlace(x) < TakePlace(r)
      /\ Life!Call("try", "class") \in M \/ "class" \in h
      /\ Life!Call("get", "chrdev") \in M \/ "chrdev" \in h
      /\ Life!Call("get", "pci driver") \in M \/ "pci driver" \in h
      /\ \A d \in M : d = c \/ (d \in N /\ TakePlace(r) < Place(d))
  BY ModuleFirst
<1>2. \A d \in N, x \in k \cap ModuleOwn : TakePlace(x) < Place(d)
  <2>1. ASSUME NEW d \in N, NEW x \in k \cap ModuleOwn PROVE TakePlace(x) < Place(d)
    <3>1. TakePlace(r) < Place(d)
      <4>1. d \in M /\ d # c
        BY FirstIs
      <4>2. QED BY <1>1, <4>1, Zenon
    <3>2. x = r \/ TakePlace(x) < TakePlace(r)
      BY <1>1
    <3>3. TakePlace(x) \in Nat /\ TakePlace(r) \in Nat /\ Place(d) \in Nat
      BY PlaceIsNat
    <3>4. QED BY <3>1, <3>2, <3>3
  <2>2. QED BY <2>1
<1>3. Life!Call("try", "class") \in N \/ "class" \in k
  <2>1. c = Life!Call("try", "class") => r = "class"
    BY CallNamed
  <2>2. QED BY <1>1, <2>1
<1>4. /\ Life!Call("get", "chrdev") \in N \/ "chrdev" \in k
      /\ Life!Call("get", "pci driver") \in N \/ "pci driver" \in k
  <2>1. c = Life!Call("get", "chrdev") => c.op = "get" /\ r = "chrdev"
    BY CallNamed
  <2>2. c = Life!Call("get", "pci driver") => c.op = "get" /\ r = "pci driver"
    <3>1. /\ Life!Call("get", "pci driver").op = "get"
          /\ Life!Call("get", "pci driver").r = "pci driver"
      BY ONLY CallNamed
    <3>2. QED BY ONLY <3>1
  <2>3. c.op = "get" => r \in k
    BY Zenon
  <2>4. Life!Call("get", "chrdev") \in N \/ "chrdev" \in k
    BY <1>1, <2>1, <2>3
  <2>5. Life!Call("get", "pci driver") \in N \/ "pci driver" \in k
    BY <1>1, <2>2, <2>3
  <2>6. QED BY <2>4, <2>5
<1>5. "pci driver" \in k => {"class", "chrdev"} \subseteq k
  <2>1. CASE "pci driver" \in h
    BY <2>1 DEF ModuleOK
  <2>2. CASE r = "pci driver"
    <3>1. /\ Place(Life!Call("try", "class")) = 2 /\ Place(Life!Call("get", "chrdev")) = 3
          /\ TakePlace(r) = 4
      BY <2>2, PlaceOf, ModulePlaces DEF Takers
    <3>2. Life!Call("try", "class") # c /\ Life!Call("get", "chrdev") # c
      <4>1. Life!Call("try", "class").r = "class" /\ Life!Call("get", "chrdev").r = "chrdev"
        BY CallNamed
      <4>2. QED BY <2>2, <4>1
    <3>3. ASSUME NEW d \in M, Place(d) = 2 \/ Place(d) = 3, d # c PROVE FALSE
      <4>1. TakePlace(r) < Place(d)
        BY <1>1, <3>3, Zenon
      <4>2. QED BY ONLY <3>1, <3>3, <4>1
    <3>4. Life!Call("try", "class") \notin M /\ Life!Call("get", "chrdev") \notin M
      BY <3>1, <3>2, <3>3, Zenon
    <3>5. QED BY <1>1, <3>4
  <2>3. QED BY <2>1, <2>2
<1>6. N \subseteq Puts(ModuleOwn) => N = {}
  <2>1. \A d \in N : d.op \in {"get", "try"}
    BY <1>1, ModuleCallIs
  <2>2. \A d \in Puts(ModuleOwn) : d.op \notin {"get", "try"}
    BY ModuleCallIs
  <2>3. QED BY <2>1, <2>2
<1>7. N = {} => "pci driver" \in k
  BY <1>4
<1>8. QED BY <1>1, <1>2, <1>3, <1>4, <1>5, <1>6, <1>7 DEF ModuleOK

\* The module takes what a call is for.
LEMMA ModuleTakes ==
  ASSUME NEW C, NEW M, NEW c, NEW N, NEW h, NEW p, NEW ig, NEW ab, NEW wr, NEW lk, NEW fw, NEW uc,
         StateOK(C, M, h, p, ig, ab, wr, lk, fw, uc), FirstOf(M, c, N),
         c.op \in {"get", "try", "irq"}
  PROVE  StateOK(C, N, h \cup {c.r}, p \cup {c.r}, ig, ab, wr, lk, fw, uc)
<1> DEFINE r == c.r
           k == h \cup {r}
           q == p \cup {r}
<1>1. ModuleOK(M, h) /\ DependsOK(C, h)
  BY DEF StateOK
<1>2. r \in ModuleOwn
  BY <1>1, ModuleFirst
<1>3. ModuleOK(N, k)
  BY <1>1, InitStep
<1>4. r \notin CardTaken /\ r \notin Buffers
  BY <1>2, OwnersApart
<1>5. DependsOK(C, k)
  <2>1. \A x \in CardTaken : x \in h <=> x \in k
    BY <1>4
  <2>2. h \subseteq k /\ ("pci driver" \in h => "pci driver" \in k)
    OBVIOUS
  <2> HIDE DEF k
  <2>3. QED BY <1>1, <2>1, <2>2, DependsLeft
<1>6. k \ Buffers \subseteq q /\ q \ k \subseteq ig \cup Life!Fifos
  BY PointersAre DEF StateOK
<1>7. QED BY <1>2, <1>3, <1>5, <1>6, ModuleStep

\* The module goes on without something it tried to register.
LEMMA ModuleGoesWithout ==
  ASSUME NEW C, NEW M, NEW c, NEW N, NEW h, NEW p, NEW ig, NEW ab, NEW wr, NEW lk, NEW fw, NEW uc,
         StateOK(C, M, h, p, ig, ab, wr, lk, fw, uc), FirstOf(M, c, N),
         c.op = "try", c.r \notin Life!Unchecked
  PROVE  StateOK(C, N, h, p \ {c.r}, ig \cup {c.r}, ab, wr, lk, fw, uc)
<1> DEFINE r == c.r
           q == p \ {r}
<1>1. ModuleOK(M, h) /\ DependsOK(C, h)
  BY DEF StateOK
<1>2. /\ r \in ModuleOwn /\ r # "class"
      /\ \A x \in h \cap ModuleOwn : TakePlace(x) < TakePlace(c.r)
  BY <1>1, ModuleFirst DEF Life!Unchecked
<1>3. r \notin h
  BY <1>2, PlaceIsNat
<1>4. ModuleOK(N, h)
  <2>1. c.op = "try" /\ c.r # "class"
    BY <1>2
  <2>2. c.op = "get" \/ c.r = "class" => c.r \in h
    BY <2>1
  <2>3. c.op \in {"get", "try", "irq"} /\ h \subseteq h /\ h \subseteq h \cup {c.r}
    OBVIOUS
  <2>4. QED BY ONLY FirstOf(M, c, N), <1>1, <2>2, <2>3, InitStep
<1>5. h \ Buffers \subseteq q /\ q \ h \subseteq (ig \cup {r}) \cup Life!Fifos
  BY <1>3, PointersAre DEF StateOK
<1>6. QED BY <1>1, <1>2, <1>4, <1>5, ModuleStep

\* The module fails to get something and takes back what it has done.
LEMMA ModuleFails ==
  ASSUME NEW C, NEW M, NEW c, NEW N, NEW h, NEW p, NEW ig, NEW ab, NEW wr, NEW lk, NEW fw, NEW uc,
         StateOK(C, M, h, p, ig, ab, wr, lk, fw, uc), FirstOf(M, c, N),
         c.op \in {"get", "irq"}
  PROVE  StateOK(C, Puts(Undone(c.r)), h, p, ig, ab \cup {c.r}, wr, lk, fw, uc)
<1> DEFINE r == c.r
           E == Puts(Undone(r))
<1>1. ModuleOK(M, h) /\ DependsOK(C, h)
  BY DEF StateOK
<1>2. /\ r \in ModuleOwn /\ r \in {"chrdev", "pci driver"}
      /\ \A x \in h \cap ModuleOwn : TakePlace(x) < TakePlace(r)
  BY <1>1, ModuleFirst
<1>3. ASSUME NEW x, x \in h, x \in ModuleOwn PROVE x \in Undone(r)
  <2>1. TakePlace(x) < TakePlace(r)
    BY <1>2, <1>3
  <2>2. /\ x = "proc" \/ x = "class" \/ x = "chrdev" \/ x = "pci driver" \/ x = "version"
        /\ r = "chrdev" \/ r = "pci driver"
    BY <1>2, <1>3 DEF ModuleOwn
  <2>3. r = "chrdev" => x # "chrdev" /\ x # "pci driver" /\ x # "version"
    <3>1. TakePlace("chrdev") = 3 /\ TakePlace("pci driver") = 4 /\ TakePlace("version") = 5
      BY ModulePlaces
    <3> DEFINE a == TakePlace("chrdev")
               b == TakePlace("pci driver")
               e == TakePlace("version")
    <3>2. a = 3 /\ b = 4 /\ e = 5
      BY <3>1
    <3> HIDE DEF a, b, e
    <3>3. ~(a < a) /\ ~(b < a) /\ ~(e < a)
      BY ONLY <3>2
    <3>4. QED BY ONLY <2>1, <3>3, Zenon DEF a, b, e
  <2>4. r = "pci driver" => x # "pci driver" /\ x # "version"
    <3>1. TakePlace("pci driver") = 4 /\ TakePlace("version") = 5
      BY ModulePlaces
    <3> DEFINE b == TakePlace("pci driver")
               e == TakePlace("version")
    <3>2. b = 4 /\ e = 5
      BY <3>1
    <3> HIDE DEF b, e
    <3>3. ~(b < b) /\ ~(e < b)
      BY ONLY <3>2
    <3>4. QED BY ONLY <2>1, <3>3, Zenon DEF b, e
  <2>5. QED BY <2>2, <2>3, <2>4 DEF Undone
<1>4. Undone(r) # {} /\ Undone(r) \subseteq ModuleOwn
  BY <1>2 DEF Undone, ModuleOwn
<1>5. E \subseteq Puts(ModuleOwn) /\ E # {} /\ \A x \in h \cap ModuleOwn : Life!Call("put", x) \in E
  BY <1>3, <1>4 DEF Puts
<1>6. ~(E \subseteq InitCalls)
  <2>1. \A d \in InitCalls : d \notin Puts(ModuleOwn)
    BY ModuleCallIs
  <2>2. QED BY <1>5, <2>1
<1>7. ModuleOK(E, h)
  BY <1>1, <1>5, <1>6 DEF ModuleOK
<1>8. h \ Buffers \subseteq p /\ p \ h \subseteq ig \cup Life!Fifos
  BY PointersAre DEF StateOK
<1>9. h \in {h, h \cup {r}, h \ {r}} /\ p \in {p, p \cup {r}, p \ {r}}
  OBVIOUS
<1>10. ig \subseteq ig /\ ab \subseteq ab \cup {r} /\ wr \subseteq wr \cup ig
  OBVIOUS
<1> HIDE DEF E
<1>11. StateOK(C, E, h, p, ig, ab \cup {r}, wr, lk, fw, uc)
  <2> HIDE DEF r
  <2>1. r \in ModuleOwn
    BY <1>2
  <2>2. QED
    BY ONLY StateOK(C, M, h, p, ig, ab, wr, lk, fw, uc), <1>1, <1>7, <1>8, <1>9, <1>10, <2>1,
       ModuleStep, SMTT(30)
<1>12. QED BY <1>11 DEF E

\* The module's driver is given back only when no card is left.
NoneUnder(r, C, h) == r = "pci driver" => C = {} /\ "em" \notin h

\* The module gives back what a call is for: its driver only when no card is left.
LEMMA ModuleGives ==
  ASSUME NEW C, NEW M, NEW c, NEW N, NEW h, NEW p, NEW ig, NEW ab, NEW wr, NEW lk, NEW fw, NEW uc,
         NEW k, NEW q, NEW w, c.op = "put",
         StateOK(C, M, h, p, ig, ab, wr, lk, fw, uc), FirstOf(M, c, N),
         NoneUnder(c.r, C, h),
         \/ c.r \in p /\ k = h \ {c.r} /\ q = p \ {c.r} /\ w = wr \cup ({c.r} \ h)
         \/ c.r \notin p /\ k = h /\ q = p /\ w = wr
  PROVE  /\ StateOK(C, N, k, q, ig, ab, w, lk, fw, uc)
         /\ c.r \in ModuleOwn /\ k = h \ {c.r} /\ q = p \ {c.r}
<1> DEFINE r == c.r
<1>0. c.r = "pci driver" => C = {} /\ "em" \notin h
  BY DEF NoneUnder
<1>1. ModuleOK(M, h) /\ DependsOK(C, h) /\ CardOK(C, h, ab, fw, uc)
  BY DEF StateOK
<1>2. c \in M /\ c \notin N /\ N \subseteq M /\ \A d \in M : d = c \/ d \in N
  BY FirstIs
<1>3. \A d \in InitCalls : d \notin Puts(ModuleOwn) /\ d # c
  BY ModuleCallIs
<1>4. M \subseteq Puts(ModuleOwn) /\ c = Life!Call("put", r) /\ r \in ModuleOwn
  BY <1>1, <1>2, <1>3, ModuleCallIs DEF ModuleOK
<1>5. r \notin CardTaken /\ r \notin Buffers /\ r \notin Life!Fifos
  BY <1>4, OwnersApart
<1>6. h \ Buffers \subseteq p /\ p \ h \subseteq ig \cup Life!Fifos
  BY PointersAre DEF StateOK
<1>7. k = h \ {r} /\ q = p \ {r} /\ w \subseteq wr \cup ig
  BY <1>5, <1>6
<1>8. \A x \in h \cap ModuleOwn : Life!Call("put", x) \in M
  BY <1>1, <1>2, <1>4 DEF ModuleOK
<1>9. r \in {"class", "chrdev", "proc"} => "pci driver" \notin h
  <2>1. SUFFICES ASSUME r \in {"class", "chrdev", "proc"}, "pci driver" \in h PROVE FALSE
    OBVIOUS
  <2>2. "pci driver" \in ModuleOwn /\ r # "pci driver"
    BY <2>1 DEF ModuleOwn
  <2>3. Life!Call("put", "pci driver") \in M
    BY <1>8, <2>1, <2>2
  <2>4. Life!Call("put", "pci driver") # c
    <3>1. Life!Call("put", "pci driver").r = "pci driver"
      BY ONLY CallNamed
    <3>2. QED BY <2>2, <3>1
  <2>5. Place(c) < Place(Life!Call("put", "pci driver"))
    BY <1>2, <2>3, <2>4 DEF FirstOf
  <2>6. Place(c) = PutPlace(r) /\ Place(Life!Call("put", "pci driver")) = PutPlace("pci driver")
    BY <1>4, PlaceOf
  <2>7. PutPlace(r) = 64 \/ PutPlace(r) = 62 \/ PutPlace(r) = 63
    BY <2>1, ModulePlaces
  <2>8. PutPlace("pci driver") = 61
    BY ModulePlaces
  <2> DEFINE m == PutPlace(r)
             n == PutPlace("pci driver")
  <2>9. m < n /\ n = 61 /\ (m = 64 \/ m = 62 \/ m = 63)
    <3>1. m < n
      BY <2>5, <2>6
    <3>2. QED BY <2>7, <2>8, <3>1
  <2> HIDE DEF m, n
  <2>10. QED BY ONLY <2>9
<1>10. ModuleOK(N, k)
  <2>1. ASSUME NEW x \in k \cap ModuleOwn PROVE Life!Call("put", x) \in N
    BY <1>2, <1>7, <1>8, <2>1, CallNamed
  <2>2. "pci driver" \in k => {"class", "chrdev"} \subseteq k
    BY <1>1, <1>7, <1>9 DEF ModuleOK
  <2>3. N \subseteq InitCalls => N = {}
    BY <1>2, <1>3, <1>4
  <2>4. N \subseteq Puts(ModuleOwn)
    BY <1>2, <1>4
  <2>5. QED BY <2>1, <2>2, <2>3, <2>4 DEF ModuleOK
<1>11. r \in {"class", "chrdev", "proc", "pci driver"} => C = {} /\ "em" \notin h
  BY <1>0, <1>1, <1>9 DEF DependsOK
<1>12. C = {} /\ "em" \notin h => \A x \in CardTaken : x \in h => x = "pci device"
  BY <1>1 DEF CardOK, ShutOK, Shut, Covered, Excused, CardOwn
<1>13. DependsOK(C, k)
  <2>1. ASSUME NEW d \in Life!Depends, d[1] \in k PROVE d[2] \in k
    <3>1. d[1] \in h /\ d[2] \in h
      BY <1>1, <1>7, <2>1 DEF DependsOK
    <3>2. d[2] = r => r \in {"class", "chrdev", "proc", "pci driver"}
      BY <1>5, DependsOrder
    <3>3. d[2] # r
      BY <1>11, <1>12, <3>1, <3>2, DependsOrder
    <3>4. QED BY <1>7, <3>1, <3>3
  <2>2. "em" \in CardTaken
    BY DEF CardTaken
  <2>3. C # {} \/ "em" \in k => "pci driver" \in k
    BY <1>1, <1>7, <1>11 DEF DependsOK
  <2>4. QED BY <2>1, <2>3 DEF DependsOK
<1>14. k \ Buffers \subseteq q /\ q \ k \subseteq ig \cup Life!Fifos
  BY <1>6, <1>7
<1>15. StateOK(C, N, k, q, ig, ab, w, lk, fw, uc)
  <2>1. k \in {h, h \cup {r}, h \ {r}} /\ q \in {p, p \cup {r}, p \ {r}}
    BY <1>7
  <2>2. ig \subseteq ig /\ ab \subseteq ab /\ w \subseteq wr \cup ig
    BY <1>7
  <2>3. r \in ModuleOwn
    BY <1>4
  <2> HIDE DEF r
  <2>4. QED
    BY ONLY StateOK(C, M, h, p, ig, ab, wr, lk, fw, uc), <1>10, <1>13, <1>14, <2>1, <2>2, <2>3,
       ModuleStep, SMTT(30)
<1>16. QED BY <1>4, <1>7, <1>15

-------------------------------------------------------------------------------
(* What begins a list. *)

\* A card that is not there has nothing but, perhaps, its PCI device enabled.
LEMMA NoCard ==
  ASSUME NEW h, NEW ab, NEW fw, NEW uc, CardOK({}, h, ab, fw, uc), "em" \notin h
  PROVE  \A x \in h \cap CardOwn : Excused(x, ab)
BY DEF CardOK, ShutOK, Shut, Covered

\* The probe of a card begins.
LEMMA ProbeBegins ==
  ASSUME NEW M, NEW h, NEW p, NEW ig, NEW ab, NEW wr, NEW lk, NEW fw, NEW uc, NEW q, NEW l,
         StateOK({}, M, h, p, ig, ab, wr, lk, fw, uc), "em" \notin h, "pci driver" \in h,
         fw \in BOOLEAN,
         q = p \ (Life!Fifos \cup {"alsa", "eeprom", "encoder", "checksum"}),
         l = Life!em8300_probe(fw)
  PROVE  /\ StateOK(Calls(l), M, h, q, ig, ab, wr, lk, fw, FALSE)
         /\ \A f \in Life!Fifos : f \notin q /\ Life!Call("free", f) \notin Calls(l)
<1> DEFINE E == Calls(l)
<1>1. /\ E \subseteq ProbeCalls
      /\ Life!Call("get", "em") \in E /\ Life!Call("get", "mem") \in E
      /\ \A x \in {"subdevice nodes", "alsa"} : Life!Call("try", x) \in E => fw
  <2>1. \A x \in {"subdevice nodes", "alsa"} : Life!Call("try", x) \in E => fw # FALSE
    BY ProbePiece
  <2>2. fw # FALSE => fw
    OBVIOUS
  <2>3. QED BY <2>1, <2>2, ProbePiece
<1> HIDE DEF E
<1>2. CardOK({}, h, ab, fw, uc) /\ h \subseteq ModuleOwn \cup CardOwn
  BY DEF StateOK
<1>3. \A x \in h \cap CardOwn : Excused(x, ab)
  BY <1>2, NoCard
<1>4. \A x \in h \cap CardOwn : x = "pci device"
  BY <1>3 DEF Excused
<1>5. Probing(E)
  BY <1>1 DEF Probing
<1>6. ~Loading(E) /\ ~Closing(E) /\ E # {}
  <2>1. \A d \in ProbeCalls : d \notin CloseCalls /\ d # Loaded
    BY KindsApart
  <2>2. QED BY <1>1, <2>1 DEF Loading, Closing
<1>7. CardOK(E, h, ab, fw, FALSE)
  <2>1. ProbeOK(E, h, ab, fw)
    BY <1>1, <1>3 DEF ProbeOK
  <2>2. EnabledOK(E, h, fw, FALSE)
    <3>1. "subdevice nodes" \in CardOwn /\ "alsa" \in CardOwn
      BY DEF CardOwn, CardTaken
    <3>2. "subdevice nodes" \notin h /\ "alsa" \notin h
      BY <1>4, <3>1
    <3>3. QED BY <3>2 DEF EnabledOK
  <2>3. QED BY <1>5, <1>6, <2>1, <2>2 DEF CardOK, LoadOK, ShutOK, Shut
<1>8. PointersOK(E, h, q, ig, ab)
  <2>1. h \ Buffers \subseteq p /\ p \ h \subseteq ig \cup Life!Fifos /\ p \cap Buffers = {}
    BY PointersAre DEF StateOK
  <2>2. /\ \A f \in Life!Fifos : f \in CardOwn /\ f # "pci device"
        /\ \A x \in {"alsa", "eeprom", "encoder", "checksum"} : x \in CardOwn /\ x # "pci device"
    BY FifosAre DEF CardOwn, CardTaken
  <2>3. \A x \in Life!Fifos \cup {"alsa", "eeprom", "encoder", "checksum"} : x \notin h
    BY <1>4, <2>2
  <2>4. h \ Buffers \subseteq q /\ q \ h \subseteq ig \cup Life!Fifos /\ q \cap Buffers = {}
    BY <2>1, <2>3
  <2>5. FifosOK(E, h, q, ab)
    BY DEF FifosOK
  <2>6. QED BY <2>4, <2>5, PointersAre
<1>9. DependsOK(E, h)
  BY DEF StateOK, DependsOK
<1>10. ASSUME NEW f \in Life!Fifos PROVE Life!Call("free", f) \notin E
  <2>1. Life!Call("free", f).op = "free"
    BY ONLY CallNamed
  <2>2. \A d \in E : d.op # "free"
    BY <1>1, ProbeCallIs DEF Takers
  <2>3. QED BY <2>1, <2>2
<1>11. StateOK(E, M, h, q, ig, ab, wr, lk, fw, FALSE)
  BY <1>7, <1>8, <1>9 DEF StateOK
<1>12. QED BY <1>10, <1>11 DEF E

\* A card that is there has its registers; what its FIFOs' pointers lead to is there
\* unless an allocation has failed.
LEMMA CardThere ==
  ASSUME NEW M, NEW h, NEW p, NEW ig, NEW ab, NEW wr, NEW lk, NEW fw, NEW uc,
         StateOK({}, M, h, p, ig, ab, wr, lk, fw, uc), "em" \in h
  PROVE  /\ "mem" \in h /\ \A f \in Life!Fifos : f \in p \ h => Dangles(ab)
BY DEF StateOK, CardOK, PointersOK, Shut, Closing

\* The removal of a card begins.
LEMMA RemoveBegins ==
  ASSUME NEW M, NEW h, NEW p, NEW ig, NEW ab, NEW wr, NEW lk, NEW fw, NEW uc, NEW l,
         StateOK({}, M, h, p, ig, ab, wr, lk, fw, uc), "em" \in h,
         l = Life!em8300_remove(fw \/ uc)
  PROVE  StateOK(Calls(l), M, h, p, ig, ab, wr, lk, fw, uc) /\ Mask \in Calls(l)
<1> DEFINE E == Calls(l)
<1>1. /\ E \subseteq CloseCalls /\ Mask \in E
      /\ \A x \in CardTaken \ {"subdevice nodes", "alsa"} : Life!Call("put", x) \in E
      /\ fw \/ uc => \A x \in {"subdevice nodes", "alsa"} : Life!Call("put", x) \in E
      /\ \A f \in Life!Fifos : Life!Call("free", f) \in E
  <2>1. fw \/ uc => (fw \/ uc) = TRUE
    BY Zenon
  <2> DEFINE on == fw \/ uc
  <2>2. l = Life!em8300_remove(on) /\ (on => on = TRUE)
    BY <2>1
  <2> HIDE DEF on, E
  <2>3. /\ Calls(l) \subseteq CloseCalls /\ Mask \in Calls(l)
        /\ \A x \in CardTaken \ {"subdevice nodes", "alsa"} : Life!Call("put", x) \in Calls(l)
        /\ on = TRUE => \A x \in {"subdevice nodes", "alsa"} : Life!Call("put", x) \in Calls(l)
        /\ \A f \in Life!Fifos : Life!Call("free", f) \in Calls(l)
    BY <2>2, RemovePiece
  <2>4. on => \A x \in {"subdevice nodes", "alsa"} : Life!Call("put", x) \in E
    BY <2>2, <2>3, Zenon DEF E
  <2>5. QED BY <2>3, <2>4, Zenon DEF on, E
<1> HIDE DEF E
<1>2. /\ "mem" \in h /\ \A f \in Life!Fifos : f \in p \ h => Dangles(ab)
      /\ \A x \in {"subdevice nodes", "alsa"} : x \in h => fw \/ uc
  <2>1. "mem" \in h /\ \A f \in Life!Fifos : f \in p \ h => Dangles(ab)
    BY CardThere
  <2>2. \A x \in {"subdevice nodes", "alsa"} : x \in h => fw \/ uc
    BY DEF StateOK, CardOK, EnabledOK
  <2>3. QED BY <2>1, <2>2
<1>3. Closing(E)
  BY <1>1 DEF Closing
<1>4. ~Probing(E) /\ ~Loading(E) /\ E # {}
  <2>1. \A d \in ProbeCalls : d \notin CloseCalls
    BY KindsApart
  <2>2. Loaded \notin CloseCalls
    BY KindsApart
  <2>3. QED BY <1>1, <2>1, <2>2 DEF Probing, Loading
<1>5. \A x \in h \cap CardOwn : Covered(x, E)
  <2>1. ASSUME NEW x \in h, x \in CardTaken PROVE Covered(x, E)
    <3>1. CASE x \in {"subdevice nodes", "alsa"}
      BY <1>1, <1>2, <3>1 DEF Covered
    <3>2. CASE x \notin {"subdevice nodes", "alsa"}
      BY <1>1, <2>1, <3>2 DEF Covered
    <3>3. QED BY <3>1, <3>2
  <2>2. ASSUME NEW x \in h, x \in Life!Fifos PROVE Covered(x, E)
    BY <1>1, <2>2, OwnersApart DEF Covered
  <2>3. ASSUME NEW x \in h, x \in Buffers PROVE Covered(x, E)
    BY <1>1, <2>3, OwnersApart DEF Covered
  <2>4. QED BY <2>1, <2>2, <2>3 DEF CardOwn
<1>6. EnabledOK(E, h, fw, uc)
  BY <1>2 DEF EnabledOK
<1>7. CardOK(E, h, ab, fw, uc)
  BY <1>3, <1>4, <1>5, <1>6 DEF CardOK, ProbeOK, LoadOK, ShutOK
<1>8. PointersOK(E, h, p, ig, ab)
  BY <1>2 DEF StateOK, PointersOK
<1>9. "pci driver" \in h
  BY DEF StateOK, DependsOK
<1>10. DependsOK(E, h)
  BY <1>9 DEF StateOK, DependsOK
<1>11. StateOK(E, M, h, p, ig, ab, wr, lk, fw, uc)
  BY <1>7, <1>8, <1>10 DEF StateOK
<1>12. QED BY <1>1, <1>11 DEF E

\* A load begins.
LEMMA LoadBegins ==
  ASSUME NEW M, NEW h, NEW p, NEW ig, NEW ab, NEW wr, NEW lk, NEW fw, NEW uc, NEW l,
         StateOK({}, M, h, p, ig, ab, wr, lk, fw, uc), "em" \in h,
         l = Life!StartUcode(~fw /\ ~uc)
  PROVE  StateOK(Calls(l), M, h, p, ig, ab, wr, lk, fw, uc) /\ Mask \in Calls(l)
<1> DEFINE E == Calls(l)
<1>1. /\ E \subseteq LoadCalls /\ Loaded \in E /\ NeedVideo \in E /\ Mask \in E
      /\ \A op \in {"free", "alloc", "init"}, f \in Life!Fifos : Life!Call(op, f) \in E
      /\ \A x \in {"subdevice nodes", "alsa"} : Life!Call("try", x) \in E => ~fw /\ ~uc
  <2> DEFINE on == ~fw /\ ~uc
  <2>1. on # FALSE => on
    BY Zenon
  <2>2. l = Life!StartUcode(on)
    OBVIOUS
  <2> HIDE DEF on, E
  <2>3. /\ Calls(l) \subseteq LoadCalls /\ Loaded \in Calls(l) /\ NeedVideo \in Calls(l)
        /\ Mask \in Calls(l)
        /\ \A op \in {"free", "alloc", "init"}, f \in Life!Fifos : Life!Call(op, f) \in Calls(l)
        /\ \A x \in {"subdevice nodes", "alsa"} : Life!Call("try", x) \in Calls(l) => on # FALSE
    BY <2>2, LoadPiece
  <2>4. \A x \in {"subdevice nodes", "alsa"} : Life!Call("try", x) \in E => on
    BY <2>1, <2>3, Zenon DEF E
  <2>5. QED BY <2>3, <2>4, Zenon DEF on, E
<1> HIDE DEF E
<1>2. /\ "mem" \in h /\ \A f \in Life!Fifos : f \in p \ h => Dangles(ab)
      /\ \A x \in {"subdevice nodes", "alsa"} : x \in h => fw \/ uc
  <2>1. "mem" \in h /\ \A f \in Life!Fifos : f \in p \ h => Dangles(ab)
    BY CardThere
  <2>2. \A x \in {"subdevice nodes", "alsa"} : x \in h => fw \/ uc
    BY DEF StateOK, CardOK, EnabledOK
  <2>3. QED BY <2>1, <2>2
<1>3. Loading(E)
  BY <1>1 DEF Loading
<1>4. ~Probing(E) /\ ~Closing(E) /\ E # {}
  <2>1. \A d \in ProbeCalls : d # Loaded
    BY KindsApart
  <2>2. Loaded \notin CloseCalls
    BY KindsApart
  <2>3. QED BY <1>1, <2>1, <2>2 DEF Probing, Closing
<1>5. LoadOK(E, h, fw, uc)
  <2>1. \A x \in {"subdevice nodes", "alsa"} : Life!Call("try", x) \in E => x \notin h
    BY <1>1, <1>2
  <2>2. \A f \in Life!Fifos : /\ Life!Call("free", f) \in E
                              /\ Life!Call("alloc", f) \in E
                              /\ Life!Call("init", f) \in E
    BY <1>1
  <2>3. QED BY <1>1, <1>2, <2>1, <2>2 DEF LoadOK
<1>6. EnabledOK(E, h, fw, uc)
  BY <1>2 DEF EnabledOK
<1>7. CardOK(E, h, ab, fw, uc)
  BY <1>3, <1>4, <1>5, <1>6 DEF CardOK, ProbeOK, ShutOK, Shut
<1>8. PointersOK(E, h, p, ig, ab)
  BY <1>2 DEF StateOK, PointersOK
<1>9. "pci driver" \in h
  BY DEF StateOK, DependsOK
<1>10. DependsOK(E, h)
  BY <1>9 DEF StateOK, DependsOK
<1>11. StateOK(E, M, h, p, ig, ab, wr, lk, fw, uc)
  BY <1>7, <1>8, <1>10 DEF StateOK
<1>12. QED BY <1>1, <1>11 DEF E

\* The loading of the module begins.
LEMMA InitBegins ==
  ASSUME NEW C, NEW h, NEW p, NEW ig, NEW ab, NEW wr, NEW lk, NEW fw, NEW uc,
         StateOK(C, {}, h, p, ig, ab, wr, lk, fw, uc), "pci driver" \notin h
  PROVE  StateOK(C, InitCalls, h, p, ig, ab, wr, lk, fw, uc)
<1>1. ModuleOK({}, h)
  BY DEF StateOK
<1>2. h \cap ModuleOwn = {}
  BY <1>1 DEF ModuleOK
<1>3. /\ Life!Call("try", "class") \in InitCalls /\ Life!Call("get", "chrdev") \in InitCalls
      /\ Life!Call("get", "pci driver") \in InitCalls
  BY DEF InitCalls
<1>4. ~(InitCalls \subseteq Puts(ModuleOwn)) /\ InitCalls # {}
  BY <1>3, ModuleCallIs
<1>5. ModuleOK(InitCalls, h)
  BY <1>2, <1>3, <1>4 DEF ModuleOK
<1>6. QED BY <1>5 DEF StateOK

\* The unloading of the module begins.
LEMMA ExitBegins ==
  ASSUME NEW C, NEW h, NEW p, NEW ig, NEW ab, NEW wr, NEW lk, NEW fw, NEW uc,
         StateOK(C, {}, h, p, ig, ab, wr, lk, fw, uc)
  PROVE  StateOK(C, Puts(ModuleOwn), h, p, ig, ab, wr, lk, fw, uc)
<1>1. ModuleOK({}, h)
  BY DEF StateOK
<1>2. Life!Call("put", "proc") \in Puts(ModuleOwn)
  BY DEF Puts, ModuleOwn
<1>3. ~(Puts(ModuleOwn) \subseteq InitCalls)
  BY <1>2, ModuleCallIs
<1>4. \A x \in h \cap ModuleOwn : Life!Call("put", x) \in Puts(ModuleOwn)
  BY DEF Puts
<1>5. ModuleOK(Puts(ModuleOwn), h)
  BY <1>1, <1>3, <1>4 DEF ModuleOK
<1>6. QED BY <1>5 DEF StateOK

-------------------------------------------------------------------------------
(* Steps: the card's thread. *)

\* A call is made: the list of its thread is left without it.
LEMMA CallMade ==
  ASSUME ListsOK, NEW t \in Life!Threads, todo[t] # << >>, Life!Done(t)
  PROVE  /\ ListsOK' /\ FirstOf(Calls(todo[t]), Head(todo[t]), Calls(todo'[t]))
         /\ \A s \in Life!Threads : s # t => todo'[s] = todo[s]
<1>1. /\ DOMAIN todo = Life!Threads /\ todo[t] \in Seq(AnyCalls) /\ Increasing(todo[t])
      /\ \A s \in Life!Threads : todo[s] \in Seq(AnyCalls) /\ Increasing(todo[s])
  BY DEF ListsOK, Life!Threads
<1>2. todo' = [todo EXCEPT ![t] = Tail(todo[t])]
  BY DEF Life!Done
<1>3. /\ DOMAIN todo' = Life!Threads /\ todo'[t] = Tail(todo[t])
      /\ \A s \in Life!Threads : s # t => todo'[s] = todo[s]
  BY <1>1, <1>2
<1>4. /\ Tail(todo[t]) \in Seq(AnyCalls) /\ Increasing(Tail(todo[t]))
      /\ Calls(todo[t]) = {Head(todo[t])} \cup Calls(Tail(todo[t]))
      /\ \A c \in Calls(Tail(todo[t])) : Place(Head(todo[t])) < Place(c)
  BY <1>1, ListStep
<1>5. \A s \in Life!Threads : todo'[s] \in Seq(AnyCalls) /\ Increasing(todo'[s])
  BY <1>1, <1>3, <1>4
<1>6. "module" \in Life!Threads /\ "card" \in Life!Threads
  BY DEF Life!Threads
<1>7. ListsOK'
  BY <1>3, <1>5, <1>6 DEF ListsOK
<1>8. QED BY <1>3, <1>4, <1>7 DEF FirstOf

\* A list is replaced by another.
LEMMA ListGiven ==
  ASSUME ListsOK, NEW t \in Life!Threads, NEW l \in Seq(AnyCalls), Increasing(l),
         todo' = [todo EXCEPT ![t] = l]
  PROVE  /\ ListsOK' /\ todo'[t] = l
         /\ \A s \in Life!Threads : s # t => todo'[s] = todo[s]
<1>1. /\ DOMAIN todo = Life!Threads
      /\ \A s \in Life!Threads : todo[s] \in Seq(AnyCalls) /\ Increasing(todo[s])
  BY DEF ListsOK, Life!Threads
<1>2. /\ DOMAIN todo' = Life!Threads /\ todo'[t] = l
      /\ \A s \in Life!Threads : s # t => todo'[s] = todo[s]
  BY <1>1
<1>3. \A s \in Life!Threads : todo'[s] \in Seq(AnyCalls) /\ Increasing(todo'[s])
  BY <1>1, <1>2
<1>4. "module" \in Life!Threads /\ "card" \in Life!Threads
  BY DEF Life!Threads
<1>5. ListsOK'
  BY <1>2, <1>3, <1>4 DEF ListsOK
<1>6. QED BY <1>2, <1>5

\* The lists of both threads.
LEMMA BothThreads ==
  /\ "module" \in Life!Threads /\ "card" \in Life!Threads /\ "module" # "card"
  /\ \A t \in Life!Threads : t = "module" \/ t = "card"
BY DEF Life!Threads

\* A thread has no calls left when its list is empty.
LEMMA NoneLeft ==
  ASSUME ListsOK
  PROVE  /\ OfCard = {} <=> todo["card"] = << >>
         /\ OfModule = {} <=> todo["module"] = << >>
BY NoCalls DEF ListsOK, OfCard, OfModule

\* What it takes for the invariant to hold after a step.
LEMMA LifeKept ==
  ASSUME LifeInv, ListsOK', fwLoader' = fwLoader,
         NEW C, NEW M, NEW h, NEW p, NEW ig, NEW ab, NEW wr, NEW lk, NEW uc,
         OfCard' = C, OfModule' = M, held' = h, pointer' = p, ignored' = ig, aborted' = ab,
         wrong' = wr, leaked' = lk, ucodeloaded' = uc,
         StateOK(C, M, h, p, ig, ab, wr, lk, fwLoader, uc),
         QuietOK(OfCard, held, pointer, aborted)'
  PROVE  LifeInv'
BY DEF LifeInv

\* The handler is kept off while the interrupts stay as they are.
LEMMA QuietStays ==
  ASSUME LifeInv, armed' = armed, handler' = handler, stale' = stale, raced' = raced,
         aborted \subseteq aborted',
         Loose(held', pointer') \/ Freeing(OfCard') =>
           Loose(held, pointer) \/ Freeing(OfCard) \/ Dangles(aborted'),
         handler /\ "irq" \in held => "irq" \in held'
  PROVE  QuietOK(OfCard, held, pointer, aborted)'
<1>1. Dangles(aborted) => Dangles(aborted')
  BY DEF Dangles
<1>2. /\ Loose(held, pointer) \/ Freeing(OfCard) => Quiet(aborted)
      /\ stale # {} => raced \/ Dangles(aborted)
      /\ handler => "irq" \in held
  BY DEF LifeInv, QuietOK
<1>3. Loose(held', pointer') \/ Freeing(OfCard') => Quiet(aborted)'
  BY <1>1, <1>2 DEF Quiet
<1>4. QED BY <1>1, <1>2, <1>3 DEF QuietOK

\* FIFOs are freed after the mask is cleared, and by no other list.
LEMMA FreeingLeft ==
  ASSUME NEW C, NEW c, NEW D, FirstOf(C, c, D), c.op # "mask"
  PROVE  Freeing(D) => Freeing(C)
<1>1. Mask.op = "mask"
  BY CallNamed DEF Mask
<1>2. QED BY <1>1, FirstIs DEF Freeing

\* The first call of the card's thread, and what is left after it.
LEMMA CardCall ==
  ASSUME LifeInv, todo["card"] # << >>, Life!Done("card")
  PROVE  /\ ListsOK' /\ FirstOf(OfCard, Head(todo["card"]), OfCard') /\ OfModule' = OfModule
         /\ StateOK(OfCard, OfModule, held, pointer, ignored, aborted, wrong, leaked, fwLoader,
                    ucodeloaded)
<1>1. todo'["module"] = todo["module"]
  BY CallMade, BothThreads DEF LifeInv
<1>2. QED BY <1>1, CallMade, BothThreads DEF LifeInv, OfCard, OfModule

\* The card takes what a call is for (Succeed).
LEMMA CardSucceeds ==
  ASSUME LifeInv, Life!Succeed("card")
  PROVE  LifeInv'
<1> DEFINE c == Head(todo["card"])
<1>1. /\ todo["card"] # << >> /\ c.op \in Takers /\ Life!Needs(c.r) \subseteq held
      /\ held' = held \cup {c.r} /\ pointer' = pointer \cup {c.r} /\ Life!Done("card")
      /\ fwLoader' = fwLoader /\ wrong' = wrong /\ leaked' = leaked /\ ignored' = ignored
      /\ aborted' = aborted /\ ucodeloaded' = ucodeloaded
      /\ armed' = armed /\ handler' = handler /\ stale' = stale /\ raced' = raced
  BY DEF Life!Succeed, Life!Res, Life!Take, Life!failing, Life!irq, Takers
<1> HIDE DEF c
<1>2. /\ ListsOK' /\ FirstOf(OfCard, c, OfCard') /\ OfModule' = OfModule
      /\ StateOK(OfCard, OfModule, held, pointer, ignored, aborted, wrong, leaked, fwLoader,
                 ucodeloaded)
  BY <1>1, CardCall DEF c
<1>3. StateOK(OfCard', OfModule, held \cup {c.r}, pointer \cup {c.r}, ignored, aborted, wrong,
              leaked, fwLoader, ucodeloaded)
  BY <1>1, <1>2, CardTakes
<1>4. c.op # "mask"
  BY <1>1 DEF Takers
<1>5. Freeing(OfCard') => Freeing(OfCard)
  BY <1>2, <1>4, FreeingLeft
<1>6. Loose(held', pointer') => Loose(held, pointer)
  BY <1>1 DEF Loose
<1>7. QuietOK(OfCard, held, pointer, aborted)'
  BY <1>1, <1>5, <1>6, QuietStays
<1>8. QED BY <1>1, <1>2, <1>3, <1>7, LifeKept

\* The first call of the card's thread, whatever comes of it.
LEMMA CardFirst ==
  ASSUME LifeInv, todo["card"] # << >>
  PROVE  /\ FirstOf(OfCard, Head(todo["card"]), Calls(Tail(todo["card"]))) /\ ListsOK
         /\ StateOK(OfCard, OfModule, held, pointer, ignored, aborted, wrong, leaked, fwLoader,
                    ucodeloaded)
<1>1. todo["card"] \in Seq(AnyCalls) /\ Increasing(todo["card"])
  BY DEF LifeInv, ListsOK
<1>2. QED BY <1>1, ListStep DEF FirstOf, OfCard, LifeInv

\* What a probe, an unwinding or an empty list frees: no FIFO.
LEMMA PutsFreeNone == ~Freeing({}) /\ \A rs : ~Freeing(Puts(rs))
<1>1. \A f : Life!Call("free", f).op = "free"
  BY ONLY CallNamed
<1>2. \A rs : \A d \in Puts(rs) : d.op = "put"
  BY CallNamed DEF Puts
<1>3. QED BY <1>1, <1>2 DEF Freeing

\* Of what the card's calls take, nothing is a FIFO.
LEMMA TakenLoose ==
  ASSUME NEW C, NEW c, NEW D, NEW h, NEW p, NEW q, NEW ab, NEW fw, NEW uc,
         FirstOf(C, c, D), CardOK(C, h, ab, fw, uc), c.op \in Takers,
         q \subseteq p \cup {c.r}
  PROVE  Loose(h, q) => Loose(h, p)
<1>1. c.r \notin Life!Fifos
  BY FirstTaken, TakenApart
<1>2. QED BY <1>1 DEF Loose

\* An acquisition of the card fails: its thread takes back what it has done.
LEMMA CardGetFails ==
  ASSUME LifeInv, Life!FailGet("card")
  PROVE  LifeInv'
<1> DEFINE c == Head(todo["card"])
           l == Life!Unwinding(c.r)
<1>1. /\ todo["card"] # << >> /\ c.op \in {"get", "irq"} /\ c.r \notin Life!Unchecked
      /\ todo' = [todo EXCEPT !["card"] = l] /\ aborted' = aborted \cup {c.r}
      /\ held' = held /\ pointer' = pointer /\ fwLoader' = fwLoader /\ wrong' = wrong
      /\ leaked' = leaked /\ ignored' = ignored /\ ucodeloaded' = ucodeloaded
      /\ armed' = armed /\ handler' = handler /\ stale' = stale /\ raced' = raced
  BY DEF Life!FailGet, Life!AtCall, Life!Res, Life!kernel, Life!irq
<1> HIDE DEF c
<1>2. /\ FirstOf(OfCard, c, Calls(Tail(todo["card"])))
      /\ StateOK(OfCard, OfModule, held, pointer, ignored, aborted, wrong, leaked, fwLoader,
                 ucodeloaded) /\ ListsOK
  BY <1>1, CardFirst DEF c
<1>3. /\ StateOK(Puts(Undone(c.r)), OfModule, held, pointer, ignored, aborted \cup {c.r}, wrong,
                 leaked, fwLoader, ucodeloaded)
      /\ \A f \in Life!Fifos : f \in pointer \ held => Dangles(aborted)
  BY <1>1, <1>2, CardFails
<1>4. l \in Seq(AnyCalls) /\ Increasing(l) /\ Calls(l) = Puts(Undone(c.r))
  BY UnwindingPiece
<1> HIDE DEF l
<1>5. ListsOK' /\ OfCard' = Puts(Undone(c.r)) /\ OfModule' = OfModule
  <2>1. ListsOK' /\ todo'["card"] = l /\ todo'["module"] = todo["module"]
    BY <1>1, <1>2, <1>4, ListGiven, BothThreads
  <2>2. QED BY <1>4, <2>1 DEF OfCard, OfModule
<1>6. Loose(held', pointer') \/ Freeing(OfCard') => Dangles(aborted')
  BY <1>1, <1>3, <1>5, PutsFreeNone DEF Loose, Dangles
<1>7. QuietOK(OfCard, held, pointer, aborted)'
  BY <1>1, <1>6, QuietStays
<1>8. QED BY <1>1, <1>3, <1>5, <1>7, LifeKept

\* A call of the card fails and is passed over.
LEMMA CardPassesOver ==
  ASSUME LifeInv, todo["card"] # << >>,
         Head(todo["card"]).op \in {"try", "hope", "irq", "mtrr"}, Life!Done("card"),
         pointer' \in {pointer \cup {Head(todo["card"]).r}, pointer \ {Head(todo["card"]).r}},
         leaked' \in {leaked, leaked \cup {Head(todo["card"]).r}},
         ignored' = ignored \cup {Head(todo["card"]).r},
         held' = held, fwLoader' = fwLoader, wrong' = wrong, aborted' = aborted,
         ucodeloaded' = ucodeloaded,
         armed' = armed, handler' = handler, stale' = stale, raced' = raced
  PROVE  LifeInv'
<1> DEFINE c == Head(todo["card"])
<1>1. /\ c.op \in {"try", "hope", "irq", "mtrr"} /\ c.op \in Takers /\ c.op # "mask"
      /\ pointer' \in {pointer \cup {c.r}, pointer \ {c.r}}
      /\ pointer' \subseteq pointer \cup {c.r}
      /\ leaked' \subseteq leaked \cup {c.r} /\ ignored' = ignored \cup {c.r}
  BY DEF Takers
<1> HIDE DEF c
<1>2. /\ ListsOK' /\ FirstOf(OfCard, c, OfCard') /\ OfModule' = OfModule
      /\ StateOK(OfCard, OfModule, held, pointer, ignored, aborted, wrong, leaked, fwLoader,
                 ucodeloaded)
  BY CardCall DEF c
<1>3. StateOK(OfCard', OfModule, held, pointer', ignored \cup {c.r}, aborted, wrong,
              leaked', fwLoader, ucodeloaded)
  BY <1>1, <1>2, CardGoesWithout
<1>4. Freeing(OfCard') => Freeing(OfCard)
  BY <1>1, <1>2, FreeingLeft
<1>5. CardOK(OfCard, held, aborted, fwLoader, ucodeloaded)
  BY <1>2 DEF StateOK
<1>6. Loose(held', pointer') => Loose(held, pointer)
  BY <1>1, <1>2, <1>5, TakenLoose
<1>7. QuietOK(OfCard, held, pointer, aborted)'
  BY <1>4, <1>6, QuietStays
<1>8. QED BY <1>1, <1>2, <1>3, <1>7, LifeKept

\* The card goes on without something it tried to register (FailTry).
LEMMA CardTriesInVain ==
  ASSUME LifeInv, Life!FailTry("card")
  PROVE  LifeInv'
<1>1. /\ todo["card"] # << >> /\ Head(todo["card"]).op = "try" /\ Life!Done("card")
      /\ pointer' = pointer \ {Head(todo["card"]).r}
      /\ ignored' = ignored \cup {Head(todo["card"]).r}
      /\ held' = held /\ fwLoader' = fwLoader /\ wrong' = wrong /\ leaked' = leaked
      /\ aborted' = aborted /\ ucodeloaded' = ucodeloaded
      /\ armed' = armed /\ handler' = handler /\ stale' = stale /\ raced' = raced
  BY DEF Life!FailTry, Life!AtCall, Life!Res, Life!irq
<1>2. QED BY <1>1, CardPassesOver

\* The card goes on as if it had got something (FailHope).
LEMMA CardHopesInVain ==
  ASSUME LifeInv, Life!FailHope("card")
  PROVE  LifeInv'
<1>1. /\ todo["card"] # << >> /\ Head(todo["card"]).op \in {"hope", "irq", "mtrr"}
      /\ Life!Done("card")
      /\ pointer' = pointer \cup {Head(todo["card"]).r}
      /\ ignored' = ignored \cup {Head(todo["card"]).r}
      /\ held' = held /\ fwLoader' = fwLoader /\ wrong' = wrong /\ leaked' = leaked
      /\ aborted' = aborted /\ ucodeloaded' = ucodeloaded
      /\ armed' = armed /\ handler' = handler /\ stale' = stale /\ raced' = raced
  BY DEF Life!FailHope, Life!AtCall, Life!Res, Life!irq
<1>2. QED BY <1>1, CardPassesOver

\* The range register 0 is taken for none (MtrrZero).
LEMMA CardTakesNone ==
  ASSUME LifeInv, Life!MtrrZero("card")
  PROVE  LifeInv'
<1> DEFINE c == Head(todo["card"])
<1>1. /\ todo["card"] # << >> /\ c.op = "mtrr" /\ Life!Done("card")
      /\ pointer' = pointer \ {"mtrr"} /\ leaked' = leaked \cup {"mtrr"}
      /\ ignored' = ignored \cup {"mtrr"}
      /\ held' = held /\ fwLoader' = fwLoader /\ wrong' = wrong
      /\ aborted' = aborted /\ ucodeloaded' = ucodeloaded
      /\ armed' = armed /\ handler' = handler /\ stale' = stale /\ raced' = raced
  BY DEF Life!MtrrZero, Life!AtCall, Life!irq
<1> HIDE DEF c
<1>2. /\ FirstOf(OfCard, c, OfCard') /\ CardOK(OfCard, held, aborted, fwLoader, ucodeloaded)
  BY <1>1, CardCall DEF c, StateOK
<1>3. c.r = "mtrr"
  <2>1. c \in OfCard /\ c.op \in Takers
    BY <1>1, <1>2, FirstIs DEF Takers
  <2>2. Probing(OfCard) \/ c.op = "try"
    BY <1>2, <2>1, FirstTaken
  <2>3. c \in ProbeCalls
    BY <1>1, <2>1, <2>2 DEF Probing
  <2>4. QED BY <1>1, <2>3, ProbeCallIs
<1>4. QED BY <1>1, <1>3, CardPassesOver DEF c

\* The card's thread gives up.
LEMMA CardStops ==
  ASSUME ListsOK, todo' = [todo EXCEPT !["card"] = << >>]
  PROVE  ListsOK' /\ OfCard' = {} /\ OfModule' = OfModule
<1> DEFINE l == << >>
<1>1. l \in Seq(AnyCalls) /\ Increasing(l)
  BY DEF Increasing
<1>2. todo' = [todo EXCEPT !["card"] = l]
  OBVIOUS
<1> HIDE DEF l
<1>3. ListsOK' /\ todo'["card"] = l /\ todo'["module"] = todo["module"]
  BY <1>1, <1>2, ListGiven, BothThreads
<1>4. todo'["card"] \in Seq(AnyCalls)
  BY <1>1, <1>3
<1>5. OfCard' = {}
  BY <1>3, <1>4, NoCalls DEF OfCard, l
<1>6. QED BY <1>3, <1>5 DEF OfModule

\* The card gives something back: its interrupt only when the handler is done.
LEMMA CardPuts ==
  ASSUME LifeInv, Life!Put("card")
  PROVE  LifeInv'
<1> DEFINE c == Head(todo["card"])
<1>1. /\ todo["card"] # << >> /\ c.op = "put" /\ Life!Done("card")
      /\ c.r = "irq" => ~handler
      /\ \/ c.r \in pointer /\ held' = held \ {c.r} /\ pointer' = pointer \ {c.r}
            /\ wrong' = wrong \cup ({c.r} \ held)
         \/ c.r \notin pointer /\ held' = held /\ pointer' = pointer /\ wrong' = wrong
      /\ fwLoader' = fwLoader /\ leaked' = leaked /\ ignored' = ignored
      /\ aborted' = aborted /\ ucodeloaded' = ucodeloaded
      /\ armed' = armed /\ handler' = handler /\ stale' = stale /\ raced' = raced
  BY DEF Life!Put, Life!AtCall, Life!Res, Life!failing, Life!irq
<1> HIDE DEF c
<1>2. /\ ListsOK' /\ FirstOf(OfCard, c, OfCard') /\ OfModule' = OfModule
      /\ StateOK(OfCard, OfModule, held, pointer, ignored, aborted, wrong, leaked, fwLoader,
                 ucodeloaded)
  BY <1>1, CardCall DEF c
<1>3. /\ StateOK(OfCard', OfModule, held', pointer', ignored, aborted, wrong', leaked, fwLoader,
                 ucodeloaded)
      /\ held' = held \ {c.r} /\ pointer' = pointer \ {c.r}
  BY <1>1, <1>2, CardGives
<1>4. Freeing(OfCard') => Freeing(OfCard)
  BY <1>1, <1>2, FreeingLeft
<1>5. Loose(held', pointer') => Loose(held, pointer)
  BY <1>3 DEF Loose
<1>6. handler /\ "irq" \in held => "irq" \in held'
  BY <1>1, <1>3
<1>7. QuietOK(OfCard, held, pointer, aborted)'
  BY <1>1, <1>4, <1>5, <1>6, QuietStays
<1>8. QED BY <1>1, <1>2, <1>3, <1>7, LifeKept

\* The interrupts are masked: from then on the handler is not started.
LEMMA CardMasks ==
  ASSUME LifeInv, Life!Mask("card")
  PROVE  LifeInv'
<1> DEFINE c == Head(todo["card"])
<1>1. /\ todo["card"] # << >> /\ c.op = "mask" /\ Life!Done("card")
      /\ held' = held /\ pointer' = pointer /\ wrong' = wrong
      /\ fwLoader' = fwLoader /\ leaked' = leaked /\ ignored' = ignored
      /\ aborted' = aborted /\ ucodeloaded' = ucodeloaded
      /\ handler' = handler /\ stale' = stale
  BY DEF Life!Mask, Life!AtCall, Life!kernel, Life!failing
<1> HIDE DEF c
<1>2. /\ ListsOK' /\ FirstOf(OfCard, c, OfCard') /\ OfModule' = OfModule
      /\ StateOK(OfCard, OfModule, held, pointer, ignored, aborted, wrong, leaked, fwLoader,
                 ucodeloaded)
  BY <1>1, CardCall DEF c
<1>3. StateOK(OfCard', OfModule, held, pointer, ignored, aborted, wrong, leaked, fwLoader,
              ucodeloaded)
  BY <1>1, <1>2, CardGoesOn
<1>4. ~armed' /\ (handler => raced') /\ (raced => raced')
  BY Zenon DEF Life!Mask
<1>5. /\ stale # {} => raced \/ Dangles(aborted)
      /\ handler => "irq" \in held
  BY DEF LifeInv, QuietOK
<1>6. Quiet(aborted)'
  BY <1>1, <1>4 DEF Quiet
<1>7. QuietOK(OfCard, held, pointer, aborted)'
  BY <1>1, <1>4, <1>5, <1>6 DEF QuietOK
<1>8. QED BY <1>1, <1>2, <1>3, <1>7, LifeKept

\* A command of a load succeeds, or fails and ends the load.
LEMMA CardNeeds ==
  ASSUME LifeInv, Life!Need("card")
  PROVE  LifeInv'
<1> DEFINE c == Head(todo["card"])
<1>1. /\ todo["card"] # << >> /\ c.op = "need"
      /\ \/ Life!Done("card") /\ aborted' = aborted
         \/ todo' = [todo EXCEPT !["card"] = << >>] /\ aborted' = aborted \cup {c.r}
      /\ held' = held /\ pointer' = pointer /\ wrong' = wrong
      /\ fwLoader' = fwLoader /\ leaked' = leaked /\ ignored' = ignored
      /\ ucodeloaded' = ucodeloaded
      /\ armed' = armed /\ handler' = handler /\ stale' = stale /\ raced' = raced
  BY DEF Life!Need, Life!AtCall, Life!Res, Life!kernel, Life!irq
<1> HIDE DEF c
<1>2. CASE Life!Done("card") /\ aborted' = aborted
  <2>1. /\ ListsOK' /\ FirstOf(OfCard, c, OfCard') /\ OfModule' = OfModule
        /\ StateOK(OfCard, OfModule, held, pointer, ignored, aborted, wrong, leaked, fwLoader,
                   ucodeloaded)
    BY <1>1, <1>2, CardCall DEF c
  <2>2. StateOK(OfCard', OfModule, held, pointer, ignored, aborted, wrong, leaked, fwLoader,
                ucodeloaded)
    BY <1>1, <2>1, CardGoesOn
  <2>3. Freeing(OfCard') => Freeing(OfCard)
    BY <1>1, <2>1, FreeingLeft
  <2>4. QuietOK(OfCard, held, pointer, aborted)'
    BY <1>1, <1>2, <2>3, QuietStays
  <2>5. QED BY <1>1, <1>2, <2>1, <2>2, <2>4, LifeKept
<1>3. CASE todo' = [todo EXCEPT !["card"] = << >>] /\ aborted' = aborted \cup {c.r}
  <2>1. /\ FirstOf(OfCard, c, Calls(Tail(todo["card"]))) /\ ListsOK
        /\ StateOK(OfCard, OfModule, held, pointer, ignored, aborted, wrong, leaked, fwLoader,
                   ucodeloaded)
    BY <1>1, CardFirst DEF c
  <2>2. /\ StateOK({}, OfModule, held, pointer, ignored, aborted', wrong, leaked, fwLoader,
                   ucodeloaded)
        /\ \A f \in Life!Fifos : f \in pointer \ held => Dangles(aborted)
    BY <1>1, <1>3, <2>1, CardGivesUp
  <2>3. ListsOK' /\ OfCard' = {} /\ OfModule' = OfModule
    BY <1>3, <2>1, CardStops
  <2>4. Loose(held', pointer') \/ Freeing(OfCard') => Dangles(aborted')
    BY <1>1, <1>3, <2>2, <2>3, PutsFreeNone DEF Loose, Dangles
  <2>5. QuietOK(OfCard, held, pointer, aborted)'
    BY <1>1, <1>3, <2>4, QuietStays
  <2>6. QED BY <1>1, <2>2, <2>3, <2>5, LifeKept
<1>4. QED BY <1>1, <1>2, <1>3

\* A FIFO of a card's call: its parts are it and its buffers.
LEMMA CardFifo ==
  ASSUME NEW C, NEW c, NEW D, NEW h, NEW ab, NEW fw, NEW uc,
         CardOK(C, h, ab, fw, uc), FirstOf(C, c, D), c.op \in {"free", "alloc", "init"}
  PROVE  /\ c.r \in Life!Fifos
         /\ PartsOf(c.r) \ {c.r}
              = {Life!Buffer(c.r)} \cup (IF c.r = "mafifo" THEN {"prep"} ELSE {})
         /\ PartsOf(c.r) \cap {"prep"} = IF c.r = "mafifo" THEN {"prep"} ELSE {}
<1>1. c.r \in Life!Fifos
  BY FifoCalls
<1>2. Life!Buffer(c.r) \in {"mvbuf", "mabuf", "spbuf"} /\ c.r \in {"mvfifo", "mafifo", "spfifo"}
  BY <1>1, FifosAre DEF Life!Buffer
<1>3. QED BY <1>1, <1>2 DEF PartsOf

\* A FIFO is freed, with the handler kept off.
LEMMA CardFreesFifo ==
  ASSUME LifeInv, Life!FifoFree("card")
  PROVE  LifeInv'
<1> DEFINE c == Head(todo["card"])
           bufs == {Life!Buffer(c.r)} \cup (IF c.r = "mafifo" THEN {"prep"} ELSE {})
<1>1. /\ todo["card"] # << >> /\ c.op = "free" /\ Life!Done("card")
      /\ \/ /\ c.r \in pointer /\ held' = held \ ({c.r} \cup bufs)
            /\ wrong' = wrong \cup ({c.r} \ held)
            /\ \/ leaked' = leaked
               \/ Life!Buffer(c.r) \notin held /\ leaked' = leaked \cup (bufs \cap held)
         \/ c.r \notin pointer /\ held' = held /\ wrong' = wrong /\ leaked' = leaked
      /\ fwLoader' = fwLoader /\ pointer' = pointer /\ ignored' = ignored
      /\ aborted' = aborted /\ ucodeloaded' = ucodeloaded
      /\ armed' = armed /\ handler' = handler /\ stale' = stale /\ raced' = raced
  BY DEF Life!FifoFree, Life!AtCall, Life!Res, Life!failing, Life!irq, Life!Valid
<1> HIDE DEF c
<1>2. /\ ListsOK' /\ FirstOf(OfCard, c, OfCard') /\ OfModule' = OfModule
      /\ StateOK(OfCard, OfModule, held, pointer, ignored, aborted, wrong, leaked, fwLoader,
                 ucodeloaded)
  BY <1>1, CardCall DEF c
<1>3. /\ c.r \in Life!Fifos /\ bufs = PartsOf(c.r) \ {c.r} /\ PartsOf(c.r) = {c.r} \cup bufs
  <2>1. CardOK(OfCard, held, aborted, fwLoader, ucodeloaded)
    BY <1>2 DEF StateOK
  <2>2. c.r \in Life!Fifos /\ PartsOf(c.r) \ {c.r} = bufs
    BY <1>1, <1>2, <2>1, CardFifo
  <2>3. c.r \in PartsOf(c.r)
    BY <2>2, OwnersApart
  <2>4. QED BY <2>2, <2>3
<1> HIDE DEF bufs
<1>4. \/ /\ c.r \in pointer /\ held' = held \ PartsOf(c.r) /\ wrong' = wrong \cup ({c.r} \ held)
         /\ \/ leaked' = leaked
            \/ /\ Life!Buffer(c.r) \notin held
               /\ leaked' = leaked \cup ((PartsOf(c.r) \ {c.r}) \cap held)
      \/ c.r \notin pointer /\ held' = held /\ wrong' = wrong /\ leaked' = leaked
  BY <1>1, <1>3
<1>5. /\ StateOK(OfCard', OfModule, held', pointer, ignored, aborted, wrong', leaked', fwLoader,
                 ucodeloaded)
      /\ c \in OfCard /\ Mask \notin OfCard /\ c = Life!Call("free", c.r)
      /\ held' = held \ PartsOf(c.r)
  BY <1>1, <1>2, <1>4, CardFrees
<1>6. Freeing(OfCard)
  BY <1>3, <1>5 DEF Freeing
<1>7. handler /\ "irq" \in held => "irq" \in held'
  <2>1. "irq" \in CardTaken
    BY DEF CardTaken
  <2>2. "irq" \notin PartsOf(c.r)
    BY <1>3, <2>1, TakenApart
  <2>3. QED BY <1>5, <2>2
<1>8. QuietOK(OfCard, held, pointer, aborted)'
  BY <1>1, <1>6, <1>7, QuietStays
<1>9. QED BY <1>1, <1>2, <1>5, <1>8, LifeKept

\* A FIFO is allocated, or the load ends.
LEMMA CardAllocatesFifo ==
  ASSUME LifeInv, Life!FifoAlloc("card")
  PROVE  LifeInv'
<1> DEFINE c == Head(todo["card"])
<1>1. /\ todo["card"] # << >> /\ c.op = "alloc"
      /\ \/ /\ held' = held \cup {c.r} /\ pointer' = pointer \cup {c.r} /\ Life!Done("card")
            /\ aborted' = aborted
         \/ /\ held' = held /\ pointer' = pointer \ {c.r} /\ aborted' = aborted \cup {c.r}
            /\ todo' = [todo EXCEPT !["card"] = << >>]
      /\ fwLoader' = fwLoader /\ wrong' = wrong /\ leaked' = leaked /\ ignored' = ignored
      /\ ucodeloaded' = ucodeloaded
      /\ armed' = armed /\ handler' = handler /\ stale' = stale /\ raced' = raced
  BY DEF Life!FifoAlloc, Life!AtCall, Life!Res, Life!Take, Life!irq
<1> HIDE DEF c
<1>2. CASE /\ held' = held \cup {c.r} /\ pointer' = pointer \cup {c.r} /\ Life!Done("card")
           /\ aborted' = aborted
  <2>1. /\ ListsOK' /\ FirstOf(OfCard, c, OfCard') /\ OfModule' = OfModule
        /\ StateOK(OfCard, OfModule, held, pointer, ignored, aborted, wrong, leaked, fwLoader,
                   ucodeloaded)
    BY <1>1, <1>2, CardCall DEF c
  <2>2. StateOK(OfCard', OfModule, held \cup {c.r}, pointer \cup {c.r}, ignored, aborted, wrong,
                leaked, fwLoader, ucodeloaded)
    BY <1>1, <2>1, CardAllocates
  <2>3. Freeing(OfCard') => Freeing(OfCard)
    BY <1>1, <2>1, FreeingLeft
  <2>4. Loose(held', pointer') => Loose(held, pointer)
    BY <1>2 DEF Loose
  <2>5. QuietOK(OfCard, held, pointer, aborted)'
    BY <1>1, <1>2, <2>3, <2>4, QuietStays
  <2>6. QED BY <1>1, <1>2, <2>1, <2>2, <2>5, LifeKept
<1>3. CASE /\ held' = held /\ pointer' = pointer \ {c.r} /\ aborted' = aborted \cup {c.r}
           /\ todo' = [todo EXCEPT !["card"] = << >>]
  <2>1. /\ FirstOf(OfCard, c, Calls(Tail(todo["card"]))) /\ ListsOK
        /\ StateOK(OfCard, OfModule, held, pointer, ignored, aborted, wrong, leaked, fwLoader,
                   ucodeloaded)
    BY <1>1, CardFirst DEF c
  <2>2. /\ StateOK({}, OfModule, held, pointer \ {c.r}, ignored, aborted \cup {c.r}, wrong,
                   leaked, fwLoader, ucodeloaded)
        /\ Dangles(aborted \cup {c.r})
    BY <1>1, <2>1, CardAllocatesNot
  <2>3. ListsOK' /\ OfCard' = {} /\ OfModule' = OfModule
    BY <1>3, <2>1, CardStops
  <2>4. QuietOK(OfCard, held, pointer, aborted)'
    BY <1>1, <1>3, <2>2, QuietStays
  <2>5. QED BY <1>1, <1>3, <2>2, <2>3, <2>4, LifeKept
<1>4. QED BY <1>1, <1>2, <1>3

\* A FIFO gets its buffers, all or some.
LEMMA CardInitsFifo ==
  ASSUME LifeInv, Life!FifoInit("card")
  PROVE  LifeInv'
<1> DEFINE c == Head(todo["card"])
           prep == IF c.r = "mafifo" THEN {"prep"} ELSE {}
<1>1. /\ todo["card"] # << >> /\ c.op = "init" /\ Life!Done("card")
      /\ \/ held' = held \cup {Life!Buffer(c.r)} \cup prep /\ ignored' = ignored
         \/ held' \in {held, held \cup prep} /\ ignored' = ignored \cup {Life!Buffer(c.r)}
      /\ fwLoader' = fwLoader /\ pointer' = pointer /\ wrong' = wrong /\ leaked' = leaked
      /\ aborted' = aborted /\ ucodeloaded' = ucodeloaded
      /\ armed' = armed /\ handler' = handler /\ stale' = stale /\ raced' = raced
  BY DEF Life!FifoInit, Life!AtCall, Life!Res, Life!irq
<1> HIDE DEF c
<1>2. /\ ListsOK' /\ FirstOf(OfCard, c, OfCard') /\ OfModule' = OfModule
      /\ StateOK(OfCard, OfModule, held, pointer, ignored, aborted, wrong, leaked, fwLoader,
                 ucodeloaded)
  BY <1>1, CardCall DEF c
<1>3. PartsOf(c.r) \ {c.r} = {Life!Buffer(c.r)} \cup prep /\ PartsOf(c.r) \cap {"prep"} = prep
  <2>1. CardOK(OfCard, held, aborted, fwLoader, ucodeloaded)
    BY <1>2 DEF StateOK
  <2>2. QED BY <1>1, <1>2, <2>1, CardFifo
<1> HIDE DEF prep
<1>4. \/ held' = held \cup (PartsOf(c.r) \ {c.r}) /\ ignored' = ignored
      \/ /\ held' \in {held, held \cup (PartsOf(c.r) \cap {"prep"})}
         /\ ignored' = ignored \cup {Life!Buffer(c.r)}
  BY <1>1, <1>3
<1>5. /\ StateOK(OfCard', OfModule, held', pointer, ignored', aborted, wrong, leaked, fwLoader,
                 ucodeloaded)
      /\ held \subseteq held'
  BY <1>1, <1>2, <1>4, CardInits
<1>6. Freeing(OfCard') => Freeing(OfCard)
  BY <1>1, <1>2, FreeingLeft
<1>7. Loose(held', pointer') => Loose(held, pointer)
  BY <1>1, <1>5 DEF Loose
<1>8. QuietOK(OfCard, held, pointer, aborted)'
  BY <1>1, <1>5, <1>6, <1>7, QuietStays
<1>9. QED BY <1>1, <1>2, <1>5, <1>8, LifeKept

\* The microcode runs.
LEMMA CardIsLoaded ==
  ASSUME LifeInv, Life!Loaded("card")
  PROVE  LifeInv'
<1> DEFINE c == Head(todo["card"])
<1>1. /\ todo["card"] # << >> /\ c.op = "loaded" /\ Life!Done("card") /\ ucodeloaded' = TRUE
      /\ held' = held /\ pointer' = pointer /\ wrong' = wrong
      /\ fwLoader' = fwLoader /\ leaked' = leaked /\ ignored' = ignored
      /\ aborted' = aborted
      /\ armed' = armed /\ handler' = handler /\ stale' = stale /\ raced' = raced
  BY DEF Life!Loaded, Life!AtCall, Life!kernel, Life!failing, Life!irq
<1> HIDE DEF c
<1>2. /\ ListsOK' /\ FirstOf(OfCard, c, OfCard') /\ OfModule' = OfModule
      /\ StateOK(OfCard, OfModule, held, pointer, ignored, aborted, wrong, leaked, fwLoader,
                 ucodeloaded)
  BY <1>1, CardCall DEF c
<1>3. /\ StateOK({}, OfModule, held, pointer, ignored, aborted, wrong, leaked, fwLoader, TRUE)
      /\ \A f \in Life!Fifos : f \in pointer \ held => Dangles(aborted)
  BY <1>1, <1>2, CardGivesUp
<1>4. OfCard' = {}
  <2>1. /\ CardOK(OfCard, held, aborted, fwLoader, ucodeloaded) /\ c \in OfCard
    BY <1>2, FirstIs DEF StateOK
  <2>2. Loading(OfCard)
    <3>1. ~Probing(OfCard)
      BY <1>1, <2>1, ProbeCallIs DEF Probing, Takers
    <3>2. ~Closing(OfCard)
      BY <1>1, <2>1, CloseCallIs DEF Closing
    <3>3. QED BY <2>1, <3>1, <3>2 DEF CardOK
  <2>3. c = Loaded
    <3>1. c \in LoadCalls
      BY <2>1, <2>2 DEF Loading
    <3>2. QED BY <1>1, <3>1, LoadCallIs
  <2>4. QED BY <1>2, <2>2, <2>3, KindLeft
<1>5. Loose(held', pointer') \/ Freeing(OfCard') => Dangles(aborted')
  BY <1>1, <1>3, <1>4, PutsFreeNone DEF Loose, Dangles
<1>6. QuietOK(OfCard, held, pointer, aborted)'
  BY <1>1, <1>5, QuietStays
<1>7. QED BY <1>1, <1>2, <1>3, <1>4, <1>6, LifeKept

-------------------------------------------------------------------------------
(* Steps: the module's thread. *)

\* The first call of the module's thread, whatever comes of it.
LEMMA ModuleCall ==
  ASSUME LifeInv, todo["module"] # << >>
  PROVE  /\ FirstOf(OfModule, Head(todo["module"]), Calls(Tail(todo["module"]))) /\ ListsOK
         /\ StateOK(OfCard, OfModule, held, pointer, ignored, aborted, wrong, leaked, fwLoader,
                    ucodeloaded)
         /\ Life!Done("module") =>
              ListsOK' /\ OfCard' = OfCard /\ OfModule' = Calls(Tail(todo["module"]))
<1>1. todo["module"] \in Seq(AnyCalls) /\ Increasing(todo["module"])
  BY DEF LifeInv, ListsOK
<1>2. FirstOf(OfModule, Head(todo["module"]), Calls(Tail(todo["module"])))
  BY <1>1, ListStep DEF FirstOf, OfModule
<1>3. /\ ListsOK
      /\ StateOK(OfCard, OfModule, held, pointer, ignored, aborted, wrong, leaked, fwLoader,
                 ucodeloaded)
  BY DEF LifeInv
<1>4. ASSUME Life!Done("module")
      PROVE  ListsOK' /\ OfCard' = OfCard /\ OfModule' = Calls(Tail(todo["module"]))
  <2>1. ListsOK' /\ todo'["card"] = todo["card"]
    BY <1>3, <1>4, CallMade, BothThreads
  <2>2. todo'["module"] = Tail(todo["module"])
    <3>1. DOMAIN todo = Life!Threads
      BY <1>3 DEF ListsOK
    <3>2. QED BY <1>4, <3>1, BothThreads DEF Life!Done
  <2>3. QED BY <2>1, <2>2 DEF OfCard, OfModule
<1>5. QED BY <1>2, <1>3, <1>4

\* The module takes something.
LEMMA ModuleSucceeds ==
  ASSUME LifeInv, Life!Succeed("module")
  PROVE  LifeInv'
<1> DEFINE c == Head(todo["module"])
           N == Calls(Tail(todo["module"]))
<1>1. /\ todo["module"] # << >> /\ c.op \in {"get", "try", "hope", "irq", "mtrr"}
      /\ held' = held \cup {c.r} /\ pointer' = pointer \cup {c.r} /\ Life!Done("module")
      /\ fwLoader' = fwLoader /\ wrong' = wrong /\ leaked' = leaked /\ ignored' = ignored
      /\ aborted' = aborted /\ ucodeloaded' = ucodeloaded
      /\ armed' = armed /\ handler' = handler /\ stale' = stale /\ raced' = raced
  BY DEF Life!Succeed, Life!Res, Life!Take, Life!failing, Life!irq
<1>2. /\ ListsOK' /\ OfCard' = OfCard /\ OfModule' = N /\ FirstOf(OfModule, c, N)
      /\ StateOK(OfCard, OfModule, held, pointer, ignored, aborted, wrong, leaked, fwLoader,
                 ucodeloaded)
  BY <1>1, ModuleCall
<1> HIDE DEF c, N
<1>3. c.op \in {"get", "try", "irq"}
  <2>1. ModuleOK(OfModule, held) /\ c \in OfModule
    BY <1>2, FirstIs DEF StateOK
  <2>2. OfModule \subseteq InitCalls \/ OfModule \subseteq Puts(ModuleOwn)
    BY <2>1 DEF ModuleOK
  <2>3. CASE OfModule \subseteq InitCalls
    BY <2>1, <2>3, ModuleCallIs
  <2>4. CASE OfModule \subseteq Puts(ModuleOwn)
    BY <1>1, <2>1, <2>4, ModuleCallIs
  <2>5. QED BY <2>2, <2>3, <2>4
<1>4. StateOK(OfCard, N, held \cup {c.r}, pointer \cup {c.r}, ignored, aborted, wrong, leaked,
              fwLoader, ucodeloaded)
  BY <1>2, <1>3, ModuleTakes
<1>5. Loose(held', pointer') \/ Freeing(OfCard') => Loose(held, pointer) \/ Freeing(OfCard)
  BY <1>1, <1>2 DEF Loose
<1>6. QuietOK(OfCard, held, pointer, aborted)'
  BY <1>1, <1>5, QuietStays
<1>7. QED BY <1>1, <1>2, <1>4, <1>6, LifeKept

\* The module does not get something on which the rest depends.
LEMMA ModuleGetFails ==
  ASSUME LifeInv, Life!FailGet("module")
  PROVE  LifeInv'
<1> DEFINE c == Head(todo["module"])
           l == Life!Unwinding(c.r)
<1>1. /\ todo["module"] # << >> /\ c.op \in {"get", "irq"}
      /\ todo' = [todo EXCEPT !["module"] = l] /\ aborted' = aborted \cup {c.r}
      /\ held' = held /\ pointer' = pointer /\ fwLoader' = fwLoader /\ wrong' = wrong
      /\ leaked' = leaked /\ ignored' = ignored /\ ucodeloaded' = ucodeloaded
      /\ armed' = armed /\ handler' = handler /\ stale' = stale /\ raced' = raced
  BY DEF Life!FailGet, Life!AtCall, Life!Res, Life!kernel, Life!irq
<1> HIDE DEF c
<1>2. /\ FirstOf(OfModule, c, Calls(Tail(todo["module"]))) /\ ListsOK
      /\ StateOK(OfCard, OfModule, held, pointer, ignored, aborted, wrong, leaked, fwLoader,
                 ucodeloaded)
  BY <1>1, ModuleCall DEF c
<1>3. StateOK(OfCard, Puts(Undone(c.r)), held, pointer, ignored, aborted \cup {c.r}, wrong,
              leaked, fwLoader, ucodeloaded)
  BY <1>1, <1>2, ModuleFails
<1>4. l \in Seq(AnyCalls) /\ Increasing(l) /\ Calls(l) = Puts(Undone(c.r))
  BY UnwindingPiece
<1> HIDE DEF l
<1>5. ListsOK' /\ OfModule' = Puts(Undone(c.r)) /\ OfCard' = OfCard
  <2>1. ListsOK' /\ todo'["module"] = l /\ todo'["card"] = todo["card"]
    BY <1>1, <1>2, <1>4, ListGiven, BothThreads
  <2>2. QED BY <1>4, <2>1 DEF OfCard, OfModule
<1>6. QuietOK(OfCard, held, pointer, aborted)'
  BY <1>1, <1>5, QuietStays
<1>7. QED BY <1>1, <1>3, <1>5, <1>6, LifeKept

\* The module goes on without something.
LEMMA ModuleTriesInVain ==
  ASSUME LifeInv, Life!FailTry("module")
  PROVE  LifeInv'
<1> DEFINE c == Head(todo["module"])
           N == Calls(Tail(todo["module"]))
<1>1. /\ todo["module"] # << >> /\ c.op = "try" /\ c.r \notin Life!Unchecked
      /\ Life!Done("module")
      /\ pointer' = pointer \ {c.r} /\ ignored' = ignored \cup {c.r}
      /\ held' = held /\ fwLoader' = fwLoader /\ wrong' = wrong /\ leaked' = leaked
      /\ aborted' = aborted /\ ucodeloaded' = ucodeloaded
      /\ armed' = armed /\ handler' = handler /\ stale' = stale /\ raced' = raced
  BY DEF Life!FailTry, Life!AtCall, Life!Res, Life!irq
<1>2. /\ ListsOK' /\ OfCard' = OfCard /\ OfModule' = N /\ FirstOf(OfModule, c, N)
      /\ StateOK(OfCard, OfModule, held, pointer, ignored, aborted, wrong, leaked, fwLoader,
                 ucodeloaded)
  BY <1>1, ModuleCall
<1> HIDE DEF c, N
<1>3. StateOK(OfCard, N, held, pointer \ {c.r}, ignored \cup {c.r}, aborted, wrong, leaked,
              fwLoader, ucodeloaded)
  BY <1>1, <1>2, ModuleGoesWithout
<1>4. Loose(held', pointer') \/ Freeing(OfCard') => Loose(held, pointer) \/ Freeing(OfCard)
  BY <1>1, <1>2 DEF Loose
<1>5. QuietOK(OfCard, held, pointer, aborted)'
  BY <1>1, <1>4, QuietStays
<1>6. QED BY <1>1, <1>2, <1>3, <1>5, LifeKept

\* The module gives something back: its driver when the cards are gone.
LEMMA ModulePuts ==
  ASSUME LifeInv, Life!Put("module")
  PROVE  LifeInv'
<1> DEFINE c == Head(todo["module"])
           N == Calls(Tail(todo["module"]))
<1>1. /\ todo["module"] # << >> /\ c.op = "put" /\ Life!Done("module")
      /\ c.r = "irq" => ~handler
      /\ c.r = "pci driver" => todo["card"] = << >> /\ "em" \notin held
      /\ \/ c.r \in pointer /\ held' = held \ {c.r} /\ pointer' = pointer \ {c.r}
            /\ wrong' = wrong \cup ({c.r} \ held)
         \/ c.r \notin pointer /\ held' = held /\ pointer' = pointer /\ wrong' = wrong
      /\ fwLoader' = fwLoader /\ leaked' = leaked /\ ignored' = ignored
      /\ aborted' = aborted /\ ucodeloaded' = ucodeloaded
      /\ armed' = armed /\ handler' = handler /\ stale' = stale /\ raced' = raced
  BY DEF Life!Put, Life!AtCall, Life!Res, Life!failing, Life!irq, Life!CardIdle
<1>2. /\ ListsOK' /\ OfCard' = OfCard /\ OfModule' = N /\ FirstOf(OfModule, c, N) /\ ListsOK
      /\ StateOK(OfCard, OfModule, held, pointer, ignored, aborted, wrong, leaked, fwLoader,
                 ucodeloaded)
  BY <1>1, ModuleCall
<1> HIDE DEF c, N
<1>3. NoneUnder(c.r, OfCard, held)
  <2>1. todo["card"] = << >> => OfCard = {}
    BY <1>2, NoneLeft
  <2>2. QED BY <1>1, <2>1 DEF NoneUnder
<1>4. /\ StateOK(OfCard, N, held', pointer', ignored, aborted, wrong', leaked, fwLoader,
                 ucodeloaded)
      /\ held' = held \ {c.r} /\ pointer' = pointer \ {c.r}
  <2>1. \/ c.r \in pointer /\ held' = held \ {c.r} /\ pointer' = pointer \ {c.r}
           /\ wrong' = wrong \cup ({c.r} \ held)
        \/ c.r \notin pointer /\ held' = held /\ pointer' = pointer /\ wrong' = wrong
    BY <1>1
  <2>2. c.op = "put"
    BY <1>1
  <2>3. FirstOf(OfModule, c, N)
    BY <1>2
  <2>4. StateOK(OfCard, OfModule, held, pointer, ignored, aborted, wrong, leaked, fwLoader,
                ucodeloaded)
    BY <1>2
  <2>5. QED BY ONLY <1>3, <2>1, <2>2, <2>3, <2>4, ModuleGives, SMTT(30)
<1>5. Loose(held', pointer') \/ Freeing(OfCard') => Loose(held, pointer) \/ Freeing(OfCard)
  BY <1>2, <1>4 DEF Loose
<1>6. handler /\ "irq" \in held => "irq" \in held'
  BY <1>1, <1>4
<1>7. QuietOK(OfCard, held, pointer, aborted)'
  BY <1>1, <1>5, <1>6, QuietStays
<1>8. QED BY <1>1, <1>2, <1>4, <1>7, LifeKept

-------------------------------------------------------------------------------
(* Steps: what begins a list. *)

\* The card's thread is given a list.
LEMMA CardBegins ==
  ASSUME LifeInv, NEW l \in Seq(AnyCalls), Increasing(l),
         todo' = [todo EXCEPT !["card"] = l]
  PROVE  ListsOK' /\ OfCard' = Calls(l) /\ OfModule' = OfModule
<1>1. ListsOK' /\ todo'["card"] = l /\ todo'["module"] = todo["module"]
  BY ListGiven, BothThreads DEF LifeInv
<1>2. QED BY <1>1 DEF OfCard, OfModule

\* The module's thread is given a list.
LEMMA ModuleBegins ==
  ASSUME LifeInv, NEW l \in Seq(AnyCalls), Increasing(l),
         todo' = [todo EXCEPT !["module"] = l]
  PROVE  ListsOK' /\ OfModule' = Calls(l) /\ OfCard' = OfCard
<1>1. ListsOK' /\ todo'["module"] = l /\ todo'["card"] = todo["card"]
  BY ListGiven, BothThreads DEF LifeInv
<1>2. QED BY <1>1 DEF OfCard, OfModule

\* The module is loaded (Insmod).
LEMMA LifeInsmod ==
  ASSUME LifeInv, Life!Insmod
  PROVE  LifeInv'
<1> DEFINE l == Life!em8300_init
<1>1. /\ todo["module"] = << >> /\ "pci driver" \notin held
      /\ todo' = [todo EXCEPT !["module"] = l]
      /\ held' = held /\ pointer' = pointer /\ wrong' = wrong
      /\ fwLoader' = fwLoader /\ leaked' = leaked /\ ignored' = ignored
      /\ aborted' = aborted /\ ucodeloaded' = ucodeloaded
      /\ armed' = armed /\ handler' = handler /\ stale' = stale /\ raced' = raced
  BY DEF Life!Insmod, Life!kernel, Life!failing, Life!irq
<1>2. l \in Seq(AnyCalls) /\ Increasing(l) /\ Calls(l) = InitCalls
  BY InitPiece DEF Piece
<1> HIDE DEF l
<1>3. ListsOK' /\ OfModule' = InitCalls /\ OfCard' = OfCard
  BY <1>1, <1>2, ModuleBegins
<1>4. StateOK(OfCard, {}, held, pointer, ignored, aborted, wrong, leaked, fwLoader, ucodeloaded)
  BY <1>1, NoneLeft DEF LifeInv
<1>5. StateOK(OfCard, InitCalls, held, pointer, ignored, aborted, wrong, leaked, fwLoader,
              ucodeloaded)
  BY <1>1, <1>4, InitBegins
<1>6. QuietOK(OfCard, held, pointer, aborted)'
  BY <1>1, <1>3, QuietStays
<1>7. QED BY <1>1, <1>3, <1>5, <1>6, LifeKept

\* The module is unloaded (Rmmod).
LEMMA LifeRmmod ==
  ASSUME LifeInv, Life!Rmmod
  PROVE  LifeInv'
<1> DEFINE l == Life!em8300_exit
<1>1. /\ todo["module"] = << >>
      /\ todo' = [todo EXCEPT !["module"] = l]
      /\ held' = held /\ pointer' = pointer /\ wrong' = wrong
      /\ fwLoader' = fwLoader /\ leaked' = leaked /\ ignored' = ignored
      /\ aborted' = aborted /\ ucodeloaded' = ucodeloaded
      /\ armed' = armed /\ handler' = handler /\ stale' = stale /\ raced' = raced
  BY DEF Life!Rmmod, Life!kernel, Life!failing, Life!irq
<1>2. l \in Seq(AnyCalls) /\ Increasing(l) /\ Calls(l) = Puts(ModuleOwn)
  BY ExitPiece
<1> HIDE DEF l
<1>3. ListsOK' /\ OfModule' = Puts(ModuleOwn) /\ OfCard' = OfCard
  BY <1>1, <1>2, ModuleBegins
<1>4. StateOK(OfCard, {}, held, pointer, ignored, aborted, wrong, leaked, fwLoader, ucodeloaded)
  BY <1>1, NoneLeft DEF LifeInv
<1>5. StateOK(OfCard, Puts(ModuleOwn), held, pointer, ignored, aborted, wrong, leaked, fwLoader,
              ucodeloaded)
  BY <1>4, ExitBegins
<1>6. QuietOK(OfCard, held, pointer, aborted)'
  BY <1>1, <1>3, QuietStays
<1>7. QED BY <1>1, <1>3, <1>5, <1>6, LifeKept

\* A card without calls to make: what is true of it is true of the empty list.
LEMMA CardAtRest ==
  ASSUME LifeInv, Life!CardIdle
  PROVE  /\ StateOK({}, OfModule, held, pointer, ignored, aborted, wrong, leaked, fwLoader,
                    ucodeloaded)
         /\ OfCard = {} /\ ~Freeing(OfCard)
BY NoneLeft, PutsFreeNone DEF LifeInv, Life!CardIdle

\* A card is probed (Probe): its pointers to FIFOs and chips are cleared.
LEMMA LifeProbe ==
  ASSUME LifeInv, Life!Probe
  PROVE  LifeInv'
<1> DEFINE l == Life!em8300_probe(fwLoader)
<1>1. /\ Life!CardIdle /\ "em" \notin held /\ "pci driver" \in held
      /\ todo' = [todo EXCEPT !["card"] = l]
      /\ pointer' = pointer \ (Life!Fifos \cup {"alsa", "eeprom", "encoder", "checksum"})
      /\ held' = held /\ wrong' = wrong
      /\ fwLoader' = fwLoader /\ leaked' = leaked /\ ignored' = ignored
      /\ aborted' = aborted /\ ucodeloaded' = FALSE
      /\ armed' = armed /\ handler' = handler /\ stale' = stale /\ raced' = raced
  BY DEF Life!Probe, Life!failing
<1>2. l \in Seq(AnyCalls) /\ Increasing(l)
  BY ProbePiece
<1>3. /\ StateOK({}, OfModule, held, pointer, ignored, aborted, wrong, leaked, fwLoader,
                 ucodeloaded)
      /\ fwLoader \in BOOLEAN
  BY <1>1, CardAtRest DEF LifeInv
<1>4. /\ StateOK(Calls(l), OfModule, held, pointer', ignored, aborted, wrong, leaked, fwLoader,
                 FALSE)
      /\ \A f \in Life!Fifos : f \notin pointer' /\ Life!Call("free", f) \notin Calls(l)
  BY <1>1, <1>3, ProbeBegins
<1> HIDE DEF l
<1>5. ListsOK' /\ OfCard' = Calls(l) /\ OfModule' = OfModule
  BY <1>1, <1>2, CardBegins
<1>6. ~Loose(held', pointer') /\ ~Freeing(OfCard')
  BY <1>4, <1>5 DEF Loose, Freeing
<1>7. QuietOK(OfCard, held, pointer, aborted)'
  BY <1>1, <1>6, QuietStays
<1>8. QED BY <1>1, <1>4, <1>5, <1>7, LifeKept

\* A card is removed (Remove).
LEMMA LifeRemove ==
  ASSUME LifeInv, Life!Remove
  PROVE  LifeInv'
<1> DEFINE l == Life!em8300_remove(fwLoader \/ ucodeloaded)
<1>1. /\ Life!CardIdle /\ "em" \in held
      /\ todo' = [todo EXCEPT !["card"] = l]
      /\ held' = held /\ pointer' = pointer /\ wrong' = wrong
      /\ fwLoader' = fwLoader /\ leaked' = leaked /\ ignored' = ignored
      /\ aborted' = aborted /\ ucodeloaded' = ucodeloaded
      /\ armed' = armed /\ handler' = handler /\ stale' = stale /\ raced' = raced
  BY DEF Life!Remove, Life!kernel, Life!failing, Life!irq
<1>2. l \in Seq(AnyCalls) /\ Increasing(l)
  BY RemovePiece
<1>3. StateOK({}, OfModule, held, pointer, ignored, aborted, wrong, leaked, fwLoader,
              ucodeloaded)
  BY <1>1, CardAtRest
<1>4. /\ StateOK(Calls(l), OfModule, held, pointer, ignored, aborted, wrong, leaked, fwLoader,
                 ucodeloaded)
      /\ Mask \in Calls(l)
  BY <1>1, <1>3, RemoveBegins
<1> HIDE DEF l
<1>5. ListsOK' /\ OfCard' = Calls(l) /\ OfModule' = OfModule
  BY <1>1, <1>2, CardBegins
<1>6. ~Freeing(OfCard')
  BY <1>4, <1>5 DEF Freeing
<1>7. QuietOK(OfCard, held, pointer, aborted)'
  BY <1>1, <1>6, QuietStays
<1>8. QED BY <1>1, <1>4, <1>5, <1>7, LifeKept

\* Microcode is brought to a card (Load).
LEMMA LifeLoad ==
  ASSUME LifeInv, Life!Load
  PROVE  LifeInv'
<1> DEFINE l == Life!StartUcode(~fwLoader /\ ~ucodeloaded)
<1>1. /\ Life!CardIdle /\ "em" \in held
      /\ todo' = [todo EXCEPT !["card"] = l]
      /\ held' = held /\ pointer' = pointer /\ wrong' = wrong
      /\ fwLoader' = fwLoader /\ leaked' = leaked /\ ignored' = ignored
      /\ aborted' = aborted /\ ucodeloaded' = ucodeloaded
      /\ armed' = armed /\ handler' = handler /\ stale' = stale /\ raced' = raced
  BY DEF Life!Load, Life!kernel, Life!failing, Life!irq
<1>2. l \in Seq(AnyCalls) /\ Increasing(l)
  BY LoadPiece
<1>3. StateOK({}, OfModule, held, pointer, ignored, aborted, wrong, leaked, fwLoader,
              ucodeloaded)
  BY <1>1, CardAtRest
<1>4. /\ StateOK(Calls(l), OfModule, held, pointer, ignored, aborted, wrong, leaked, fwLoader,
                 ucodeloaded)
      /\ Mask \in Calls(l)
  BY <1>1, <1>3, LoadBegins
<1> HIDE DEF l
<1>5. ListsOK' /\ OfCard' = Calls(l) /\ OfModule' = OfModule
  BY <1>1, <1>2, CardBegins
<1>6. ~Freeing(OfCard')
  BY <1>4, <1>5 DEF Freeing
<1>7. QuietOK(OfCard, held, pointer, aborted)'
  BY <1>1, <1>6, QuietStays
<1>8. QED BY <1>1, <1>4, <1>5, <1>7, LifeKept

-------------------------------------------------------------------------------
(* Steps: interrupts. *)

\* What stays when only the interrupts change.
LEMMA OnlyInterrupts ==
  ASSUME LifeInv, todo' = todo, Life!kernel' = Life!kernel, Life!failing' = Life!failing,
         fwLoader' = fwLoader, ucodeloaded' = ucodeloaded,
         QuietOK(OfCard, held, pointer, aborted)'
  PROVE  LifeInv'
<1>1. OfCard' = OfCard /\ OfModule' = OfModule
  BY DEF OfCard, OfModule
<1>2. ListsOK'
  BY DEF LifeInv, ListsOK
<1>3. /\ held' = held /\ pointer' = pointer /\ wrong' = wrong /\ leaked' = leaked
      /\ ignored' = ignored /\ aborted' = aborted
  BY DEF Life!kernel, Life!failing
<1>4. StateOK(OfCard, OfModule, held, pointer, ignored, aborted, wrong, leaked, fwLoader,
              ucodeloaded)
  BY DEF LifeInv
<1>5. QED BY <1>1, <1>2, <1>3, <1>4, LifeKept

\* Interrupts are enabled, by an open or in the middle of a load (EnableIrq).
LEMMA LifeEnables ==
  ASSUME LifeInv, Life!EnableIrq
  PROVE  LifeInv'
<1>1. /\ todo' = todo /\ Life!kernel' = Life!kernel /\ Life!failing' = Life!failing
      /\ fwLoader' = fwLoader /\ ucodeloaded' = ucodeloaded /\ handler' = handler
      /\ stale' = stale /\ "em" \in held
  BY DEF Life!EnableIrq, Life!kernel, Life!failing
<1>2. held' = held /\ pointer' = pointer /\ aborted' = aborted /\ OfCard' = OfCard
  BY <1>1 DEF Life!kernel, Life!failing, OfCard
<1>3. (raced => raced') /\ (~Life!CardIdle => raced')
  BY Zenon DEF Life!EnableIrq
<1>4. /\ stale # {} => raced \/ Dangles(aborted)
      /\ handler => "irq" \in held
  BY DEF LifeInv, QuietOK
<1>5. Life!CardIdle /\ (Loose(held, pointer) \/ Freeing(OfCard)) => Dangles(aborted)
  <2>1. SUFFICES ASSUME Life!CardIdle, Loose(held, pointer) \/ Freeing(OfCard)
                 PROVE  Dangles(aborted)
    OBVIOUS
  <2>2. /\ StateOK({}, OfModule, held, pointer, ignored, aborted, wrong, leaked, fwLoader,
                   ucodeloaded)
        /\ Loose(held, pointer)
    BY <2>1, CardAtRest
  <2>3. \A f \in Life!Fifos : f \in pointer \ held => Dangles(aborted)
    BY <1>1, <2>2, CardThere
  <2>4. QED BY <2>2, <2>3 DEF Loose
<1>6. Loose(held', pointer') \/ Freeing(OfCard') => Quiet(aborted)'
  BY <1>2, <1>3, <1>5 DEF Quiet
<1>7. QuietOK(OfCard, held, pointer, aborted)'
  BY <1>1, <1>2, <1>3, <1>4, <1>6 DEF QuietOK
<1>8. QED BY <1>1, <1>7, OnlyInterrupts

\* Interrupts are disabled (DisableIrq).
LEMMA LifeDisables ==
  ASSUME LifeInv, Life!DisableIrq
  PROVE  LifeInv'
<1>1. /\ todo' = todo /\ Life!kernel' = Life!kernel /\ Life!failing' = Life!failing
      /\ fwLoader' = fwLoader /\ ucodeloaded' = ucodeloaded /\ handler' = handler
      /\ stale' = stale /\ raced' = raced /\ ~armed'
  BY DEF Life!DisableIrq, Life!kernel, Life!failing
<1>2. held' = held /\ pointer' = pointer /\ aborted' = aborted /\ OfCard' = OfCard
  BY <1>1 DEF Life!kernel, Life!failing, OfCard
<1>3. /\ Loose(held, pointer) \/ Freeing(OfCard) => Quiet(aborted)
      /\ stale # {} => raced \/ Dangles(aborted)
      /\ handler => "irq" \in held
  BY DEF LifeInv, QuietOK
<1>4. Loose(held', pointer') \/ Freeing(OfCard') => Quiet(aborted)'
  BY <1>1, <1>2, <1>3 DEF Quiet
<1>5. QuietOK(OfCard, held, pointer, aborted)'
  BY <1>1, <1>2, <1>3, <1>4 DEF QuietOK
<1>6. QED BY <1>1, <1>5, OnlyInterrupts

\* The handler is started (Interrupt): it has its interrupt, and so the card.
LEMMA LifeInterrupted ==
  ASSUME LifeInv, Life!Interrupt
  PROVE  LifeInv'
<1>1. /\ todo' = todo /\ Life!kernel' = Life!kernel /\ Life!failing' = Life!failing
      /\ fwLoader' = fwLoader /\ ucodeloaded' = ucodeloaded
      /\ stale' = stale /\ raced' = raced /\ armed /\ "irq" \in held
  BY DEF Life!Interrupt, Life!kernel, Life!failing
<1>2. held' = held /\ pointer' = pointer /\ aborted' = aborted /\ OfCard' = OfCard
  BY <1>1 DEF Life!kernel, Life!failing, OfCard
<1>3. /\ Loose(held, pointer) \/ Freeing(OfCard) => Quiet(aborted)
      /\ stale # {} => raced \/ Dangles(aborted)
  BY DEF LifeInv, QuietOK
<1>4. Loose(held', pointer') \/ Freeing(OfCard') => Quiet(aborted)'
  BY <1>1, <1>2, <1>3 DEF Quiet
<1>5. QuietOK(OfCard, held, pointer, aborted)'
  BY <1>1, <1>2, <1>3, <1>4 DEF QuietOK
<1>6. QED BY <1>1, <1>5, OnlyInterrupts

\* The handler looks at the FIFOs and restores the mask (Handle).
LEMMA LifeHandled ==
  ASSUME LifeInv, Life!Handle
  PROVE  LifeInv'
<1>1. /\ todo' = todo /\ Life!kernel' = Life!kernel /\ Life!failing' = Life!failing
      /\ fwLoader' = fwLoader /\ ucodeloaded' = ucodeloaded
      /\ stale' = stale \cup ((Life!Fifos \cap pointer) \ held)
      /\ raced' = raced /\ handler /\ ~handler'
  BY DEF Life!Handle, Life!kernel, Life!failing
<1>2. held' = held /\ pointer' = pointer /\ aborted' = aborted /\ OfCard' = OfCard
  BY <1>1 DEF Life!kernel, Life!failing, OfCard
<1>3. /\ Loose(held, pointer) \/ Freeing(OfCard) => Quiet(aborted)
      /\ stale # {} => raced \/ Dangles(aborted)
  BY DEF LifeInv, QuietOK
<1>4. Loose(held, pointer) \/ Freeing(OfCard) => raced \/ Dangles(aborted)
  BY <1>1, <1>3 DEF Quiet
<1>5. stale' # {} => stale # {} \/ Loose(held, pointer)
  BY <1>1 DEF Loose
<1>6. Loose(held', pointer') \/ Freeing(OfCard') => Quiet(aborted)'
  BY <1>1, <1>2, <1>4 DEF Quiet
<1>7. stale' # {} => raced' \/ Dangles(aborted')
  BY <1>1, <1>2, <1>3, <1>4, <1>5
<1>8. QuietOK(OfCard, held, pointer, aborted)'
  BY <1>1, <1>6, <1>7 DEF QuietOK
<1>9. QED BY <1>1, <1>8, OnlyInterrupts

-------------------------------------------------------------------------------
(* The theorem. *)

\* In the beginning nothing is held.
LEMMA LifeStarts == Life!Init => LifeInv
<1> SUFFICES ASSUME Life!Init PROVE LifeInv
  OBVIOUS
<1>1. /\ fwLoader \in BOOLEAN /\ todo = [t \in Life!Threads |-> << >>]
      /\ held = {} /\ pointer = {} /\ ucodeloaded = FALSE
      /\ armed = FALSE /\ handler = FALSE
      /\ ignored = {} /\ aborted = {} /\ wrong = {} /\ leaked = {} /\ stale = {}
  BY DEF Life!Init
<1>2. /\ DOMAIN todo = Life!Threads /\ todo["module"] = << >> /\ todo["card"] = << >>
  BY <1>1, BothThreads
<1>3. ListsOK
  BY <1>2 DEF ListsOK, Increasing
<1>4. OfCard = {} /\ OfModule = {}
  BY <1>2, <1>3, NoneLeft
<1>5. CardOK({}, {}, {}, fwLoader, FALSE)
  BY DEF CardOK, ProbeOK, Probing, LoadOK, Loading, ShutOK, EnabledOK
<1>6. ModuleOK({}, {}) /\ DependsOK({}, {})
  BY DEF ModuleOK, DependsOK
<1>7. PointersOK({}, {}, {}, {}, {}) /\ BuffersOK({}, {}) /\ LostOK({}, {}, {}, {})
  BY DEF PointersOK, BuffersOK, LostOK
<1>8. StateOK({}, {}, {}, {}, {}, {}, {}, {}, fwLoader, FALSE)
  BY <1>5, <1>6, <1>7 DEF StateOK
<1>9. QuietOK(OfCard, held, pointer, aborted)
  BY <1>1, <1>4, PutsFreeNone DEF QuietOK, Loose
<1>10. QED BY <1>1, <1>3, <1>4, <1>8, <1>9 DEF LifeInv

\* Every step of the life of a card keeps the invariant.
LEMMA LifeStep ==
  ASSUME LifeInv, Life!Next
  PROVE  LifeInv'
<1>1. CASE \/ Life!Insmod
           \/ Life!Rmmod
           \/ Life!Probe
           \/ Life!Remove
           \/ Life!Load
  BY <1>1, LifeInsmod, LifeRmmod, LifeProbe, LifeRemove, LifeLoad
<1>2. ASSUME NEW t \in Life!Threads,
             \/ Life!Succeed(t)
             \/ Life!FailGet(t)
             \/ Life!FailTry(t)
             \/ Life!Put(t)
      PROVE  LifeInv'
  <2>1. CASE t = "card"
    BY <1>2, <2>1, CardSucceeds, CardGetFails, CardTriesInVain, CardPuts
  <2>2. CASE t = "module"
    BY <1>2, <2>2, ModuleSucceeds, ModuleGetFails, ModuleTriesInVain, ModulePuts
  <2>3. QED BY <2>1, <2>2, BothThreads
<1>3. CASE \/ Life!FailHope("card")
           \/ Life!MtrrZero("card")
           \/ Life!Mask("card")
           \/ Life!Need("card")
           \/ Life!FifoFree("card")
           \/ Life!FifoAlloc("card")
           \/ Life!FifoInit("card")
           \/ Life!Loaded("card")
  BY <1>3, CardHopesInVain, CardTakesNone, CardMasks, CardNeeds, CardFreesFifo,
     CardAllocatesFifo, CardInitsFifo, CardIsLoaded
<1>4. CASE \/ Life!EnableIrq
           \/ Life!DisableIrq
           \/ Life!Interrupt
           \/ Life!Handle
  BY <1>4, LifeEnables, LifeDisables, LifeInterrupted, LifeHandled
<1>5. QED BY <1>1, <1>2, <1>3, <1>4 DEF Life!Next

\* What the invariant says of what the driver takes and gives back.
LEMMA LifeKeepsBalance == LifeInv => Life!LifeBalanced
<1> SUFFICES ASSUME LifeInv PROVE Life!LifeBalanced
  OBVIOUS
<1>1. /\ StateOK(OfCard, OfModule, held, pointer, ignored, aborted, wrong, leaked, fwLoader,
                 ucodeloaded)
      /\ QuietOK(OfCard, held, pointer, aborted) /\ ListsOK
  BY DEF LifeInv
<1>2. /\ held \subseteq ModuleOwn \cup CardOwn
      /\ CardOK(OfCard, held, aborted, fwLoader, ucodeloaded)
      /\ LostOK(ignored, aborted, wrong, leaked)
      /\ ModuleOK(OfModule, held) /\ DependsOK(OfCard, held)
  BY <1>1 DEF StateOK
<1>3. Dangles(aborted) <=> Life!Dangling
  BY DEF Dangles, Life!Dangling
<1>4. \A d \in Life!Depends : d[1] \in held => d[2] \in held
  BY <1>2 DEF DependsOK
<1>5. handler => {"em", "mem", "irq"} \subseteq held
  <2>1. <<"irq", "mem">> \in Life!Depends /\ <<"mem", "em">> \in Life!Depends
    BY DEF Life!Depends
  <2>2. ("irq" \in held => "mem" \in held) /\ ("mem" \in held => "em" \in held)
    BY <1>4, <2>1
  <2>3. handler => "irq" \in held
    BY <1>1 DEF QuietOK
  <2>4. QED BY <2>2, <2>3
<1>6. /\ wrong \subseteq ignored \cup (IF Life!Dangling THEN Life!Fifos ELSE {})
      /\ leaked \subseteq ignored \cup (IF "mabuf" \in ignored THEN {"prep"} ELSE {})
  BY <1>2, <1>3 DEF LostOK
<1>7. stale # {} => raced \/ Life!Dangling
  BY <1>1, <1>3 DEF QuietOK
<1>8. ASSUME OfCard = {}, "em" \notin held
      PROVE  \A x \in held \cap CardOwn : x = "pci device" /\ aborted \cap {"mem", "irq"} # {}
  BY <1>2, <1>8, NoCard DEF Excused
<1>9. ASSUME Life!CardIdle, "em" \notin held
      PROVE  held \subseteq ModuleOwn
               \cup (IF aborted \cap {"mem", "irq"} # {} THEN {"pci device"} ELSE {})
  <2>1. OfCard = {}
    BY <1>1, <1>9, NoneLeft DEF Life!CardIdle
  <2>2. QED BY <1>2, <1>8, <1>9, <2>1
<1>10. ASSUME todo["module"] = << >>, "pci driver" \notin held
       PROVE  held \subseteq {"pci device"}
  <2>1. OfModule = {}
    BY <1>1, <1>10, NoneLeft
  <2>2. held \cap ModuleOwn = {}
    BY <1>2, <1>10, <2>1 DEF ModuleOK
  <2>3. OfCard = {} /\ "em" \notin held
    BY <1>2, <1>10 DEF DependsOK
  <2>4. QED BY <1>2, <1>8, <2>2, <2>3
<1>11. QED BY <1>4, <1>5, <1>6, <1>7, <1>9, <1>10 DEF Life!LifeBalanced, ModuleOwn

\* The variables of the life of a card, and its part of a step of the whole.
lifeVars == <<fwLoader, todo, doing, held, pointer, ucodeloaded, irqmask, armed, handler,
              ignored, aborted, wrong, leaked, stale, raced, count>>
\* The part of the life of a card of a step of the whole.
LEMMA LifePart == part = "life" /\ [Next]_vars => [Life!Next]_lifeVars /\ part' = part
<1> SUFFICES ASSUME part = "life", [Next]_vars
             PROVE  (Life!Next \/ UNCHANGED lifeVars) /\ part' = part
  OBVIOUS
<1>1. CASE Next
  BY <1>1 DEF Next
<1>2. CASE UNCHANGED vars
  BY <1>2 DEF vars, lifeVars, shared, life
<1>3. QED
  BY <1>1, <1>2

\* What the driver takes it gives back, in order, for any number of probes, loads and
\* failures.
THEOREM TakenIsGivenBack == Spec => []LifeBalanced
<1>1. Init => (part = "life" => LifeInv)
  BY LifeStarts DEF Init
<1>2. (part = "life" => LifeInv) /\ [Next]_vars => (part = "life" => LifeInv)'
  <2> SUFFICES ASSUME part = "life" => LifeInv, [Next]_vars, part' = "life"
               PROVE  LifeInv'
    OBVIOUS
  <2>1. part' = part
    BY DEF Next, vars
  <2>2. Life!Next \/ UNCHANGED lifeVars
    BY <2>1, LifePart
  <2>3. CASE UNCHANGED lifeVars
    <3>1. /\ todo' = todo /\ Life!kernel' = Life!kernel /\ Life!failing' = Life!failing
          /\ fwLoader' = fwLoader /\ ucodeloaded' = ucodeloaded
          /\ armed' = armed /\ handler' = handler /\ stale' = stale /\ raced' = raced
          /\ held' = held /\ pointer' = pointer /\ aborted' = aborted /\ LifeInv
      BY <2>1, <2>3 DEF lifeVars, Life!kernel, Life!failing
    <3>2. OfCard' = OfCard
      BY <3>1 DEF OfCard
    <3>3. QuietOK(OfCard, held, pointer, aborted)'
      BY <3>1, <3>2, QuietStays
    <3>4. QED BY <3>1, <3>3, OnlyInterrupts
  <2>4. QED BY <2>1, <2>2, <2>3, LifeStep
<1>3. (part = "life" => LifeInv) => LifeBalanced
  BY LifeKeepsBalance DEF LifeBalanced
<1>4. QED BY <1>1, <1>2, <1>3, PTL DEF Spec

===============================================================================
