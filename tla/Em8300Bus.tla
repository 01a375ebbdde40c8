------------------------------- MODULE Em8300Bus -------------------------------
(***************************************************************************)
(* The pins over which the card talks to the TV encoder, the overlay chip   *)
(* EM9010 and the clock generator (em8300_i2c.c).  One data line serves all *)
(* three; encoder and EM9010 share a clock as well.  The I2C layer of the   *)
(* kernel lets one encoder transfer run at a time, and the lock of the      *)
(* control ioctls one of the others: nothing keeps the two apart.           *)
(*                                                                          *)
(* A step is one write to a register of the pins.  A device is given by what*)
(* it takes from the lines, compared with what was meant for it.            *)
(***************************************************************************)
EXTENDS Integers, Sequences

CONSTANTS
  Width,          \* bits of a byte, 8 on the card; a register's number takes two
  Bytes,          \* bytes to transfer
  MaxTransfers    \* bound on the transfers

\* What the constants must satisfy.
BusAssumption ==
  /\ Width \in 2 .. 8 /\ Bytes \subseteq 0 .. 2^Width - 1
  /\ MaxTransfers \in Nat

VARIABLES
  pin,      \* the levels of the lines
  drive,    \* the card drives the data line
  todo,     \* the writes each process has left
  want,     \* the transfer each process makes: device, and bits it should take
  took,     \* what each device has taken: bits, and whether they were right
  alone,    \* no other transfer was under way during this one
  listening,\* the encoder has seen a start condition and no stop since
  transfers

vars == <<pin, drive, todo, want, took, alone, listening, transfers>>

Procs == {"ioctl", "i2c"}
Devices == {"clockgen", "em9010", "encoder"}
Lines == {"data", "clk", "clkgen", "latch"}

\* The bits of a byte, the lowest or the highest first.
Low(b) == [i \in 1 .. Width |-> (b \div 2^(i - 1)) % 2]
High(b) == [i \in 1 .. Width |-> (b \div 2^(Width - i)) % 2]

Set(line, v) == [do |-> "pin", line |-> line, arg |-> v]
Drive(v) == [do |-> "oe", arg |-> v]

\* f[1] \o f[2] \o ... \o f[n].
Joined(f) ==
  LET J[n \in 0 .. Len(f)] == IF n = 0 THEN << >> ELSE J[n - 1] \o f[n]
  IN  J[Len(f)]

-------------------------------------------------------------------------------
(* The transfers, as lists of writes. *)

\* Variant: the bit is set up after its clock edge.
ClockgenLate(b) ==
  << Set("data", 1) >>
  \o Joined([i \in 1 .. Width |-> << Set("clkgen", 0), Set("clkgen", 1),
                                 Set("data", Low(b)[i]) >>])
  \o << Set("latch", 0), Set("latch", 1) >>

em8300_clockgen_write(b) ==
  << Set("data", 1) >>
  \o Joined([i \in 1 .. Width |-> << Set("clkgen", 0), Set("data", Low(b)[i]),
                                 Set("clkgen", 1) >>])
  \o << Set("latch", 0), Set("latch", 1) >>

I2C_out(bits) ==
  Joined([i \in 1 .. Len(bits) |->
            << Set("data", bits[i]), Set("clk", 1), Set("clk", 0) >>])

sub_23660(b, last) ==
  << Set("clk", 0) >> \o I2C_out(High(b)) \o << Set("data", last), Set("clk", 1) >>

sub_236f0(r, write) ==
  << Set("clk", 1), Set("data", 1), Set("clk", 0), Set("data", 1),
     Set("clk", 1), Set("clk", 0) >> \o sub_23660(1, write) \o sub_23660(r, 0)

em9010_write(r, b) == sub_236f0(r, 1) \o sub_23660(b, 1)

em9010_read(r) ==
  sub_236f0(r, 0) \o << Drive(0) >>
  \o Joined([i \in 1 .. Width |->
               << [do |-> "sample", arg |-> i], Set("clk", 0), Set("clk", 1) >>])
  \o << Drive(1), Set("clk", 0), Set("data", 1), Set("clk", 1) >>

\* em8300_setscl and em8300_setsda, which drive the line before they set it, and
\* what the kernel's bit-banging algorithm makes of them: a start condition, one
\* byte with its acknowledgement, and a stop condition.
em8300_setscl(v) == << Set("clk", v) >>
em8300_setsda(v) == << Drive(1), Set("data", v) >>

i2c_transfer(b) ==
  em8300_setsda(1) \o em8300_setscl(1) \o em8300_setsda(0) \o em8300_setscl(0)
  \o Joined([i \in 1 .. Width + 1 |-> em8300_setsda(IF i = Width + 1 THEN 1 ELSE High(b)[i])
                              \o em8300_setscl(1) \o em8300_setscl(0)])
  \o em8300_setsda(0) \o em8300_setscl(1) \o em8300_setsda(1)

\* The bits that each device takes of its transfer, at the rising edges of its
\* clock; the last of the encoder's is that of the stop condition.  An EM9010 that
\* is read is clocked for each bit of the answer and once more.
Frame(dev, r, b) ==
  CASE dev = "clockgen" -> Low(b)
    [] dev = "em9010" ->
         <<1>> \o High(1) \o <<1>> \o High(r) \o <<0>> \o High(b) \o <<1>>
    [] dev = "encoder" -> High(b) \o <<1, 0>>
ReadFrame(r) == <<1>> \o High(1) \o <<0>> \o High(r) \o <<0>>

-------------------------------------------------------------------------------
(* The specification. *)

\* em8300_i2c_init1 leaves all lines high.
Init ==
  /\ pin = [l \in Lines |-> 1] /\ drive = 1
  /\ todo = [p \in Procs |-> << >>]
  /\ want = [p \in Procs |-> [dev |-> "none", bits |-> << >>, more |-> 0]]
  /\ took = [d \in Devices |-> [n |-> 0, right |-> TRUE]]
  /\ alone = [p \in Procs |-> TRUE]
  /\ listening = FALSE
  /\ transfers = 0

Busy(p) == todo[p] # << >>

Begin(p, dev, bits, more, writes) ==
  /\ ~Busy(p) /\ transfers < MaxTransfers
  /\ transfers' = transfers + 1
  /\ todo' = [todo EXCEPT ![p] = writes]
  /\ want' = [want EXCEPT ![p] = [dev |-> dev, bits |-> bits, more |-> more]]
  /\ took' = [took EXCEPT ![dev] = [n |-> 0, right |-> TRUE]]
  /\ LET other == CHOOSE q \in Procs : q # p
     IN  alone' = [alone EXCEPT ![p] = ~Busy(other),
                                ![other] = @ /\ ~Busy(other)]
  /\ UNCHANGED <<pin, drive, listening>>

\* Device dev sees a rising edge of its clock with the data line at level v.  Its count
\* stops at 5 * Width, which no transfer passes alone.
Clocked(t, dev, v) ==
  LET ps == {p \in Procs : Busy(p) /\ want[p].dev = dev}
      n == t[dev].n + 1
  IN  IF ps = {} THEN t
      ELSE LET bits == want[CHOOSE p \in ps : TRUE].bits
           IN  [t EXCEPT ![dev] = [n |-> IF n > 5 * Width THEN 5 * Width ELSE n,
                                   right |-> @.right /\ (n <= Len(bits) => v = bits[n])]]

\* A write to the pins, and what the devices make of it.  The encoder takes bits
\* between a start, when data falls while the clock is high, and a stop.
Pin(p) ==
  /\ Busy(p) /\ Head(todo[p]).do = "pin"
  /\ LET w == Head(todo[p])
         rises == pin[w.line] = 0 /\ w.arg = 1
         falls == pin[w.line] = 1 /\ w.arg = 0
         t == IF ~rises THEN took
              ELSE IF w.line = "clkgen" THEN Clocked(took, "clockgen", pin["data"])
              ELSE IF w.line = "clk"
              THEN LET m == Clocked(took, "em9010", pin["data"])
                   IN  IF listening THEN Clocked(m, "encoder", pin["data"]) ELSE m
              ELSE took
         start == w.line = "data" /\ falls /\ pin["clk"] = 1
         stop == w.line = "data" /\ rises /\ pin["clk"] = 1
     IN  /\ pin' = [pin EXCEPT ![w.line] = w.arg]
         /\ took' = t
         /\ listening' = (start \/ (listening /\ ~stop))
         /\ todo' = [todo EXCEPT ![p] = Tail(@)]
  /\ UNCHANGED <<drive, want, alone, transfers>>

Oe(p) ==
  /\ Busy(p) /\ Head(todo[p]).do = "oe"
  /\ drive' = Head(todo[p]).arg
  /\ todo' = [todo EXCEPT ![p] = Tail(@)]
  /\ UNCHANGED <<pin, want, took, alone, listening, transfers>>

\* The card reads a bit: it is the right one if the line is released and the chip
\* has been clocked as often as the driver believes.
Sample(p) ==
  /\ Busy(p) /\ Head(todo[p]).do = "sample"
  /\ took' = [took EXCEPT !["em9010"].right =
       @ /\ drive = 0 /\ took["em9010"].n = Len(want[p].bits) + Head(todo[p]).arg - 1]
  /\ todo' = [todo EXCEPT ![p] = Tail(@)]
  /\ UNCHANGED <<pin, drive, want, alone, listening, transfers>>

Next ==
  \/ \E b \in Bytes :
       \/ Begin("ioctl", "clockgen", Frame("clockgen", 0, b), 0, em8300_clockgen_write(b))
       \/ Begin("ioctl", "em9010", Frame("em9010", 2, b), 0, em9010_write(2, b))
       \/ Begin("i2c", "encoder", Frame("encoder", 0, b), 0, i2c_transfer(b))
  \/ Begin("ioctl", "em9010", ReadFrame(0), Width + 1, em9010_read(0))
  \/ \E p \in Procs : Pin(p) \/ Oe(p) \/ Sample(p)

Spec == Init /\ [][Next]_vars

-------------------------------------------------------------------------------
(* Properties. *)

\* A transfer that no other overlaps gives its device the bits meant for it and
\* no others, whatever earlier transfers, even broken ones, left on the lines; and
\* the encoder takes none of the bits of the others.  If one overlaps, bits may be
\* wrong, but the clock generator is still given a byte, for no one else has its
\* clock.
BusDelivers ==
  \A p \in Procs :
    LET d == want[p].dev
    IN  ~Busy(p) /\ d # "none" =>
          /\ alone[p] =>
               took[d].right /\ took[d].n = Len(want[p].bits) + want[p].more
          /\ d = "clockgen" => took[d].n = Width
          /\ (\A q \in Procs : ~Busy(q) /\ alone[q]) => drive = 1
===============================================================================
