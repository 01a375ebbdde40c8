------------------------------ MODULE Em8300Arith ------------------------------
(***************************************************************************)
(* The numbers that the ioctls write to and read from registers of the card: *)
(* the system clock in two halves, picture settings in bytes, presentation   *)
(* times halved, and what is left in the rings.                              *)
(*                                                                          *)
(* The card's clock runs while an ioctl reads or writes its two halves; the  *)
(* rest is computed in one step from the values it finds.                    *)
(***************************************************************************)
EXTENDS Integers, Em8300Bits

CONSTANTS
  HalfClock,   \* the base of a half of the clock (65536 in the code)
  Tolerance,   \* how far the clock may be off, for each ioctl (3600 and 9000)
  IntHalf,     \* half the range of a C int (2 ^ 31 in the code)
  Settings,    \* brightness, contrast and saturation asked for
  Rates,       \* the pixel rates measured for the overlay
  Slots,       \* the slot counts of a FIFO
  CardRing,    \* the size of the card's own audio ring
  MaxOps       \* bound on the operations

\* What the constants must satisfy.
ArithAssumption ==
  /\ HalfClock \in Nat \ {0} /\ HalfClock % 2 = 0
  /\ Tolerance \in [{"SCR_GET", "VIDEO_SETSCR"} -> Nat]
  /\ IntHalf \in Nat /\ IntHalf >= 131072
  /\ Settings \subseteq (-IntHalf)..(IntHalf - 1) /\ Rates \subseteq Nat
  /\ Slots \subseteq Words \ {0} /\ CardRing \in Nat \ {0} /\ MaxOps \in Nat

VARIABLES
  clock,   \* the card's clock, MV_SCRhi and MV_SCRlo
  call,    \* the ioctl on the clock: where it is, what it asks for and has read
  torn,    \* a carry fell between the two halves of this call
  shown,   \* the result of the last computation and what it was made of
  ops

vars == <<clock, call, torn, shown, ops>>

Modulus == HalfClock * HalfClock
Clocks == 0..(Modulus - 1)
None == [at |-> "none", what |-> "none", val |-> 0, lo |-> 0, read |-> 0, late |-> 0]

Init == clock \in Clocks /\ call = None /\ torn = FALSE
        /\ shown = [what |-> "none"] /\ ops = 0

Bounded == ops < MaxOps /\ ops' = ops + 1

-------------------------------------------------------------------------------
(* The clock: EM8300_IOCTL_SCR_GET and EM8300_IOCTL_VIDEO_SETSCR. *)

\* The clock runs while the call does.
Tick ==
  /\ call.at # "none" /\ Bounded
  /\ clock' = (clock + 1) % Modulus
  /\ torn' = (torn \/ (call.at \in {"hi", "write hi"} /\ clock % HalfClock = HalfClock - 1))
  /\ call' = [call EXCEPT !.late = @ + 1]
  /\ UNCHANGED shown

\* SETSCR takes a time in units twice as fine.
Ask(what, arg) ==
  /\ call.at = "none" /\ Bounded
  /\ call' = [at |-> "lo", what |-> what, lo |-> 0, read |-> 0, late |-> 0,
              val |-> IF what = "VIDEO_SETSCR" THEN arg \div 2 ELSE arg]
  /\ shown' = [what |-> "none"] /\ torn' = FALSE
  /\ UNCHANGED clock

ReadLo ==
  /\ call.at = "lo"
  /\ call' = [call EXCEPT !.at = "hi", !.lo = clock % HalfClock]
  /\ UNCHANGED <<clock, torn, shown, ops>>

ReadHi ==
  /\ call.at = "hi"
  /\ call' = [call EXCEPT !.at = "test", !.read = (clock \div HalfClock) * HalfClock + call.lo]
  /\ UNCHANGED <<clock, torn, shown, ops>>

\* Variant: the difference is a signed number, and never taken for its opposite.
OffSigned(what, scr, val) == scr - val

\* SCR_GET orders the two before it subtracts; SETSCR negates a negative
\* difference, but of unsigned numbers, so that a clock behind is always far.
Off(what, scr, val) ==
  IF what = "SCR_GET"
  THEN IF scr > val THEN scr - val ELSE val - scr
  ELSE (scr - val) % Modulus

\* What is written is what was asked for at the call, whatever time that took.
Test ==
  /\ call.at = "test"
  /\ IF Off(call.what, call.read, call.val) > Tolerance[call.what]
     THEN call' = [call EXCEPT !.at = "write lo"] /\ UNCHANGED shown
     ELSE /\ call' = None
          /\ shown' = [what |-> "clock", ioctl |-> call.what, set |-> FALSE,
                       val |-> call.val, late |-> call.late, torn |-> torn]
  /\ UNCHANGED <<clock, torn, ops>>

WriteLo ==
  /\ call.at = "write lo"
  /\ clock' = ((clock \div HalfClock) * HalfClock) + (call.val % HalfClock)
  /\ call' = [call EXCEPT !.at = "write hi"]
  /\ UNCHANGED <<torn, shown, ops>>

WriteHi ==
  /\ call.at = "write hi"
  /\ clock' = ((call.val \div HalfClock) * HalfClock) + (clock % HalfClock)
  /\ shown' = [what |-> "clock", ioctl |-> call.what, set |-> TRUE,
               val |-> call.val, late |-> call.late, torn |-> torn]
  /\ call' = None
  /\ UNCHANGED <<torn, ops>>

-------------------------------------------------------------------------------
(* Computations. *)

\* C's division, which rounds to zero.
Quot(a, b) == IF a >= 0 THEN a \div b ELSE -((-a) \div b)
Clamp(x, lo, hi) == IF x < lo THEN lo ELSE IF x > hi THEN hi ELSE x

\* What a C int holds of a number, and the numbers it holds as they are.
Int32(x) == ((x + IntHalf) % (2 * IntHalf)) - IntHalf
Fits(x) == -IntHalf <= x /\ x < IntHalf

\* em8300_dicom_setBCS: three bytes, of any three integers, for the ioctl passes
\* on what it is given.
em8300_dicom_setBCS(b, c, s) ==
  LET factor == Quot(Int32(c * 127 + 500), 1000)
      offset == 128 - 2 * factor + Quot(Int32((b - 500) * 255 + 500), 1000)
      chroma == Quot(Int32(factor * s + 250), 500)
  IN  [factor |-> factor % 256,
       offset |-> Clamp(offset, -128, 127) % 256,
       chroma |-> (IF chroma > 127 THEN 127 ELSE chroma) % 256]

\* set_dicom_kmin, for both divisors.
set_dicom_kmin(rate, divisor) ==
  LET kmin == ((rate + 10) * 150645) \div divisor IN IF kmin > 2304 THEN 2304 ELSE kmin

\* EM8300_IOCTL_SPU_SETPTS: a signed number, halved by a shift, as the two
\* registers hold it.
Signed(v) == IF v >= Modulus \div 2 THEN v - Modulus ELSE v
SpuPts(v) == (Signed(v) \div 2) % Modulus

\* EM8300_IOCTL_SCR_GETSPEED.  What old microcode is given is shifted; what is
\* read back never is, as the version is negated before it is compared.
SpeedSet(new, v) == IF new THEN v % Modulus ELSE (v % Modulus) \div HalfClock
SpeedGet(new, r) == r

\* em8300_fifo_freeslots.
Free(n, rd, wr) == (rd - wr + n - 1) % n

\* em8300_fifo_calcbuffered: from the slot read to the one written, the index
\* masked; a walk of n steps has missed the slot and never ends.
Walked(n, rd, wr) ==
  LET steps[p \in (0..(n - 1)) \X (0..n)] ==
        IF p[1] = wr \/ p[2] = n THEN p[2]
        ELSE steps[<<And[<<p[1] + 1, n - 1>>], p[2] + 1>>]
  IN  steps[<<rd, 0>>]

\* em8300_audio_calcbuffered, in slots of one unit.
Buffered(n, rd, wr, cardrd, cardwr) ==
  Walked(n, rd, wr) + ((CardRing + cardwr - cardrd) % CardRing)

\* One of these at a time, before any other.
Compute(result) ==
  /\ ops = 0 /\ ops' = MaxOps
  /\ shown' = result /\ UNCHANGED <<clock, call, torn>>

Bcs == \E b, c, s \in Settings :
         Compute([what |-> "bcs", asked |-> <<b, c, s>>, regs |-> em8300_dicom_setBCS(b, c, s)])
Kmin == \E rate \in Rates, divisor \in {67500, 66000} :
          Compute([what |-> "kmin", reg |-> set_dicom_kmin(rate, divisor)])
Pts == \E v \in Clocks : Compute([what |-> "pts", asked |-> v, reg |-> SpuPts(v)])
Speed == \E new \in BOOLEAN, v \in Clocks :
  Compute([what |-> "speed", new |-> new, asked |-> v, read |-> SpeedGet(new, SpeedSet(new, v))])
Rings == \E n \in Slots : \E rd, wr \in 0..(n - 1), crd, cwr \in 0..(CardRing - 1) :
  Compute([what |-> "rings", n |-> n, free |-> Free(n, rd, wr), walked |-> Walked(n, rd, wr),
           card |-> (cwr - crd) % CardRing, buffered |-> Buffered(n, rd, wr, crd, cwr)])

Next ==
  \/ Tick \/ ReadLo \/ ReadHi \/ Test \/ WriteLo \/ WriteHi
  \/ \E what \in DOMAIN Tolerance, v \in Clocks : Ask(what, v)
  \/ Bcs \/ Kmin \/ Pts \/ Speed \/ Rings

Spec == Init /\ [][Next]_vars

-------------------------------------------------------------------------------
(* Properties. *)

\* How far apart two values of a clock are that wraps.
Distance(a, b) ==
  IF (a - b) % Modulus <= (b - a) % Modulus THEN (a - b) % Modulus ELSE (b - a) % Modulus
Byte(r) == IF r >= 128 THEN r - 256 ELSE r

\* After either ioctl the clock is as close to the time asked for as the ioctl's
\* tolerance and the time the ioctl took allow, unless a carry fell between the
\* two halves.
ClockClose ==
  (shown.what = "clock" /\ ~shown.torn)
    => Distance(clock, shown.val) <= Tolerance[shown.ioctl] + shown.late

\* For a contrast of 0 to 1000, the three bytes, read as signed numbers, grow with
\* what is asked for and neutral settings leave the picture as it is: the offset
\* with any brightness and the chroma with any saturation not below zero, as long
\* as the products fit an int.  Of another contrast the low byte of the factor is
\* written, whatever it is.
BcsFits ==
  shown.what = "bcs" /\ shown.asked[2] \in 0..1000 =>
    LET b == shown.asked[1]  c == shown.asked[2]  s == shown.asked[3]  r == shown.regs
        Bright(t) == Fits((t - 500) * 255 + 500)
        Coloured(t) == t >= 0 /\ Fits(Byte(r.factor) * t + 250)
    IN  /\ Byte(r.factor) \in 0..127
        /\ Coloured(s) => Byte(r.chroma) \in 0..127
        /\ \A t \in Settings :
             /\ t >= b /\ Bright(b) /\ Bright(t)
                  => Byte(em8300_dicom_setBCS(t, c, s).offset) >= Byte(r.offset)
             /\ t >= c /\ t <= 1000
                  => Byte(em8300_dicom_setBCS(b, t, s).factor) >= Byte(r.factor)
             /\ t >= s /\ Coloured(s) /\ Coloured(t)
                  => Byte(em8300_dicom_setBCS(b, c, t).chroma) >= Byte(r.chroma)
        /\ b = 500 /\ c = 500 /\ s = 500 => r = [factor |-> 64, offset |-> 0, chroma |-> 64]

IsPowerOfTwo(n) == \E k \in 0..8 : n = 2 ^ k

\* What is computed from settings (within what BcsFits says), times and pointers
\* fits its register and is what the pointers and the request mean; for what is
\* buffered in a FIFO, if the count of its slots is a power of two.
ArithmeticFits ==
  /\ ClockClose /\ BcsFits
  /\ shown.what = "kmin" => shown.reg \in 0..2304
  /\ shown.what = "pts" => shown.reg % (Modulus \div 2) = shown.asked \div 2
  /\ shown.what = "speed" /\ shown.new => shown.read = shown.asked
  /\ shown.what = "rings" /\ IsPowerOfTwo(shown.n)
       => /\ shown.free + shown.walked = shown.n - 1
          /\ shown.buffered = shown.walked + shown.card
===============================================================================
