------------------------------- MODULE MCControl -------------------------------
(***************************************************************************)
(* The control of a card, for TLC: its output, its encoder, its overlay, the *)
(* calibration, the numbers in its registers, its I2C pins and its life.     *)
(* The models run side by side and a behaviour here is a behaviour of one of *)
(* them; a variable that several of them have stands for that of the one     *)
(* whose behaviour it is, and the variables of the others are unused.        *)
(***************************************************************************)
EXTENDS Integers, Sequences, FiniteSets

CONSTANTS Encoders, VideoModes, MaxIoctls, MaxOpens,            \* Em8300Output
          Chips, Adjustments,                                   \* Em8300Encoder
          Counts, Zooms, MaxOps,                                \* Em8300Overlay
          Defaults, HitsY, HitsX, Spins, MaxRuns,               \* Em8300Calibrate
          HalfClock, IntHalf, Settings, Rates, Slots, CardRing, MaxSteps, \* Em8300Arith
          Width, Bytes, MaxTransfers,                           \* Em8300Bus
          MaxProbes, MaxLoads, MaxFailures                      \* Em8300Life

VARIABLES part,  \* whose behaviour this is
  \* of several models
  em, shown, regs, todo, count, ops,
  \* of one
  board, data, within, sure, by, mixed,
  chip, conf, mode, enable, param,
  dicom, reg, changed,
  ov, file, at, seen, before, runs,
  clock, call, torn,
  pin, drive, want, took, alone, listening, transfers,
  fwLoader, doing, held, pointer, ucodeloaded, irqmask, armed, handler,
  ignored, aborted, wrong, leaked, stale, raced

\* Windows, settings and tries that a .cfg cannot write.
Windows == {<<-40, -30, 800, 400>>, <<100, 60, 640, 480>>,
            <<-10, -100, 300, 1500>>, <<1200, 900, 400, 401>>}
Screens == {<<1280, 1024>>, <<1000, 700>>}
Attributes == {<<"XOFFSET", 40>>, <<"YOFFSET", 21>>, <<"XCORR", 700>>,
               <<"JITTER", 2>>, <<"JITTER", -44>>, <<"STABILITY", 300>>,
               <<"KEYCOLOR_UPPER", -1>>}
Asked == {-60000, -1, 0, 4, 250, 500, 996, 1000, 1001, 60000}
HitsC == {-100, -99, 149}
Tolerance == [SCR_GET |-> 2, VIDEO_SETSCR |-> 3]

Output == INSTANCE Em8300Output
Encoder == INSTANCE Em8300Encoder
Overlay == INSTANCE Em8300Overlay
Calibrate == INSTANCE Em8300Calibrate
Arith == INSTANCE Em8300Arith WITH MaxOps <- MaxSteps
Bus == INSTANCE Em8300Bus
Life == INSTANCE Em8300Life

ASSUME OutputConstants == Output!OutputAssumption
ASSUME EncoderConstants == Encoder!EncoderAssumption
ASSUME OverlayConstants == Overlay!OverlayAssumption
ASSUME CalibrateConstants == Calibrate!CalibrateAssumption
ASSUME ArithConstants == Arith!ArithAssumption
ASSUME BusConstants == Bus!BusAssumption
ASSUME LifeConstants == Life!LifeAssumption

-------------------------------------------------------------------------------
shared == <<em, shown, regs, todo, count, ops>>
output == <<board, data, within, sure, by, mixed>>
encoder == <<chip, conf, mode, enable, param>>
overlay == <<dicom, reg, changed>>
calibrate == <<ov, file, at, seen, before, runs>>
arith == <<clock, call, torn>>
bus == <<pin, drive, want, took, alone, listening, transfers>>
life == <<fwLoader, doing, held, pointer, ucodeloaded, irqmask, armed, handler,
          ignored, aborted, wrong, leaked, stale, raced>>
vars == <<part, shared, output, encoder, overlay, calibrate, arith, bus, life>>

Unused == "unused"
NoOutput == board = Unused /\ data = Unused /\ within = Unused /\ sure = Unused
            /\ by = Unused /\ mixed = Unused
NoEncoder == chip = Unused /\ conf = Unused /\ mode = Unused /\ enable = Unused
             /\ param = Unused
NoOverlay == dicom = Unused /\ reg = Unused /\ changed = Unused
NoCalibrate == ov = Unused /\ file = Unused /\ at = Unused /\ seen = Unused
               /\ before = Unused /\ runs = Unused
NoArith == clock = Unused /\ call = Unused /\ torn = Unused
NoBus == pin = Unused /\ drive = Unused /\ want = Unused /\ took = Unused
         /\ alone = Unused /\ listening = Unused /\ transfers = Unused
NoLife == fwLoader = Unused /\ doing = Unused /\ held = Unused /\ pointer = Unused
          /\ ucodeloaded = Unused /\ irqmask = Unused /\ armed = Unused
          /\ handler = Unused /\ ignored = Unused /\ aborted = Unused
          /\ wrong = Unused /\ leaked = Unused /\ stale = Unused /\ raced = Unused

Init ==
  \/ /\ part = "output" /\ Output!Init /\ ops = Unused
     /\ NoEncoder /\ NoOverlay /\ NoCalibrate /\ NoArith /\ NoBus /\ NoLife
  \/ /\ part = "encoder" /\ Encoder!Init
     /\ em = Unused /\ shown = Unused /\ todo = Unused /\ count = Unused /\ ops = Unused
     /\ NoOutput /\ NoOverlay /\ NoCalibrate /\ NoArith /\ NoBus /\ NoLife
  \/ /\ part = "overlay" /\ Overlay!Init
     /\ shown = Unused /\ regs = Unused /\ todo = Unused /\ count = Unused
     /\ NoOutput /\ NoEncoder /\ NoCalibrate /\ NoArith /\ NoBus /\ NoLife
  \/ /\ part = "calibrate" /\ Calibrate!Init
     /\ shown = Unused /\ regs = Unused /\ todo = Unused /\ count = Unused /\ ops = Unused
     /\ NoOutput /\ NoEncoder /\ NoOverlay /\ NoArith /\ NoBus /\ NoLife
  \/ /\ part = "arith" /\ Arith!Init
     /\ em = Unused /\ regs = Unused /\ todo = Unused /\ count = Unused
     /\ NoOutput /\ NoEncoder /\ NoOverlay /\ NoCalibrate /\ NoBus /\ NoLife
  \/ /\ part = "bus" /\ Bus!Init
     /\ em = Unused /\ shown = Unused /\ regs = Unused /\ count = Unused /\ ops = Unused
     /\ NoOutput /\ NoEncoder /\ NoOverlay /\ NoCalibrate /\ NoArith /\ NoLife
  \/ /\ part = "life" /\ Life!Init
     /\ em = Unused /\ shown = Unused /\ regs = Unused /\ ops = Unused
     /\ NoOutput /\ NoEncoder /\ NoOverlay /\ NoCalibrate /\ NoArith /\ NoBus

Next ==
  /\ UNCHANGED part
  /\ \/ /\ part = "output" /\ Output!Next
        /\ UNCHANGED <<ops, encoder, overlay, calibrate, arith, bus, life>>
     \/ /\ part = "encoder" /\ Encoder!Next
        /\ UNCHANGED <<em, shown, todo, count, ops>>
        /\ UNCHANGED <<output, overlay, calibrate, arith, bus, life>>
     \/ /\ part = "overlay" /\ Overlay!Next
        /\ UNCHANGED <<shown, regs, todo, count>>
        /\ UNCHANGED <<output, encoder, calibrate, arith, bus, life>>
     \/ /\ part = "calibrate" /\ Calibrate!Next
        /\ UNCHANGED <<shown, regs, todo, count, ops>>
        /\ UNCHANGED <<output, encoder, overlay, arith, bus, life>>
     \/ /\ part = "arith" /\ Arith!Next
        /\ UNCHANGED <<em, regs, todo, count>>
        /\ UNCHANGED <<output, encoder, overlay, calibrate, bus, life>>
     \/ /\ part = "bus" /\ Bus!Next
        /\ UNCHANGED <<em, shown, regs, count, ops>>
        /\ UNCHANGED <<output, encoder, overlay, calibrate, arith, life>>
     \/ /\ part = "life" /\ Life!Next
        /\ UNCHANGED <<em, shown, regs, ops>>
        /\ UNCHANGED <<output, encoder, overlay, calibrate, arith, bus>>

Spec == Init /\ [][Next]_vars

-------------------------------------------------------------------------------
\* Chips, display controller and clock agree with overlay mode and the TV mode, once
\* all calls have been made, as far as each had the controller for itself (Em8300Output).
OutputAgrees == part = "output" => Output!OutputAgrees

\* A card that plays shows its picture (Em8300Output).
PlayingShows == part = "output" => Output!PlayingShows

\* Registers written from settings read too early hold what overlapping updates
\* account for (Em8300Output).
StaleBounded == part = "output" => Output!StaleBounded

\* An encoder keeps its parameters (Em8300Encoder).
ParametersKept == part = "encoder" => Encoder!ParametersKept

\* An encoder is dark or fully set up for its mode (Em8300Encoder).
DarkOrConfigured == part = "encoder" => Encoder!DarkOrConfigured

\* The picture of the overlay lies in its window and screen (Em8300Overlay).
PictureFits == part = "overlay" => Overlay!PictureFits

\* The overlay chip holds the attributes of the driver (Em8300Overlay).
ChipFollows == part = "overlay" => Overlay!ChipFollows

\* A calibration that succeeds is kept, in the driver and in the file
\* (Em8300Calibrate).
CalibrationKept == part = "calibrate" => Calibrate!CalibrationKept

\* What is computed for registers and from them is right (Em8300Arith).
ArithmeticFits == part = "arith" => Arith!ArithmeticFits

\* A transfer that had the pins for itself delivers its bytes (Em8300Bus).
BusDelivers == part = "bus" => Bus!BusDelivers

\* What the driver takes it gives back, in order (Em8300Life).
LifeBalanced == part = "life" => Life!LifeBalanced
===============================================================================
