----------------------------- MODULE Em8300Encoder -----------------------------
(***************************************************************************)
(* The drivers of the TV encoders: the ADV7170 and ADV7175A (adv717x.c) and *)
(* the BT865 (bt865.c), and what the card's driver tells them when it finds *)
(* one (em8300_adv717x_setup of em8300_i2c.c).                              *)
(*                                                                          *)
(* A driver keeps the registers of the chip in memory, one table for each   *)
(* TV mode, and copies the table of the current mode to the chip on every   *)
(* command.  Several parameters own a few bits each of the same registers.  *)
(* Here a command is one step; Em8300Output interleaves their writes.       *)
(***************************************************************************)
EXTENDS Integers, Sequences

CONSTANTS
  Chips,        \* the encoders considered
  Adjustments   \* values given for the pixel data adjustment

\* What the constants must satisfy.
EncoderAssumption ==
  Chips \subseteq {"ADV7170", "ADV7175A", "BT865"} /\ Adjustments \subseteq Int

VARIABLES
  chip,     \* which encoder is on the card
  conf,     \* its tables, one for each mode
  mode,     \* data->mode
  enable,   \* data->enableoutput
  param,    \* the parameters last handed to the driver
  regs      \* the registers of the chip itself

vars == <<chip, conf, mode, enable, param, regs>>

\* Bit b of v, and v with bit b set to x.
Bit(v, b) == (v \div 2^b) % 2
SetReg(v, b, x) == v + (x - Bit(v, b)) * 2^b

\* Registers first .. first + n - 1 start with the values of s and end in zeros.
Table(n, s) == [i \in 0 .. n - 1 |-> IF i < Len(s) THEN s[i + 1] ELSE 0]

-------------------------------------------------------------------------------
(* The tables of the source, up to the last entry that is not zero. *)

PAL_config_7170 == Table(27,
  <<\h05, 0, \h02, 0, 0, 0, 0, \h0d, \h77, \hcb, \h8a, \h09, \h2a>>)
NTSC_config_7170 == Table(27,
  <<\h10, \h06, \h08, 0, 0, 0, 0, \h0d, \h77, \h16, \h7c, \hf0, \h21>>)

PAL_M_config_7175 == Table(19, <<\h06, \h00, \ha3, \hef, \he6, \h21, 0, \h0d,
                               0, 0, 0, 0, \h70, \h73, 0, 0, 0, 0, \h42>>)
PAL_config_7175 == Table(19, <<\h01, \h06, \hcb, \h8a, \h09, \h2a, 0, \h0d,
                             0, 0, 0, 0, \h73, \h08, 0, 0, 0, 0, \h42>>)
PAL60_config_7175 == Table(19, <<\h12, \h00, \hcb, \h8a, \h09, \h2a, 0, \h0d,
                               0, 0, 0, 0, \h73, \h08, 0, 0, 0, 0, \h42>>)
NTSC_config_7175 == Table(19, <<\h04, \h00, \h16, \h7c, \hf0, \h21, 0, \h0d,
                              0, 0, 0, 0, \h77, \h00, 0, 0, 0, 0, \h42>>)

\* The tables of the BT865 differ in registers 14 and 22 to 24 alone.
Bt865(r14, r22, r23, r24) ==
  [i \in 0 .. 47 |-> CASE i = 14 -> r14 [] i = 22 -> r22 [] i = 23 -> r23
                       [] i = 24 -> r24 [] OTHER -> 0]
NTSC_CONFIG_BT865 == Bt865(\hc1, \h00, \h04, 0)
NTSC60_CONFIG_BT865 == Bt865(0, \h88, \h0a, 0)
PALM_CONFIG_BT865 == Bt865(0, \hf0, \h02, 0)
PALM60_CONFIG_BT865 == Bt865(0, \hf8, \h02, 0)
PAL_CONFIG_BT865 == Bt865(0, \he4, \h02, 0)
PALNC_CONFIG_BT865 == Bt865(0, \hf4, \h02, 1)

\* The modes of encoder.h, and the tables that each driver has for them.
Modes == {"NTSC", "NTSC60", "PAL_M", "PALM60", "PAL", "PAL60", "PALNC"}
PalModes == {"PAL", "PAL_M", "PAL60"}

adv7170_setup ==
  [m \in PalModes \cup {"NTSC"} |->
     IF m = "NTSC" THEN NTSC_config_7170 ELSE PAL_config_7170]
adv7175a_setup ==
  [m \in PalModes \cup {"NTSC"} |->
     CASE m = "PAL" -> PAL_config_7175 [] m = "PAL_M" -> PAL_M_config_7175
       [] m = "PAL60" -> PAL60_config_7175 [] m = "NTSC" -> NTSC_config_7175]
bt865_tables ==
  [m \in Modes \ {"PAL60"} |->
     CASE m = "NTSC" -> NTSC_CONFIG_BT865 [] m = "NTSC60" -> NTSC60_CONFIG_BT865
       [] m = "PAL_M" -> PALM_CONFIG_BT865 [] m = "PALM60" -> PALM60_CONFIG_BT865
       [] m = "PAL" -> PAL_CONFIG_BT865 [] m = "PALNC" -> PALNC_CONFIG_BT865]

Tables(c) == CASE c = "ADV7170" -> adv7170_setup
               [] c = "ADV7175A" -> adv7175a_setup
               [] c = "BT865" -> bt865_tables

\* Names of registers, by the offset they have in each chip.
Reg(c, r) ==
  CASE r = "MR0" -> 0 [] r = "MR1" -> 1 [] r = "TR0" -> 7
    [] r = "TR1" -> IF c = "ADV7170" THEN 8 ELSE 12
    [] r = "MR2" -> IF c = "ADV7170" THEN 2 ELSE 13
    [] r = "MR3" -> IF c = "ADV7170" THEN 3 ELSE 18
    [] r = "MR4" -> 4

-------------------------------------------------------------------------------
(* The parameters of the ADV717x. *)

\* Bit b of register r of a table set to x, and the tables with those that are
\* changed.
Assign(t, c, r, b, x) == [t EXCEPT ![Reg(c, r)] = SetReg(@, b, x)]
InModes(cf, changed) ==
  [m \in DOMAIN cf |-> IF m \in DOMAIN changed THEN changed[m] ELSE cf[m]]

\* mode_info: component, yuv, euroscart, progressive, sync_all, and the four
\* converters A to D, which a one switches off.
mode_info == <<
  <<0, 0, 0, 0, 0, 1, 0, 0, 0>>, <<0, 0, 0, 0, 0, 1, 1, 0, 0>>,
  <<0, 0, 0, 0, 0, 1, 0, 1, 1>>, <<0, 0, 1, 0, 0, 1, 0, 0, 0>>,
  <<0, 0, 1, 0, 0, 1, 1, 0, 0>>, <<0, 0, 1, 0, 0, 1, 1, 1, 0>>,
  <<1, 1, 0, 0, 0, 1, 0, 0, 0>>, <<1, 0, 0, 0, 1, 0, 0, 0, 0>>,
  <<1, 0, 0, 0, 0, 0, 0, 0, 0>> >>

adv717x_set_outputmode(cf, c, ms, out) ==
  LET A(t, r, b, i) == Assign(t, c, r, b, mode_info[out][i])
      Picture(t) ==
        IF c = "ADV7175A"
        THEN A(A(A(A(t, "MR0", 6, 1), "MR2", 6, 2), "MR3", 7, 3), "MR0", 5, 5)
        ELSE A(A(A(A(t, "MR4", 0, 1), "MR4", 1, 2), "MR3", 3, 3), "MR4", 2, 5)
      Converters(t) ==
        A(A(A(A(A(t, "MR1", 0, 4), "MR1", 6, 6), "MR1", 5, 7), "MR1", 3, 8), "MR1", 4, 9)
  IN  InModes(cf, [m \in ms |-> Converters(Picture(cf[m]))])

adv717x_set_colorbars(cf, c, ms, v) ==
  InModes(cf, [m \in ms |-> Assign(cf[m], c, "MR1", 7, v)])

adv717x_set_pixelport(cf, c, ms, v) ==
  InModes(cf, [m \in ms |-> Assign(cf[m], c, "TR0", 6, v)])

\* Variant: the adjustment is shifted into the bits below its own.
PixelDataAdjLow(cf, c, ms, v) ==
  IF v \notin 0 .. 3 THEN cf
  ELSE InModes(cf, [m \in ms |->
                     Assign(Assign(cf[m], c, "TR1", 5, v % 2), c, "TR1", 6, v \div 2)])

\* A value that does not fit in the two bits is refused.
adv717x_set_pixeldataadj(cf, c, ms, v) ==
  IF v \notin 0 .. 3 THEN cf
  ELSE InModes(cf, [m \in ms |->
                     Assign(Assign(cf[m], c, "TR1", 6, v % 2), c, "TR1", 7, v \div 2)])

-------------------------------------------------------------------------------
(* The commands. *)

\* What a driver writes to the chip: for an ADV717x the table of the mode, all
\* converters off when the output is, and the reset bit pulsed; for the BT865 a
\* table in which the bits that are wanted are added to those already set.
adv717x_update(cf, m, on) ==
  LET t == [cf[m] EXCEPT ![7] = SetReg(@, 7, 0)]
  IN  IF on THEN t
      ELSE [t EXCEPT ![1] = SetReg(SetReg(SetReg(SetReg(@, 3, 1), 4, 1), 5, 1), 6, 1)]

bt865_update(cf, m, on, p) ==
  LET Or(v, b, x) == IF x = 1 THEN SetReg(v, b, 1) ELSE v
  IN  [cf[m] EXCEPT ![23] =
         Or(Or(Or(@, 4, p.bars), 1, IF on THEN 1 ELSE 0), 6, p.rgb)]

Update(cf, m, on, p) == IF chip = "BT865" THEN bt865_update(cf, m, on, p)
                        ELSE adv717x_update(cf, m, on)

NoParam == [bars |-> 0, rgb |-> 0, out |-> 0, port |-> 0, other |-> 0,
            ntsc |-> 0, pal |-> 0]

\* What the probes leave, with the module parameter color_bars: an ADV717x starts
\* in PAL60 with its output on, a BT865 in PAL with it off.
adv717x_probe(c, bars) ==
  /\ conf = adv717x_set_colorbars(Tables(c), c, DOMAIN Tables(c), bars)
  /\ mode = "PAL60" /\ enable = TRUE

bt865_setup ==
  /\ conf = bt865_tables
  /\ mode = "PAL" /\ enable = FALSE

Init ==
  \E bars \in 0 .. 1, rgb \in 0 .. 1 :
    /\ chip \in Chips
    /\ chip # "BT865" => rgb = 0
    /\ param = [NoParam EXCEPT !.bars = bars, !.rgb = rgb]
    /\ IF chip = "BT865" THEN bt865_setup ELSE adv717x_probe(chip, bars)
    /\ regs = Update(conf, mode, enable, param)

\* em8300_adv717x_setup: the output is switched off, and then the parameters are
\* put in the tables; none is written to the chip before the next command.  The
\* bus width of the pixel port may be the other one in the PAL modes.
Setup(p) ==
  /\ chip # "BT865" /\ param.out = 0
  /\ p.out > 0 /\ p.rgb = 0
  /\ enable' = FALSE
  /\ regs' = Update(conf, mode, FALSE, param)
  /\ LET all == DOMAIN conf
         bars == adv717x_set_colorbars(conf, chip, all, p.bars)
         outp == adv717x_set_outputmode(bars, chip, all, p.out)
         port == adv717x_set_pixelport(
                   adv717x_set_pixelport(outp, chip, {"NTSC"}, p.port),
                   chip, PalModes, IF p.other = 1 THEN 1 - p.port ELSE p.port)
     IN  conf' = adv717x_set_pixeldataadj(
                   adv717x_set_pixeldataadj(port, chip, {"NTSC"}, p.ntsc),
                   chip, PalModes, p.pal)
  /\ param' = p
  /\ UNCHANGED <<chip, mode>>

\* ENCODER_CMD_SETMODE: a mode without a table leaves the mode alone, and the
\* chip is written all the same.
SetMode(m) ==
  /\ mode' = IF m \in DOMAIN conf THEN m ELSE mode
  /\ regs' = Update(conf, mode', enable, param)
  /\ UNCHANGED <<chip, conf, enable, param>>

\* Variant: the command only records what is wanted.
EnableOutputLazily(on) ==
  /\ enable' = on
  /\ UNCHANGED <<chip, conf, mode, param, regs>>

\* ENCODER_CMD_ENABLEOUTPUT.
EnableOutput(on) ==
  /\ enable' = on
  /\ regs' = Update(conf, mode, on, param)
  /\ UNCHANGED <<chip, conf, mode, param>>

Params == [bars : 0 .. 1, rgb : {0}, out : DOMAIN mode_info, port : 0 .. 1,
           other : 0 .. 1, ntsc : Adjustments, pal : Adjustments]

Next == \/ \E p \in Params : Setup(p)
        \/ \E m \in {"NTSC", "PAL", "PAL60"} : SetMode(m)
        \/ \E on \in BOOLEAN : EnableOutput(on)

Spec == Init /\ [][Next]_vars

-------------------------------------------------------------------------------
(* Properties. *)

\* The bits that a parameter owns and the value it gives them in mode m.
Owned(m) ==
  LET i == mode_info[param.out]
      two == chip = "ADV7175A"
      p == IF m # "NTSC" /\ param.other = 1 THEN 1 - param.port ELSE param.port
      d == IF m = "NTSC" THEN param.ntsc ELSE param.pal
  IN  { <<"MR1", 7, param.bars>>, <<"TR0", 6, p>>,
        <<IF two THEN "MR0" ELSE "MR4", IF two THEN 6 ELSE 0, i[1]>>,
        <<IF two THEN "MR2" ELSE "MR4", IF two THEN 6 ELSE 1, i[2]>>,
        <<"MR3", IF two THEN 7 ELSE 3, i[3]>>,
        <<IF two THEN "MR0" ELSE "MR4", IF two THEN 5 ELSE 2, i[5]>>,
        <<"MR1", 0, i[4]>>, <<"MR1", 6, i[6]>>, <<"MR1", 5, i[7]>>,
        <<"MR1", 3, i[8]>>, <<"MR1", 4, i[9]>> }
      \cup IF d \in 0 .. 3 THEN {<<"TR1", 6, d % 2>>, <<"TR1", 7, d \div 2>>}
           ELSE {}

\* Each parameter reaches its own bits in the tables of the modes it is meant
\* for, and no setting of one parameter disturbs the bits of another or any bit
\* that the source's table fixes: the order of em8300_adv717x_setup's commands
\* does not matter.
ParametersKept ==
  chip # "BT865" /\ param.out > 0 =>
    \A m \in DOMAIN conf :
      LET own == {<<Reg(chip, o[1]), o[2], o[3]>> : o \in Owned(m)}
      IN  \A r \in DOMAIN conf[m], b \in 0 .. 7 :
            Bit(conf[m][r], b) =
              IF \E o \in own : o[1] = r /\ o[2] = b
              THEN (CHOOSE o \in own : o[1] = r /\ o[2] = b)[3]
              ELSE Bit(Tables(chip)[m][r], b)

\* Parameters set up but not yet written never show: once an ADV717x is set up,
\* either all its converters are off or the chip holds the whole table of the
\* current mode.  A BT865 whose output is off is dark in NTSC only, for its other
\* tables hold the bit that ENABLEOUTPUT adds.
DarkOrConfigured ==
  IF chip = "BT865"
  THEN ~enable => (Bit(regs[23], 1) = 0 <=> mode = "NTSC")
  ELSE param.out > 0 =>
         IF enable THEN regs = [conf[mode] EXCEPT ![7] = SetReg(@, 7, 0)]
         ELSE \A b \in 3 .. 6 : Bit(regs[1], b) = 1
===============================================================================
