------------------------------ MODULE Em8300Overlay -----------------------------
(***************************************************************************)
(* Where the picture goes: the rectangles of the display controller         *)
(* (em8300_dicom.c) and the registers of the overlay chip EM9010 (em9010.c),*)
(* which mixes the picture into that of the graphics card, as the control   *)
(* ioctls and the sysfs file "zoom" set them.                               *)
(*                                                                          *)
(* The settings are kept in struct em8300_s and written at different times: *)
(* some at once, others with the next window or the next change of mode.    *)
(***************************************************************************)
EXTENDS Integers, FiniteSets, Em8300Bits

CONSTANTS
  Windows,      \* windows asked for: <<x, y, width, height>>
  Screens,      \* resolutions asked for: <<width, height>>
  Counts,       \* what the chip may count between two pulses of the screen
  Attributes,   \* settings of attributes: <<attribute, value>>
  Zooms,        \* values of the file "zoom"
  MaxOps        \* bound on the operations

\* What the constants must satisfy.
OverlayAssumption ==
  /\ \A w \in Windows : w \in Int \X Int \X Int \X Int
  /\ \A s \in Screens : s \in Nat \X Nat
  /\ \A a \in Attributes : a[2] \in Int
  /\ Counts \subseteq Nat /\ Zooms \subseteq Int /\ MaxOps \in Nat

VARIABLES
  em,       \* the settings, in struct em8300_s
  dicom,    \* the display controller: rectangles and kind of output
  reg,      \* the registers of the overlay chip
  changed,  \* settings changed since what depends on them was last written
  ops       \* operations so far

vars == <<em, dicom, reg, changed, ops>>

\* Division as C does it, toward zero.
Quot(a, b) == IF a >= 0 THEN a \div b ELSE -((-a) \div b)

Rect(x, y, w, h) ==
  [left |-> x, top |-> y, right |-> x + w - 1, bottom |-> y + h - 1]

-------------------------------------------------------------------------------
(* The display controller. *)

\* tvmodematrix: lines, pixels, and the place of the first of them.
tvmodematrix ==
  [PAL |-> <<576, 720, 46, 130>>, PAL60 |-> <<480, 720, 46, 138>>,
   NTSC |-> <<480, 720, 31, 138>>]

\* The picture on the TV, shrunk to zoom per cent about its middle.
TvRect(m, zoom) ==
  LET t == tvmodematrix[m]
  IN  Rect(t[4] + 2 * (((100 - zoom) * t[2] + 200) \div 400),
           t[3] + ((100 - zoom) * t[1] + 100) \div 200,
           (zoom * t[2] + 50) \div 100, (zoom * t[1] + 50) \div 100)

\* Variant: a window that begins above the screen keeps its full height.
Sub4288cUnshortened(w, e) ==
  LET h(v) == IF e.double_y THEN v \div 2 ELSE v
      y == h(w[2])   height == h(w[4])   yoff == h(e.a.YOFFSET)
      xv == IF w[1] < 0 THEN 0 ELSE w[1]
      wv == IF w[1] < 0 THEN w[3] + w[1] ELSE w[3]
      yv == IF y < 0 THEN 0 ELSE y
      right == IF xv + wv > e.xres THEN e.xres - xv ELSE wv
      down == IF y + height > e.yres THEN e.yres - y ELSE height
      X(v) == Quot(v * 1000, e.a.XCORR)
  IN  [frame |-> Rect(e.a.XOFFSET + X(w[1]), yoff + y, X(w[3]), height),
       visible |-> Rect(e.a.XOFFSET + X(xv), yoff + yv, X(right), down)]

\* The window w in the coordinates of the card, and the part of it on the screen.
\* The lower edge is shortened by comparing y, not the shortened yv, with yres,
\* and yres is not halved when the other heights are.
sub_4288c(w, e) ==
  LET h(v) == IF e.double_y THEN v \div 2 ELSE v
      y == h(w[2])   height == h(w[4])   yoff == h(e.a.YOFFSET)
      xv == IF w[1] < 0 THEN 0 ELSE w[1]
      wv == IF w[1] < 0 THEN w[3] + w[1] ELSE w[3]
      yv == IF y < 0 THEN 0 ELSE y
      hv == IF y < 0 THEN height + y ELSE height
      right == IF xv + wv > e.xres THEN e.xres - xv ELSE wv
      down == IF y + height > e.yres THEN e.yres - y ELSE hv
      X(v) == Quot(v * 1000, e.a.XCORR)
  IN  [frame |-> Rect(e.a.XOFFSET + X(w[1]), yoff + y, X(w[3]), height),
       visible |-> Rect(e.a.XOFFSET + X(xv), yoff + yv, X(right), down)]

\* Nothing is written when the scale is below 800.
Window(e, d) ==
  IF e.a.XCORR < 800 THEN d
  ELSE LET r == sub_4288c(e.window, e)
       IN  [d EXCEPT !.frame = r.frame, !.visible = r.visible]

em8300_dicom_enable(e, d) ==
  [d EXCEPT !.tvout = [to |-> IF e.enabled THEN "overlay" ELSE "tv",
                       aspect |-> e.aspect]]

\* answers: the controller takes what it is given within the time allowed.  If
\* not, the rectangles and the aspect ratio stay as they were.
em8300_dicom_update(e, d, answers) ==
  LET t == TvRect(e.video_mode, e.zoom)
      r == IF e.enabled THEN Window(e, d) ELSE [d EXCEPT !.frame = t, !.visible = t]
  IN  IF answers THEN [r EXCEPT !.tvout.aspect = e.aspect] ELSE d

-------------------------------------------------------------------------------
(* The overlay chip.  Its registers take the low byte of what is written. *)

\* Register 7: the bits of v over those of h in the upper half.  Nothing keeps v to
\* the lower half.
Over(h, v) ==
  LET w == (v % 256) \div 16 IN 16 * (h + w - And[<<h, w>>]) + (v % 16)

\* A new jitter v; a new signal s, with the jitter v.
Jitter(r7, v) == Over((r7 \div 16) % 16, v)
Signal(v, s) ==
  Over(CASE s = "SIGNAL_ONLY" -> 0 [] s = "SIGNAL_WITH_VGA" -> 4 [] s = "VGA_ONLY" -> 8, v)

\* The two colours that set_keycolor writes have 24 bits.
Key(e) == <<e.a.KEYCOLOR_UPPER % 2^24, e.a.KEYCOLOR_LOWER % 2^24>>

\* Register 10 by mode, and the limits of the key colour in overlay mode alone.
em9010_overlay_update(e, r) ==
  LET s == [r EXCEPT !.r6 = e.a.STABILITY % 256, !.r9 = IF e.enabled THEN 4 ELSE 0,
                     !.r7 = Signal(e.a.JITTER, IF e.enabled THEN "SIGNAL_WITH_VGA"
                                                              ELSE "VGA_ONLY"),
                     !.r12 = IF e.enabled THEN \h8e ELSE \h0e]
  IN  CASE e.mode = "RECTANGLE" -> [s EXCEPT !.r10 = \h77]
        [] e.mode = "OVERLAY" -> [s EXCEPT !.r10 = 0, !.key = Key(e)]
        [] e.mode = "OFF" -> s

\* The rate of the lines from the chip's counters; a reading within one of the
\* last is taken for the last, and one out of range for a guess by the height.
loc_2bcfe(count, last, yres) ==
  LET l7 == 165000 \div (count + 2)
      near == l7 \in last - 1 .. last + 1
      l == IF near THEN last ELSE l7
  IN  [last |-> l,
       rate |-> IF l \notin 100 .. 1000 /\ yres # 0 THEN (yres * 62) \div 100 ELSE l]

\* The pixels of a line by the width of the screen: other widths up to 1280 give
\* none, and larger ones as many as 1024 does.
Pixels(xres) ==
  CASE xres = 640 -> \h370 [] xres = 720 -> \h398 [] xres = 800 -> \h400
    [] xres = 1152 -> \h5a0 [] xres = 1280 -> \h60e [] xres = 1600 -> \h7d0
    [] xres = 2048 -> \ha00 [] xres = 1024 \/ xres > 1280 -> \h500 [] OTHER -> 0

\* The horizontal scale and the divider of the pixel clock, doubled below a
\* product of 30000; a divider of -2, where there are no pixels, is written as
\* the 16 bits it has.
loc_2A66E(rate, xres) ==
  LET l7 == rate \div 10
      l6 == Pixels(xres)
      fast == l6 * l7 >= 70000
      l4 == IF fast THEN (l6 * l7 * 1000) \div 70000 ELSE 1000
      l8 == IF fast THEN 70000 \div l7 ELSE l6
      l9 == IF fast THEN 70000 ELSE l6 * l7
      double == IF l9 > 30000 THEN 0 ELSE 1
      l3 == l8 * 2^double - 2
      capped == IF l3 > \hfff THEN \hfff ELSE l3
  IN  [xcorr |-> IF l4 \in \h352 .. \hdac THEN l4 ELSE \h5dc,
       divider |-> IF capped < 0 THEN 2^16 + capped ELSE capped + double * \h1000]

\* em9010_overlay_set_res, but for the overlay_update at its end.
SetRes(e, s, count) ==
  LET c == loc_2bcfe(count, e.last, s[2])
  IN  [e EXCEPT !.xres = s[1], !.yres = s[2], !.last = c.last, !.rate = c.rate,
                !.a.XCORR = loc_2A66E(c.rate, s[1]).xcorr]

-------------------------------------------------------------------------------
(* The operations.  Each takes double, whether the chip then sees so few lines *)
(* that the card doubles them (loc_2BE50), and answers.                        *)

Operation == ops < MaxOps /\ ops' = ops + 1

\* What em9010_overlay_update leaves: the chip written for e, and double_y.
Updated(e, double) ==
  /\ reg' = em9010_overlay_update(e, reg)
  /\ em' = [e EXCEPT !.double_y = double]

\* After em9010_overlay_update nothing of the chip but a key colour that its mode
\* does not use is out of date; a new double_y or scale shows with the window.
ChipWritten(c, e) == c \ ({"signal", "gamma"} \cup
                          IF e.mode = "OVERLAY" THEN {"key"} ELSE {})
Moved(e) == IF e.double_y # em.double_y \/ e.a.XCORR # em.a.XCORR
               \/ e.xres # em.xres \/ e.yres # em.yres
            THEN {"window"} ELSE {}

\* The rectangles are written unless the scale is too small or the controller
\* does not answer.
Placed(c, e, answers) ==
  IF answers /\ (e.enabled => e.a.XCORR >= 800) THEN c \ {"window"}
  ELSE c \cup {"window"}

\* em8300_ioctl_overlay_setmode, switching the overlay on: dicom_update uses the
\* double_y of the mode before.
OverlayOn(mode, double, answers) ==
  /\ ~em.enabled /\ Operation
  /\ LET e == [em EXCEPT !.enabled = TRUE, !.mode = mode]
     IN  /\ dicom' = em8300_dicom_update(e, em8300_dicom_enable(e, dicom), answers)
         /\ Updated(e, double)
         /\ changed' = ChipWritten(Placed(changed, e, answers), e) \cup Moved(em')

OverlaySwitch(mode, double) ==
  /\ em.enabled /\ Operation
  /\ LET e == [em EXCEPT !.mode = mode]
     IN  /\ Updated(e, double)
         /\ changed' = ChipWritten(changed, e) \cup Moved(em')
  /\ UNCHANGED dicom

OverlayOff(double, answers) ==
  /\ em.enabled /\ Operation
  /\ LET e == [em EXCEPT !.enabled = FALSE, !.mode = "OFF"]
     IN  /\ dicom' = em8300_dicom_enable(e,
                       em8300_dicom_update(e, em8300_dicom_enable(e, dicom), answers))
         /\ Updated(e, double)
         /\ changed' = ChipWritten(Placed(changed, e, answers), e)

\* EM8300_IOCTL_OVERLAY_SETWINDOW; in overlay mode sub_4288c alone.
em8300_ioctl_overlay_setwindow(w, answers) ==
  /\ \A i \in {1, 2} : w[i] \in -2000 .. 2000
  /\ \A i \in {3, 4} : w[i] \in 1 .. 2000
  /\ Operation
  /\ em' = [em EXCEPT !.window = w]
  /\ dicom' = IF em.enabled THEN Window(em', dicom)
              ELSE em8300_dicom_update(em', dicom, answers)
  /\ changed' = Placed(changed, em', em.enabled \/ answers)
  /\ UNCHANGED reg

\* The resolutions that EM8300_IOCTL_OVERLAY_SETSCREEN takes.
Taken(s) == s[1] \in 0 .. 2000 /\ s[2] \in 0 .. 2000

\* EM8300_IOCTL_OVERLAY_SETSCREEN: the window is not written again.
em8300_ioctl_overlay_setscreen(s, count, double) ==
  /\ Taken(s) /\ Operation
  /\ LET e == SetRes(em, s, count)
     IN  /\ reg' = em9010_overlay_update(e,
                     [reg EXCEPT !.divider = loc_2A66E(e.rate, e.xres).divider])
         /\ em' = [e EXCEPT !.double_y = double]
         /\ changed' = ChipWritten(changed, e)
                       \cup (IF em.enabled THEN Moved(em') ELSE {})
  /\ UNCHANGED dicom

\* Variant: the signals are lost when the jitter is set.
JitterAlone(a, v) ==
  [reg EXCEPT !.r7 = IF a = "JITTER" THEN v % 256 ELSE @,
              !.r6 = IF a = "STABILITY" THEN v % 256 ELSE @]

\* What em9010_set_attribute writes to the chip at once.
AttributeWritten(a, v) ==
  [reg EXCEPT !.r7 = IF a = "JITTER" THEN Jitter(@, v) ELSE @,
              !.r6 = IF a = "STABILITY" THEN v % 256 ELSE @]

\* Any value is taken.  What the jitter before had above its four bits stays in
\* register 7, among the signals.
em9010_set_attribute(a, v) ==
  /\ Operation
  /\ em' = [em EXCEPT !.a = [@ EXCEPT ![a] = v]]
  /\ reg' = AttributeWritten(a, v)
  /\ changed' = changed \cup
       (CASE a \in {"XOFFSET", "YOFFSET", "XCORR"} -> IF em.enabled THEN {"window"} ELSE {}
          [] a \in {"KEYCOLOR_UPPER", "KEYCOLOR_LOWER"} -> {"key"}
          [] a = "JITTER" ->
               IF (em.a.JITTER % 256) \div 16 = 0 THEN {} ELSE {"signal"}
          [] OTHER -> {})
  /\ UNCHANGED dicom

em9010_overlay_set_signalmode(s) ==
  /\ Operation
  /\ reg' = [reg EXCEPT !.r7 = Signal(em.a.JITTER, s)]
  /\ changed' = changed \cup {"signal"}
  /\ UNCHANGED <<em, dicom>>

\* The ioctls for the TV mode and the aspect ratio, and the file "zoom", which
\* takes 1 to 100 per cent; all end in em8300_dicom_update.
SetPicture(e, d, answers) ==
  /\ Operation
  /\ em' = e
  /\ dicom' = em8300_dicom_update(e, d, answers)
  /\ changed' = Placed(changed, e, answers)
  /\ UNCHANGED reg

em8300_ioctl_setvideomode(m, answers) ==
  LET e == [em EXCEPT !.video_mode = m]
  IN  SetPicture(e, em8300_dicom_enable(e, dicom), answers)

em8300_ioctl_setaspectratio(r, answers) ==
  SetPicture([em EXCEPT !.aspect = r], dicom, answers)

store_zoom(z, answers) ==
  z > 0 /\ z <= 100 /\ SetPicture([em EXCEPT !.zoom = z], dicom, answers)

-------------------------------------------------------------------------------
(* The specification. *)

\* em9010_init and the end of em8300_video_setup, which writes registers of its
\* own: the chip passes the graphics card's picture on.
Init ==
  LET a == [XOFFSET |-> 225, YOFFSET |-> 43, XCORR |-> 1000, JITTER |-> 0,
            STABILITY |-> 0, KEYCOLOR_UPPER |-> 0, KEYCOLOR_LOWER |-> 0]
      e == [video_mode |-> "PAL", zoom |-> 100, aspect |-> "4:3",
            enabled |-> FALSE, mode |-> "OFF", window |-> <<0, 0, 720, 480>>,
            xres |-> 0, yres |-> 0, last |-> 2000, rate |-> 0,
            double_y |-> FALSE, a |-> a]
      t == TvRect("PAL", 100)
  IN  /\ \E count \in Counts, double \in BOOLEAN :
           em = [SetRes(e, <<1280, 1024>>, count) EXCEPT !.double_y = double]
      /\ dicom = [frame |-> t, visible |-> t,
                  tvout |-> [to |-> "tv", aspect |-> "4:3"]]
      /\ reg = [r6 |-> 0, r7 |-> 128, r9 |-> 0, r10 |-> 0, r12 |-> \h8c,
                key |-> <<0, 0>>, divider |-> \h4fe]
      /\ changed = {"gamma"} /\ ops = 0

Next ==
  \E double, answers \in BOOLEAN :
    \/ \E mode \in {"RECTANGLE", "OVERLAY"} :
         OverlayOn(mode, double, answers) \/ OverlaySwitch(mode, double)
    \/ OverlayOff(double, answers)
    \/ \E w \in Windows : em8300_ioctl_overlay_setwindow(w, answers)
    \/ \E s \in Screens, c \in Counts : em8300_ioctl_overlay_setscreen(s, c, double)
    \/ \E a \in Attributes : em9010_set_attribute(a[1], a[2])
    \/ \E s \in {"SIGNAL_ONLY", "SIGNAL_WITH_VGA", "VGA_ONLY"} :
         em9010_overlay_set_signalmode(s)
    \/ \E m \in DOMAIN tvmodematrix : em8300_ioctl_setvideomode(m, answers)
    \/ \E r \in {"4:3", "16:9"} : em8300_ioctl_setaspectratio(r, answers)
    \/ \E z \in Zooms : store_zoom(z, answers)

Spec == Init /\ [][Next]_vars

-------------------------------------------------------------------------------
(* Properties. *)

Within(r, s) == /\ r.left >= s.left /\ r.right <= s.right
                /\ r.top >= s.top /\ r.bottom <= s.bottom

\* A picture of the TV mode keeps its middle, to a line and two pixels, and stays
\* on the screen, whatever the zoom.
TvFits ==
  \A z \in 1 .. 100 :
    LET t == TvRect(em.video_mode, z)   full == TvRect(em.video_mode, 100)
    IN  /\ Within(t, full) /\ t.left <= t.right /\ t.top <= t.bottom
        /\ (t.top + t.bottom) - (full.top + full.bottom) \in -1 .. 1
        /\ (t.left + t.right) - (full.left + full.right) \in -2 .. 2

\* For any window that touches the screen the visible part lies within the frame
\* and ends with the screen, unless the window begins above the screen and ends
\* below it: then the visible part is too high by what is above.
WindowFits ==
  em.a.XCORR >= 800 =>
    \A w \in Windows :
      LET s == sub_4288c(w, em)
          h(v) == IF em.double_y THEN v \div 2 ELSE v
          y == h(w[2])   down == y + h(w[4])
          both == y < 0 /\ down > em.yres
      IN  (w[1] < em.xres /\ y < em.yres /\ w[1] + w[3] > 0 /\ down > 0) =>
             /\ s.visible.left >= em.a.XOFFSET /\ s.visible.left >= s.frame.left
             /\ s.visible.right <= s.frame.right + 1
             /\ s.visible.right < em.a.XOFFSET + Quot(em.xres * 1000, em.a.XCORR) + 1
             /\ s.visible.top >= h(em.a.YOFFSET) /\ s.visible.top >= s.frame.top
             /\ ~both => /\ s.visible.bottom <= s.frame.bottom
                         /\ s.visible.bottom < h(em.a.YOFFSET) + em.yres
             /\ both => s.visible.bottom = h(em.a.YOFFSET) + em.yres - y - 1

\* The scale that a resolution gives, if the ioctl accepts it, is always one that
\* windows are placed with, and its divider fits in the chip's 12 bits if the width
\* is one it knows.
ScaleFits ==
  \A s \in Screens, c \in Counts :
    Taken(s) =>
      LET r == loc_2A66E(loc_2bcfe(c, em.last, s[2]).rate, s[1])
      IN  r.xcorr >= 800 /\ (Pixels(s[1]) > 0 => r.divider < 2^13)

\* The picture is where it should be: on the TV, in a window of the screen, and with
\* a scale that the window can be placed with, for any of the settings asked for.
PictureFits == TvFits /\ WindowFits /\ ScaleFits

\* Whatever the history and whatever the values of the attributes, which nothing
\* checks, chip and display controller hold of the settings as many bits as a
\* register has, but for the settings changed since: a window, in overlay mode, after
\* a new offset, scale, resolution or doubling; signals chosen by hand, or left by a
\* jitter of more than four bits; and a key colour that no change of mode has written.
\* The signals are those of the mode, together with the bits of such a jitter.
ChipFollows ==
  /\ dicom.tvout.to = IF em.enabled THEN "overlay" ELSE "tv"
  /\ reg.r6 = em.a.STABILITY % 256 /\ reg.r7 % 16 = em.a.JITTER % 16
  /\ reg.r9 = IF em.enabled THEN 4 ELSE 0
  /\ "gamma" \notin changed => reg.r12 = IF em.enabled THEN \h8e ELSE \h0e
  /\ "signal" \notin changed =>
       reg.r7 = Signal(em.a.JITTER, IF em.enabled THEN "SIGNAL_WITH_VGA" ELSE "VGA_ONLY")
  /\ em.enabled => reg.r10 = IF em.mode = "OVERLAY" THEN 0 ELSE \h77
  /\ "key" \notin changed /\ em.mode = "OVERLAY" => reg.key = Key(em)
  /\ "window" \notin changed =>
       LET t == TvRect(em.video_mode, em.zoom)
           r == IF em.enabled THEN sub_4288c(em.window, em)
                ELSE [frame |-> t, visible |-> t]
       IN  dicom.frame = r.frame /\ dicom.visible = r.visible
===============================================================================
