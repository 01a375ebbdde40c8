----------------------------- MODULE Em8300Calibrate ----------------------------
(***************************************************************************)
(* The calibration of the overlay: the searches of em9010.c for the place   *)
(* and the scale of the picture on the screen, the library that asks for    *)
(* them (overlay.c), and the programs autocal and dxr3view that keep the    *)
(* values in a file for each resolution.                                    *)
(*                                                                          *)
(* A search moves a test picture until a sensor of the chip sees it.  What  *)
(* the sensor says is the environment's choice.  One program runs at a      *)
(* time and may be killed between any two of its calls; a call is one step. *)
(***************************************************************************)
EXTENDS Integers

CONSTANTS
  Defaults,   \* scales the driver computes for a resolution
  HitsY,      \* tries after which the sensor may see the picture
  HitsX,
  HitsC,      \* the same, counted from -100
  Spins,      \* values the user may set in dxr3view
  MaxRuns     \* bound on the runs of the programs

\* What the constants must satisfy.
CalibrateAssumption ==
  /\ Defaults \subseteq \h352 .. \hdac
  /\ HitsY \subseteq 0 .. 59 /\ HitsX \subseteq 0 .. 219 /\ HitsC \subseteq -100 .. 149
  /\ Spins \subseteq Int /\ MaxRuns \in Nat

VARIABLES
  em,       \* the driver's attributes and mode
  ov,       \* overlay_t of the running program
  file,     \* the saved state
  at,       \* the program and its next call
  seen,     \* where the picture was when the sensor saw it, for each search
  before,   \* the file when the last run began, as that run read it
  runs

vars == <<em, ov, file, at, seen, before, runs>>

Fields == {"xoffset", "yoffset", "xcorr", "stability"}

\* overlay_init.
NewOverlay == [xoffset |-> 0, yoffset |-> 0, xcorr |-> 1000, stability |-> 0]

\* em8300_ioctl_overlay_setmode and overlay_set_screen, as far as they matter
\* here: both write the stability to the chip's register of eight bits, and a new resolution, even the
\* same again, has the scale of the driver.
SetMode(e, on) == [e EXCEPT !.enabled = on, !.r6 = e.a.stability % 256]
SetScreen(e) == [e EXCEPT !.a.xcorr = e.default, !.r6 = e.a.stability % 256]

-------------------------------------------------------------------------------
(* The searches of the driver.  Each gives the settings it leaves, where the    *)
(* sensor saw the picture and whether the ioctl succeeds.                       *)

Half(e, v) == IF e.double_y THEN v \div 2 ELSE v

\* The first line of a picture at window line y, as sub_4288c places it.
Top(e, y, yoffset) == Half(e, yoffset) + Half(e, y)

\* Try i looks at the picture that try i - 1 has placed, the first at the one
\* placed before the search.
Placed(i) == IF i = 0 THEN 0 ELSE i - 1

Searching(e, xoffset, yoffset, xcorr) ==
  [e EXCEPT !.a.xoffset = xoffset, !.a.yoffset = yoffset, !.a.xcorr = xcorr]

\* The search for the line begins with its picture at line 4.
LineSearch(e) ==
  [Searching(e, 100000 \div e.default, 4, e.default) EXCEPT
     !.r6 = 0, !.playmode = "FRAMEBUF"]

\* Variant: running out of tries counts as success.
YoffsetUnchecked(e) ==
  LET s == LineSearch(e)
  IN  { [em |-> [s EXCEPT !.a.yoffset = Half(e, 4 + i - 2)],
         seen |-> Top(e, Placed(i), 4), ok |-> TRUE] : i \in HitsY }
      \cup { [em |-> s, seen |-> 0, ok |-> TRUE] }

\* The result is halved here and again by sub_4288c when lines are doubled.
em9010_calibrate_yoffset(e) ==
  LET s == LineSearch(e)
  IN  { [em |-> [s EXCEPT !.a.yoffset = Half(e, 4 + i - 2)],
         seen |-> Top(e, Placed(i), 4), ok |-> TRUE] : i \in HitsY }
      \cup { [em |-> s, seen |-> 0, ok |-> FALSE] }

em9010_calibrate_xoffset(e) ==
  LET s == Searching(e, 100, e.a.yoffset, 1000)
  IN  { [em |-> [s EXCEPT !.a.xoffset = 100 + i],
         seen |-> 100 + Placed(i), ok |-> TRUE] : i \in HitsX }
      \cup { [em |-> s, seen |-> 0, ok |-> FALSE] }

\* The scale of try i; tries that run out leave the scale of the last, and are a
\* success.  The picture may stop at any try.
Scale(e, i) == e.default + i * (IF e.default > 1200 THEN 2 ELSE 1)

em9010_calibrate_xcorrection(e) ==
  LET Tried(i) == IF i = -100 THEN e.default ELSE Scale(e, i - 1)
      s(c) == Searching(e, e.a.xoffset, e.a.yoffset, c)
      margin == IF e.default > 1500 THEN 2 ELSE -2
  IN  { [em |-> s(Tried(i) + margin), seen |-> Tried(i), ok |-> TRUE] :
          i \in HitsC \cup {150} }
      \cup { [em |-> s(Tried(i)), seen |-> 0, ok |-> FALSE] : i \in HitsC }

-------------------------------------------------------------------------------
(* The programs. *)

Goto(program, call) == at' = [program |-> program, call |-> call, ended |-> at.ended]
End(how) == at' = [program |-> "none", call |-> "none", ended |-> how]
In(call) == at.call = call

\* overlay_set_screen after overlay_init; the mode is left as it is.
Start(program) ==
  /\ at.program = "none" /\ runs < MaxRuns
  /\ runs' = runs + 1
  /\ em' = SetScreen(em)
  /\ ov' = NewOverlay
  /\ before' = IF file.state = "whole" THEN file.ov ELSE NewOverlay
  /\ Goto(program, "read")
  /\ UNCHANGED <<file, seen>>

\* overlay_read_state: without a file nothing is set; with one, even if it was
\* cut off before its first line, all attributes are.
ReadState ==
  /\ In("read")
  /\ ov' = IF file.state = "whole" THEN file.ov ELSE ov
  /\ em' = IF file.state = "none" THEN em
           ELSE [em EXCEPT !.a = ov', !.r6 = ov'.stability % 256]
  /\ Goto(at.program, IF at.program = "autocal" THEN "begin" ELSE "view")
  /\ UNCHANGED <<file, seen, before, runs>>

\* The beginning of overlay_autocalibrate.
Begin ==
  /\ In("begin")
  /\ em' = SetScreen(SetMode(em, TRUE))
  /\ Goto("autocal", "yoffset")
  /\ UNCHANGED <<ov, file, seen, before, runs>>

\* One call of EM8300_IOCTL_OVERLAY_CALIBRATE: the program keeps the result of a
\* success, and returns from overlay_autocalibrate on a failure.
Calibrate(field, outcomes, next) ==
  /\ In(field)
  /\ \E o \in outcomes :
       /\ em' = o.em
       /\ ov' = IF o.ok THEN [ov EXCEPT ![field] = o.em.a[field]] ELSE ov
       /\ seen' = [seen EXCEPT ![field] = IF o.ok THEN o.seen ELSE @]
       /\ at' = [program |-> "autocal", call |-> IF o.ok THEN next ELSE "write",
                 ended |-> IF o.ok THEN at.ended ELSE "failed"]
  /\ UNCHANGED <<file, before, runs>>

\* The key colours, whose values are not kept here: 64 calls any of which may
\* fail.  After them the overlay is switched off.
CalibrateColors ==
  /\ In("colors")
  /\ \/ em' = SetMode(em, FALSE) /\ at' = [at EXCEPT !.call = "write", !.ended = "done"]
     \/ em' = em /\ at' = [at EXCEPT !.call = "write", !.ended = "failed"]
  /\ UNCHANGED <<ov, file, seen, before, runs>>

\* dxr3view switches the overlay on and sets all attributes, does so again when
\* the user chooses others, and switches the overlay off when it ends.
View ==
  /\ In("view")
  /\ em' = [SetMode(em, TRUE) EXCEPT !.a = ov, !.r6 = ov.stability % 256]
  /\ Goto("dxr3view", "adjust")
  /\ UNCHANGED <<ov, file, seen, before, runs>>

Adjust ==
  /\ In("adjust")
  /\ \E f \in Fields, v \in Spins : ov' = [ov EXCEPT ![f] = v]
  /\ em' = [em EXCEPT !.a = ov', !.r6 = ov'.stability % 256]
  /\ UNCHANGED <<file, at, seen, before, runs>>

Leave ==
  /\ In("adjust")
  /\ em' = SetMode(em, FALSE)
  /\ at' = [at EXCEPT !.call = "write", !.ended = "viewed"]
  /\ UNCHANGED <<ov, file, seen, before, runs>>

\* overlay_write_state, whatever the calibration returned: the directory cannot be
\* made or the file not be opened, which neither program looks at.
OpenFails ==
  /\ In("write")
  /\ End("unsaved")
  /\ UNCHANGED <<em, ov, file, seen, before, runs>>

\* The file is emptied when it is opened.
Truncate ==
  /\ In("write")
  /\ file' = [file EXCEPT !.state = "empty"]
  /\ Goto(at.program, "fill")
  /\ UNCHANGED <<em, ov, seen, before, runs>>

Fill ==
  /\ In("fill")
  /\ file' = [state |-> "whole", ov |-> ov]
  /\ End(at.ended)
  /\ UNCHANGED <<em, ov, seen, before, runs>>

Kill ==
  /\ at.program # "none"
  /\ End("killed")
  /\ UNCHANGED <<em, ov, file, seen, before, runs>>

-------------------------------------------------------------------------------
(* The specification. *)

Init ==
  /\ \E d \in Defaults, double \in BOOLEAN :
       em = [a |-> [xoffset |-> 225, yoffset |-> 43, xcorr |-> d, stability |-> 0],
             r6 |-> 0, enabled |-> FALSE, playmode |-> "STOPPED",
             default |-> d, double_y |-> double]
  /\ ov = NewOverlay /\ before = NewOverlay
  /\ file = [state |-> "none", ov |-> NewOverlay]
  /\ at = [program |-> "none", call |-> "none", ended |-> "none"]
  /\ seen = [f \in Fields |-> 0]
  /\ runs = 0

Next ==
  \/ \E program \in {"autocal", "dxr3view"} : Start(program)
  \/ ReadState \/ Begin
  \/ Calibrate("yoffset", em9010_calibrate_yoffset(em), "xoffset")
  \/ Calibrate("xoffset", em9010_calibrate_xoffset(em), "xcorr")
  \/ Calibrate("xcorr", em9010_calibrate_xcorrection(em), "colors")
  \/ CalibrateColors \/ View \/ Adjust \/ Leave \/ OpenFails \/ Truncate \/ Fill \/ Kill

Spec == Init /\ [][Next]_vars

-------------------------------------------------------------------------------
(* Properties. *)

\* A calibration that has ended keeps what it found: the file and the driver agree
\* on it and the overlay is off, with the chip's stability restored; each value puts
\* the picture where the sensor saw it, to two lines, one pixel and two units of
\* scale, except that doubled lines halve the line once too often.  One that failed
\* has left the overlay on, and the file holds no value of an unfinished search:
\* each is one found or one read before.  A file that lost its contents to a kill
\* counts as never written.  If the file could not be opened, it holds what it held
\* before, and the driver has what the program found or the user chose, unless the
\* calibration failed and left the overlay on.
CalibrationKept ==
  /\ at.program = "none" /\ at.ended = "done" =>
       /\ file.state = "whole"
       /\ \A f \in Fields \ {"stability"} : em.a[f] = file.ov[f]
       /\ ~em.enabled /\ em.r6 = em.a.stability % 256
       /\ LET top == IF em.double_y THEN 2 * Top(em, 0, em.a.yoffset) + 1
                     ELSE Top(em, 0, em.a.yoffset)
          IN  seen.yoffset - top \in -1 .. 2
       /\ em.a.xoffset - seen.xoffset \in 0 .. 1
       /\ em.a.xcorr - seen.xcorr \in {-2, 2}
  /\ at.program = "none" /\ at.ended = "failed" =>
       /\ em.enabled
       /\ file.ov.xcorr = before.xcorr \/ file.ov.xcorr - seen.xcorr \in {-2, 2}
       /\ file.ov.xoffset = before.xoffset \/ file.ov.xoffset - seen.xoffset \in 0 .. 1
       /\ file.ov.stability = before.stability
  /\ at.program = "none" /\ at.ended = "viewed" =>
       ~em.enabled /\ \A f \in Fields : file.state = "whole" /\ em.a[f] = file.ov[f]
  /\ at.program = "none" /\ at.ended = "unsaved" =>
       /\ file.state = "whole" => file.ov = before
       /\ ~em.enabled => \A f \in Fields \ {"stability"} : em.a[f] = ov[f]
===============================================================================
