------------------------------ MODULE Em8300Output ------------------------------
(***************************************************************************)
(* What the card shows: the play mode, the TV mode, overlay mode and the    *)
(* output of the TV encoder, as the control ioctls (em8300_ioctl.c), the    *)
(* open and release of the video device (em8300_main.c) and the file zoom   *)
(* of sysfs (em8300_sysfs.c) change them.                                   *)
(*                                                                          *)
(* The ioctls of a card exclude one another (em->ioctl_lock); an open, a    *)
(* release or a zoom is outside of that lock, and here one of them at a     *)
(* time.  Each handler below is the list of the calls it makes, and the two *)
(* processes interleave between any two calls.  The writes of an encoder    *)
(* update, each of which sleeps for the I2C bus, are calls of their own; a  *)
(* call of the display controller, which has no lock, is made step by step. *)
(* The microcode is loaded before.                                          *)
(***************************************************************************)
EXTENDS Integers, Sequences, FiniteSets

CONSTANTS
  Encoders,     \* "ADV717X", "BT865"
  VideoModes,   \* of "PAL", "PAL60", "NTSC"
  MaxIoctls,    \* bound on the ioctls
  MaxOpens      \* bound on the opens of the video device and the zooms

\* What the constants must satisfy.
OutputAssumption ==
  /\ Encoders \subseteq {"ADV717X", "BT865"}
  /\ "PAL" \in VideoModes /\ VideoModes \subseteq {"PAL", "PAL60", "NTSC"}
  /\ MaxIoctls \in Nat /\ MaxOpens \in Nat

VARIABLES
  board,    \* the encoder, and the module parameter stop_video
  em,       \* the fields of struct em8300_s that say what is wanted
  shown,    \* the registers of the display controller and the clock generator
  data,     \* the encoder driver's mode and enableoutput
  regs,     \* the encoder's registers: the mode and switch they were written for
  todo,     \* the calls each process still has to make
  within,   \* how far each process is in a call of the display controller
  sure,     \* of "tvout" and "size", what was last set by a call that had it
            \* for itself and found the settings it set it from unchanged
  count,    \* ioctls, and opens or zooms made
  by,       \* what sent the last command for the output, "pause" if the play
            \* mode went from STOPPED to PAUSED since
  mixed     \* the last update of the encoder began during another one

vars == <<board, em, shown, data, regs, todo, within, sure, count, by, mixed>>

Procs == {"ioctl", "file"}

\* The registers of an update, in the order in which they are written; an
\* ADV717x has its timing register 0 written three more times as a reset.
Registers == {"MR0", "MR1", "TR0"}
Order == IF board.encoder = "ADV717X"
         THEN <<"MR0", "MR1", "TR0", "TR0", "TR0", "TR0">>
         ELSE <<"MR0", "MR1", "TR0">>

\* The image of register r that the driver's data d asks for: every register has
\* a value for the mode, and mode register 1 the switch as well.
Image(d, r) == [mode |-> d.mode, on |-> r = "MR1" => d.enableoutput]

Do(c) == [do |-> c]
With(c, a) == [do |-> c, arg |-> a]

\* The output and the size of the picture that the settings ask for: in overlay
\* mode the size follows the window.
Kind == IF em.overlay_enabled THEN "overlay" ELSE "tv"
Wanted == IF em.overlay_enabled THEN "window" ELSE em.video_mode

-------------------------------------------------------------------------------
(* The functions that handlers share, as lists of calls. *)

EnableVideoout(on, sender) ==
  << Do("dicom_disable"),
     [do |-> "ENABLEOUTPUT", arg |-> board.stop_video => on, by |-> sender],
     Do("dicom_enable") >>

em8300_ioctl_enable_videoout(on) == EnableVideoout(on, "switch")

em8300_ioctl_setvideomode(m) ==
  << With("video_mode", m), Do("dicom_disable"), With("SETMODE", m),
     Do("dicom_enable"), Do("dicom_update") >>

\* Variant: playing does not switch the output on.
SetPlaymodeNever(m) ==
  (IF m = "STOPPED" THEN em8300_ioctl_enable_videoout(FALSE) ELSE << >>)
    \o << With("video_setplaymode", m), With("playmode", m) >>

em8300_ioctl_setplaymode(m) ==
  (CASE m = "STOPPED" -> em8300_ioctl_enable_videoout(FALSE)
     [] m = "PLAY" /\ em.playmode = "STOPPED" -> em8300_ioctl_enable_videoout(TRUE)
     [] OTHER -> << >>)
    \o << With("video_setplaymode", m), With("playmode", m) >>

\* Leaving overlay mode compares the TV mode, not the play mode, with STOPPED;
\* both are numbered from zero, and zero is PAL.
OverlayOff ==
  IF ~em.overlay_enabled THEN << >>
  ELSE << With("clockgen", "tv"), With("overlay_enabled", FALSE) >>
       \o em8300_ioctl_setvideomode(em.video_mode)
       \o EnableVideoout(em.video_mode # "PAL", "overlay")

OverlayOn ==
  IF em.overlay_enabled THEN << >>
  ELSE << [do |-> "ENABLEOUTPUT", arg |-> FALSE, by |-> "switch"],
          With("clockgen", "overlay"),
          With("overlay_enabled", TRUE), Do("dicom_disable"),
          Do("dicom_enable"), Do("dicom_update") >>

\* A new aspect ratio, or a new window outside overlay mode.
Refresh == << Do("dicom_update") >>

-------------------------------------------------------------------------------
(* The handlers. *)

Idle(p) == todo[p] = << >>

\* The control ioctls, one at a time.
Ioctl(calls) ==
  /\ Idle("ioctl") /\ count.ioctls < MaxIoctls
  /\ calls # << >>
  /\ todo' = [todo EXCEPT !["ioctl"] = calls]
  /\ count' = [count EXCEPT !.ioctls = @ + 1]
  /\ UNCHANGED <<board, em, shown, data, regs, within, sure, by, mixed>>

\* em8300_io_open and em8300_io_release of the video device.  Whether overlay
\* mode is on is looked at after the video part is done.
Open ==
  /\ Idle("file") /\ ~em.inuse /\ count.opens < MaxOpens
  /\ todo' = [todo EXCEPT !["file"] =
                << With("unless_overlay", TRUE), With("video_setplaymode", "PLAY"),
                   With("inuse", TRUE) >>]
  /\ count' = [count EXCEPT !.opens = @ + 1]
  /\ UNCHANGED <<board, em, shown, data, regs, within, sure, by, mixed>>

Release ==
  /\ Idle("file") /\ em.inuse
  /\ todo' = [todo EXCEPT !["file"] =
                << With("video_setplaymode", "STOPPED"),
                   With("unless_overlay", FALSE), With("inuse", FALSE) >>]
  /\ UNCHANGED <<board, em, shown, data, regs, within, sure, count, by, mixed>>

\* store_zoom, which asks no lock.
Zoom ==
  /\ Idle("file") /\ count.opens < MaxOpens
  /\ todo' = [todo EXCEPT !["file"] = << Do("dicom_update") >>]
  /\ count' = [count EXCEPT !.opens = @ + 1]
  /\ UNCHANGED <<board, em, shown, data, regs, within, sure, by, mixed>>

-------------------------------------------------------------------------------
(* The calls. *)

\* Process p makes its next call, which is c, and goes on with the calls more.
Make(p, c, more) ==
  /\ ~Idle(p)
  /\ Head(todo[p]).do = c
  /\ todo' = [todo EXCEPT ![p] = more \o Tail(@)]
  /\ UNCHANGED <<board, count>>

Arg(p) == Head(todo[p]).arg

\* A process outside of the calls of the display controller, and inside one: the
\* step that comes next, and the value it is made with.
At(step, v) == [at |-> step, arg |-> v]
Outside == At("outside", "none")
Inside(p) == within[p].at # "outside"

\* Which registers of the controller a call writes, and which of them it sets from
\* the settings; and which settings they are set from.
Writes(c) == IF c = "dicom_update" THEN {"tvout", "size"} ELSE {"tvout"}
Sets(c) == IF c = "dicom_update" THEN {"size"}
           ELSE IF c = "dicom_enable" THEN {"tvout"} ELSE {}
From(field) == IF field = "overlay_enabled" THEN {"tvout", "size"}
               ELSE IF field = "video_mode" THEN {"size"} ELSE {}

\* What process p cannot have for itself, and what another has looked up by now.
Contested(p) == {x \in {"tvout", "size"} :
                   \E q \in Procs \ {p} : Inside(q) /\ x \in Writes(Head(todo[q]).do)}
LookedUp(p) == {x \in {"tvout", "size"} :
                  \E q \in Procs \ {p} : Inside(q) /\ x \in Sets(Head(todo[q]).do)}

\* An assignment to a field of struct em8300_s; em8300_video_setplaymode is one
\* to video_playmode.
Assign(p, field) ==
  /\ Make(p, field, << >>)
  /\ em' = [em EXCEPT ![IF field = "video_setplaymode" THEN "video_playmode"
                        ELSE field] = Arg(p)]
  /\ by' = IF field = "playmode" /\ Arg(p) = "PAUSED" /\ em.playmode = "STOPPED"
           THEN "pause" ELSE by
  /\ sure' = sure \ (From(field) \cap LookedUp(p))
  /\ UNCHANGED <<shown, data, regs, within, mixed>>

Clockgen(p) ==
  /\ Make(p, "clockgen", << >>)
  /\ shown' = [shown EXCEPT !.clock = Arg(p)]
  /\ UNCHANGED <<em, data, regs, within, sure, by, mixed>>

\* A call c of the display controller begins, and goes on with the step s.
Enter(p, c, s) ==
  /\ ~Idle(p) /\ ~Inside(p)
  /\ Head(todo[p]).do = c
  /\ within' = [within EXCEPT ![p] = s]
  /\ sure' = (sure \ (Writes(c) \cap Contested(p))) \cup (Sets(c) \ Contested(p))
  /\ UNCHANGED <<board, shown, data, regs, todo, count, by, mixed>>

DicomDisable(p) ==
  /\ Enter(p, "dicom_disable", At("TvOut", "off"))
  /\ em' = [em EXCEPT !.dicom_tvout = "off"]

\* Variant: overlay mode is not looked at.
DicomEnableTv(p) == Enter(p, "dicom_enable", At("store", "tv")) /\ UNCHANGED em

DicomEnable(p) == Enter(p, "dicom_enable", At("store", Kind)) /\ UNCHANGED em

\* The size is looked up when the controller is ready for an update, and not at
\* all if it is not ready in time; nobody asks for the result.
DicomUpdate(p) == Enter(p, "dicom_update", At("frame", Wanted)) /\ UNCHANGED em

DicomTimeout(p) ==
  /\ ~Inside(p)
  /\ Make(p, "dicom_update", << >>)
  /\ sure' = sure \ {"size"}
  /\ UNCHANGED <<em, shown, data, regs, within, by, mixed>>

\* A step of a call, at a, and the step s after it.
Step(p, a, s) ==
  /\ within[p].at = a
  /\ within' = [within EXCEPT ![p] = s]
  /\ UNCHANGED <<board, data, regs, todo, sure, count, by, mixed>>

\* An update writes the edges of the frame, then those of what is visible of it.
Frame(p) ==
  /\ Step(p, "frame", At("visible", within[p].arg))
  /\ shown' = [shown EXCEPT !.frame = within[p].arg]
  /\ UNCHANGED em

Visible(p) ==
  /\ Step(p, "visible", At("load", "none"))
  /\ shown' = [shown EXCEPT !.visible = within[p].arg]
  /\ UNCHANGED em

\* The bit for the aspect ratio is put into em->dicom_tvout, which is read and
\* written back; an enable wrote it just before, and may or may not read it again.
Load(p) ==
  /\ \E x \in {within[p].arg, em.dicom_tvout} \ {"none"} :
       Step(p, "load", At("back", x))
  /\ UNCHANGED <<em, shown>>

Store(p) ==
  /\ \/ Step(p, "store", At("load", within[p].arg))
     \/ Step(p, "back", At("TvOut", within[p].arg))
  /\ em' = [em EXCEPT !.dicom_tvout = within[p].arg]
  /\ UNCHANGED shown

\* em->dicom_tvout goes to the register, read again or not, and the call is over.
TvOut(p) ==
  /\ within[p].at = "TvOut"
  /\ Make(p, Head(todo[p]).do, << >>)
  /\ within' = [within EXCEPT ![p] = Outside]
  /\ \E x \in {within[p].arg, em.dicom_tvout} : shown' = [shown EXCEPT !.tvout = x]
  /\ UNCHANGED <<em, data, regs, sure, by, mixed>>

UnlessOverlay(p) ==
  /\ ~Idle(p)
  /\ Make(p, "unless_overlay",
          IF em.overlay_enabled THEN << >>
          ELSE em8300_ioctl_enable_videoout(Arg(p)))
  /\ UNCHANGED <<em, shown, data, regs, within, sure, by, mixed>>

\* The commands of an encoder.  The driver of a BT865 copies the whole table and
\* writes the copy; that of an ADV717x looks each register up as it comes to it.
\* A mode that the BT865 does not have is ignored.
Accepts(m) == board.encoder = "BT865" => m # "PAL60"

\* Variant: an ADV717x's table, too, is copied before it is written.
UpdatesCopied(d) ==
  [i \in 1 .. Len(Order) |->
     [do |-> "write", reg |-> Order[i], val |-> Image(d, Order[i])]]

Updates(d) ==
  IF board.encoder = "BT865"
  THEN [i \in 1 .. Len(Order) |->
          [do |-> "write", reg |-> Order[i], val |-> Image(d, Order[i])]]
  ELSE [i \in 1 .. Len(Order) |-> [do |-> "fetch", reg |-> Order[i]]]

Updating(p) == ~Idle(p) /\ Head(todo[p]).do \in {"fetch", "write"}

Command(p) ==
  /\ ~Idle(p)
  /\ LET c == Head(todo[p]).do
         d == IF c = "ENABLEOUTPUT" THEN [data EXCEPT !.enableoutput = Arg(p)]
              ELSE IF Accepts(Arg(p)) THEN [data EXCEPT !.mode = Arg(p)] ELSE data
     IN  /\ c \in {"ENABLEOUTPUT", "SETMODE"}
         /\ Make(p, c, Updates(d))
         /\ data' = d
         /\ by' = IF c = "ENABLEOUTPUT" THEN Head(todo[p]).by ELSE by
         /\ mixed' = \E q \in Procs \ {p} : Updating(q)
  /\ UNCHANGED <<em, shown, regs, within, sure>>

Fetch(p) ==
  /\ ~Idle(p)
  /\ Make(p, "fetch", << [do |-> "write", reg |-> Head(todo[p]).reg,
                          val |-> Image(data, Head(todo[p]).reg)] >>)
  /\ UNCHANGED <<em, shown, data, regs, within, sure, by, mixed>>

Write(p) ==
  /\ Make(p, "write", << >>)
  /\ regs' = [regs EXCEPT ![Head(todo[p]).reg] = Head(todo[p]).val]
  /\ UNCHANGED <<em, shown, data, within, sure, by, mixed>>

-------------------------------------------------------------------------------
(* The specification. *)

\* After the microcode is loaded: em8300_video_setup has set the default TV mode
\* and stopped the video part, and em8300_require_ucode ends by switching the
\* output off.
Init ==
  /\ board \in [encoder : Encoders, stop_video : BOOLEAN]
  /\ em = [playmode |-> "STOPPED", video_playmode |-> "STOPPED",
           video_mode |-> "PAL", overlay_enabled |-> FALSE, inuse |-> FALSE,
           dicom_tvout |-> "tv"]
  /\ shown = [tvout |-> "tv", clock |-> "tv", frame |-> "PAL", visible |-> "PAL"]
  /\ data = [mode |-> "PAL", enableoutput |-> ~board.stop_video]
  /\ regs = [r \in Registers |-> Image(data, r)]
  /\ todo = [p \in Procs |-> << >>]
  /\ within = [p \in Procs |-> Outside]
  /\ sure = {"tvout", "size"}
  /\ count = [ioctls |-> 0, opens |-> 0]
  /\ by = "switch" /\ mixed = FALSE

Call(p) ==
  \/ \E f \in {"playmode", "video_setplaymode", "video_mode", "overlay_enabled",
              "inuse"} : Assign(p, f)
  \/ Clockgen(p) \/ DicomDisable(p) \/ DicomEnable(p) \/ DicomUpdate(p)
  \/ DicomTimeout(p) \/ Frame(p) \/ Visible(p) \/ Load(p) \/ Store(p) \/ TvOut(p)
  \/ UnlessOverlay(p) \/ Command(p) \/ Fetch(p) \/ Write(p)

Next ==
  \/ \E m \in {"PLAY", "PAUSED", "STOPPED"} : Ioctl(em8300_ioctl_setplaymode(m))
  \/ \E m \in VideoModes : Ioctl(em8300_ioctl_setvideomode(m))
  \/ Ioctl(OverlayOff)
  \/ Ioctl(OverlayOn)
  \/ Ioctl(Refresh)
  \/ Open
  \/ Release
  \/ Zoom
  \/ \E p \in Procs : Call(p)

Spec == Init /\ [][Next]_vars

-------------------------------------------------------------------------------
(* Properties. *)

Quiet == \A p \in Procs : Idle(p)

\* However the handlers interleave, when all have returned the clock generator and
\* the encoder agree with overlay mode and the TV mode; a BT865 told PAL60 keeps its
\* mode.  So do the output and the size of the display controller, unless its calls
\* ran into one another, the settings changed under one, or it did not answer in
\* time; a later call that has them for itself sets them right again.
OutputAgrees ==
  Quiet =>
    /\ shown.clock = Kind
    /\ Accepts(em.video_mode) => data.mode = em.video_mode
    /\ "tvout" \in sure => shown.tvout = Kind
    /\ "size" \in sure => shown.frame = Wanted /\ shown.visible = Wanted

\* A video device that plays, with the play mode PLAY and outside overlay mode,
\* has its picture switched on, with two exceptions: leaving overlay mode in PAL
\* switched it off, or the card was paused when stopped, so that PLAY found a
\* play mode other than STOPPED; and nothing has switched it since.
PlayingShows ==
  Quiet /\ em.inuse /\ em.playmode = "PLAY" /\ ~em.overlay_enabled =>
    data.enableoutput \/ by \in {"overlay", "pause"}

\* What two overlapping updates can leave wrong in the encoder: nothing if none
\* overlapped, and at most one register of an ADV717x, whose update looks up each
\* value when it writes it.  (A BT865 may be left with a whole table that is out
\* of date.)
StaleBounded ==
  Quiet =>
    LET stale == {r \in Registers : regs[r] # Image(data, r)}
    IN  /\ ~mixed => stale = {}
        /\ board.encoder = "ADV717X" => Cardinality(stale) <= 1
===============================================================================
