--------------------------- MODULE Em8300ControlProofs ---------------------------
(***************************************************************************)
(* Proofs about the control of a card: what it shows (Em8300Output), its   *)
(* overlay (Em8300Overlay), the calibration of it (Em8300Calibrate), its TV*)
(* encoder (Em8300Encoder) and the numbers in its registers (Em8300Arith), *)
(* for all encoders, TV modes, ioctls and opens, all windows, screens,     *)
(* counts and attributes, all that the sensor may see, all adjustments, and*)
(* all times, settings, rates and rings.                                   *)
(*                                                                         *)
(* A handler of Em8300Output is a list of calls, and two of them take turns*)
(* call by call.  What the output will be when both are done can be read   *)
(* off the calls that are left: OutputInv says what every such list has in *)
(* order (a call that leaves something open is followed by one that mends  *)
(* it), and that whatever differs from what is wanted has a call left that *)
(* sets it.  A call of the display controller goes step by step: Placed    *)
(* says which steps it has, and Following what a call that nothing disturbs*)
(* has written by each of them (TvSure, SizeSure).  OverlayInv says what   *)
(* the chip and the display controller hold.                               *)
(* CalibrateInv says at each call of a calibration what has been found and *)
(* where it is: in the driver, in the program, and at last in the file.    *)
(* PictureOK bounds the settings that the overlay is placed by.            *)
(* EncoderInv says which bits of the tables of an encoder are not those of *)
(* the source, and that what the chip shows is one of these tables.        *)
(* ArithInv says how far the clock of the card may have run since its halves*)
(* were read or written.                                                   *)
(***************************************************************************)
EXTENDS MCControl, Em8300Lemmas, SequenceTheorems, FiniteSetTheorems, TLAPS

-------------------------------------------------------------------------------
(* Lists of calls, as Em8300Output makes its handlers of them. *)

\* Calls in C come before all others; calls in C come last.
First(l, C) ==
  \A i \in 1 .. Len(l), j \in 1 .. Len(l) : i < j /\ l[j] \in C => l[i] \in C
Last(l, C) == \A i \in 1 .. Len(l) : l[i] \in C => i = Len(l)

\* Calls that come before all others: only they do, once one of the others is first.
LEMMA FirstLeft ==
  ASSUME NEW S, NEW l \in Seq(S), l # << >>, NEW C, First(l, C)
  PROVE  /\ First(Tail(l), C)
         /\ Head(l) \notin C => Calls(Tail(l)) \cap C = {}
<1> DEFINE t == Tail(l)
           n == Len(l)
<1>1. /\ Head(l) = l[1] /\ Len(t) = n - 1 /\ n \in Nat /\ n > 0
      /\ \A i \in 1 .. n - 1 : t[i] = l[i + 1]
  BY ListLeft
<1>2. \A i \in 1 .. n, j \in 1 .. n : i < j /\ l[j] \in C => l[i] \in C
  BY DEF First
<1> HIDE DEF t, n
<1>3. ASSUME NEW i \in 1 .. n - 1, NEW j \in 1 .. n - 1, i < j, t[j] \in C PROVE t[i] \in C
  <2>1. i + 1 \in 1 .. n /\ j + 1 \in 1 .. n /\ i + 1 < j + 1
    BY <1>1, <1>3
  <2>2. QED BY <1>1, <1>2, <1>3, <2>1
<1>4. ASSUME NEW j \in 1 .. n - 1, t[j] \in C PROVE l[1] \in C
  <2>1. 1 \in 1 .. n /\ j + 1 \in 1 .. n /\ 1 < j + 1
    BY <1>1
  <2>2. QED BY <1>1, <1>2, <1>4, <2>1
<1>5. QED BY <1>1, <1>3, <1>4 DEF First, Calls, t

\* A list of nothing but such calls may be put before any.
LEMMA FirstJoined ==
  ASSUME NEW S, NEW a \in Seq(S), NEW b \in Seq(S), NEW C, First(b, C),
         Calls(a) \subseteq C \/ (Calls(a) \cap C = {} /\ Calls(b) \cap C = {})
  PROVE  First(a \o b, C)
<1> DEFINE l == a \o b
           m == Len(a)
           n == Len(b)
<1>1. /\ Len(l) = m + n /\ m \in Nat /\ n \in Nat
      /\ \A i \in 1 .. m + n : l[i] = IF i <= m THEN a[i] ELSE b[i - m]
  BY ConcatProperties, LenProperties
<1>2. Calls(l) = Calls(a) \cup Calls(b)
  BY CallsJoined
<1>3. CASE Calls(a) \subseteq C
  <2>1. \A i \in 1 .. n, j \in 1 .. n : i < j /\ b[j] \in C => b[i] \in C
    BY DEF First
  <2>2. \A i \in 1 .. m : a[i] \in C
    BY <1>3 DEF Calls
  <2> HIDE DEF l, m, n
  <2>3. ASSUME NEW i \in 1 .. m + n, NEW j \in 1 .. m + n, i < j, l[j] \in C PROVE l[i] \in C
    <3>1. CASE i <= m
      BY <1>1, <2>2, <3>1
    <3>2. CASE i > m
      <4>1. i - m \in 1 .. n /\ j - m \in 1 .. n /\ i - m < j - m /\ ~(i <= m) /\ ~(j <= m)
        BY <1>1, <2>3, <3>2
      <4>2. l[i] = b[i - m] /\ l[j] = b[j - m]
        BY <1>1, <4>1
      <4>3. QED BY <2>1, <2>3, <4>1, <4>2
    <3>3. QED BY <1>1, <3>1, <3>2
  <2>4. QED BY <1>1, <2>3 DEF First, l
<1>4. CASE Calls(a) \cap C = {} /\ Calls(b) \cap C = {}
  <2>1. \A j \in 1 .. Len(l) : l[j] \notin C
    BY <1>2, <1>4 DEF Calls
  <2>2. QED BY <2>1 DEF First
<1>5. QED BY <1>3, <1>4

\* A call that comes last leaves no others.
LEMMA LastLeft ==
  ASSUME NEW S, NEW l \in Seq(S), l # << >>, NEW C, Last(l, C)
  PROVE  /\ Last(Tail(l), C)
         /\ Head(l) \in C => Tail(l) = << >>
<1> DEFINE t == Tail(l)
           n == Len(l)
<1>1. /\ Head(l) = l[1] /\ Len(t) = n - 1 /\ n \in Nat /\ n > 0
      /\ \A i \in 1 .. n - 1 : t[i] = l[i + 1]
  BY ListLeft
<1>2. \A i \in 1 .. n : l[i] \in C => i = n
  BY DEF Last
<1>3. t \in Seq(S) /\ (t # << >> => Len(t) # 0)
  BY ListLeft, EmptySeq
<1> HIDE DEF t, n
<1>4. ASSUME NEW i \in 1 .. n - 1, t[i] \in C PROVE i = n - 1
  <2>1. i + 1 \in 1 .. n
    BY <1>1
  <2>2. i + 1 = n
    BY <1>1, <1>2, <1>4, <2>1
  <2>3. QED BY <1>1, <2>2
<1>5. Head(l) \in C => t = << >>
  <2>1. 1 \in 1 .. n
    BY <1>1
  <2>2. Head(l) \in C => n = 1
    BY <1>1, <1>2, <2>1
  <2>3. QED BY <1>1, <1>3, <2>2
<1>6. QED BY <1>1, <1>4, <1>5 DEF Last, t

\* A list without such calls may be put before any.
LEMMA LastJoined ==
  ASSUME NEW S, NEW a \in Seq(S), NEW b \in Seq(S), NEW C, Last(b, C), Calls(a) \cap C = {}
  PROVE  Last(a \o b, C)
<1> DEFINE l == a \o b
           m == Len(a)
           n == Len(b)
<1>1. /\ Len(l) = m + n /\ m \in Nat /\ n \in Nat
      /\ \A i \in 1 .. m + n : l[i] = IF i <= m THEN a[i] ELSE b[i - m]
  BY ConcatProperties, LenProperties
<1>2. \A i \in 1 .. m : a[i] \notin C
  BY DEF Calls
<1>3. \A i \in 1 .. n : b[i] \in C => i = n
  BY DEF Last
<1> HIDE DEF l, m, n
<1>4. ASSUME NEW i \in 1 .. m + n, l[i] \in C PROVE i = m + n
  <2>1. ~(i <= m)
    BY <1>1, <1>2, <1>4
  <2>2. i - m \in 1 .. n
    BY <1>1, <2>1
  <2>3. i - m = n
    BY <1>1, <1>3, <1>4, <2>1, <2>2
  <2>4. QED BY <1>1, <2>3
<1>5. QED BY <1>1, <1>4 DEF Last, l

-------------------------------------------------------------------------------
(* The lists of the handlers. *)

PlayModes == {"PLAY", "PAUSED", "STOPPED"}
Image == [mode : VideoModes, on : BOOLEAN]

\* The calls a handler makes.
Call ==
  [do : {"dicom_disable", "dicom_enable", "dicom_update"}]
    \cup [do : {"unless_overlay", "overlay_enabled", "inuse"}, arg : BOOLEAN]
    \cup [do : {"ENABLEOUTPUT"}, arg : BOOLEAN, by : {"switch", "overlay"}]
    \cup [do : {"video_mode", "SETMODE"}, arg : VideoModes]
    \cup [do : {"clockgen"}, arg : {"tv", "overlay"}]
    \cup [do : {"playmode", "video_setplaymode"}, arg : PlayModes]
    \cup [do : {"fetch"}, reg : Output!Registers]
    \cup [do : {"write"}, reg : Output!Registers, val : Image]

Named(n) == {c \in Call : c.do \in n}

\* Calls that switch the output off, and those after which no picture is due.
Darkens == {c \in Named({"ENABLEOUTPUT"}) : ~c.arg /\ c.by # "overlay"}
             \cup {c \in Named({"unless_overlay"}) : ~c.arg}
Excuses == {c \in Named({"playmode"}) : c.arg = "STOPPED"}
             \cup {c \in Named({"overlay_enabled"}) : c.arg}
             \cup {c \in Named({"inuse"}) : ~c.arg}
LeavesOverlay == {c \in Named({"overlay_enabled"}) : ~c.arg}

\* What is so of every list, from any call on.
ListOK(l) ==
  /\ l \in Seq(Call)
  /\ Followed(l, Named({"dicom_disable", "overlay_enabled"}), Named({"dicom_enable"}))
  /\ Followed(l, Named({"video_mode", "overlay_enabled"}), Named({"dicom_update"}))
  /\ Followed(l, LeavesOverlay, Named({"ENABLEOUTPUT"}))
  /\ Followed(l, Darkens, Excuses)
  /\ First(l, Named({"fetch", "write"}))
  /\ Last(l, Named({"playmode", "inuse"}))

\* A handler that has made all its calls.
LEMMA EmptyOK == ListOK(<< >>) /\ Calls(<< >>) = {}
BY EmptySeq DEF ListOK, Followed, First, Last, Calls

\* em8300_ioctl_enable_videoout and its like: the three calls.
LEMMA Videoout ==
  ASSUME NEW on \in BOOLEAN, NEW sender \in {"switch", "overlay"}, board.stop_video \in BOOLEAN,
         NEW l, l = Output!EnableVideoout(on, sender)
  PROVE  /\ l \in Seq(Call) /\ Len(l) = 3
         /\ l[1] \in Named({"dicom_disable"}) 
         /\ l[2] \in Named({"ENABLEOUTPUT"}) /\ l[2].by = sender /\ (on => l[2].arg)
         /\ l[3] \in Named({"dicom_enable"})
<1> DEFINE a == [do |-> "dicom_disable"]
           b == [do |-> "ENABLEOUTPUT", arg |-> board.stop_video => on, by |-> sender]
           c == [do |-> "dicom_enable"]
<1>1. l = <<a, b, c>>
  BY DEF Output!EnableVideoout, Output!Do
<1>2. a \in Named({"dicom_disable"}) /\ c \in Named({"dicom_enable"})
  BY DEF Named, Call
<1>3. (board.stop_video => on) \in BOOLEAN
  OBVIOUS
<1>4. b \in Named({"ENABLEOUTPUT"}) /\ b.by = sender /\ (on => b.arg)
  BY <1>3 DEF Named, Call
<1>5. a \in Call /\ b \in Call /\ c \in Call
  BY <1>2, <1>4 DEF Named
<1> HIDE DEF a, b, c
<1>6. QED BY <1>1, <1>2, <1>4, <1>5

\* A list of five calls.
LEMMA Five ==
  ASSUME NEW S, NEW a \in S, NEW b \in S, NEW c \in S, NEW d \in S, NEW e \in S,
         NEW l, l = <<a, b, c, d, e>>
  PROVE  /\ l \in Seq(S) /\ Len(l) = 5
         /\ l[1] = a /\ l[2] = b /\ l[3] = c /\ l[4] = d /\ l[5] = e
         /\ Calls(l) = {a, b, c, d, e}
<1>1. /\ l \in Seq(S) /\ Len(l) = 5
      /\ l[1] = a /\ l[2] = b /\ l[3] = c /\ l[4] = d /\ l[5] = e
  OBVIOUS
<1>2. 1 .. 5 = {1, 2, 3, 4, 5}
  OBVIOUS
<1>3. QED BY <1>1, <1>2 DEF Calls

\* A list put before another.
LEMMA Prefixed ==
  ASSUME NEW a \in Seq(Call), NEW b, ListOK(b),
         \/ Followed(a, Named({"dicom_disable", "overlay_enabled"}), Named({"dicom_enable"}))
         \/ Calls(b) \cap Named({"dicom_enable"}) # {},
         \/ Calls(a) \cap Named({"video_mode", "overlay_enabled"}) = {}
         \/ Followed(a, Named({"video_mode", "overlay_enabled"}), Named({"dicom_update"}))
         \/ Calls(b) \cap Named({"dicom_update"}) # {},
         \/ Calls(a) \cap LeavesOverlay = {}
         \/ Calls(b) \cap Named({"ENABLEOUTPUT"}) # {},
         Calls(a) \cap Darkens = {} \/ Calls(b) \cap Excuses # {},
         \/ Calls(a) \subseteq Named({"fetch", "write"})
         \/ (Calls(a) \cup Calls(b)) \cap Named({"fetch", "write"}) = {},
         Calls(a) \cap Named({"playmode", "inuse"}) = {}
  PROVE  /\ ListOK(a \o b)
         /\ Calls(a \o b) = Calls(a) \cup Calls(b)
<1>1. b \in Seq(Call)
  BY DEF ListOK
<1>2. Followed(a \o b, Named({"dicom_disable", "overlay_enabled"}), Named({"dicom_enable"}))
  BY <1>1, FollowedJoined DEF ListOK
<1>3. Followed(a \o b, Named({"video_mode", "overlay_enabled"}), Named({"dicom_update"}))
  BY <1>1, FollowedJoined DEF ListOK
<1>4. Followed(a \o b, LeavesOverlay, Named({"ENABLEOUTPUT"}))
  BY <1>1, FollowedJoined DEF ListOK
<1>5. Followed(a \o b, Darkens, Excuses)
  BY <1>1, FollowedJoined DEF ListOK
<1>6. First(a \o b, Named({"fetch", "write"}))
  <2>1. \/ Calls(a) \subseteq Named({"fetch", "write"})
        \/ /\ Calls(a) \cap Named({"fetch", "write"}) = {}
           /\ Calls(b) \cap Named({"fetch", "write"}) = {}
    OBVIOUS
  <2>2. QED BY <1>1, <2>1, FirstJoined DEF ListOK
<1>7. Last(a \o b, Named({"playmode", "inuse"}))
  BY <1>1, LastJoined DEF ListOK
<1>8. QED BY <1>1, <1>2, <1>3, <1>4, <1>5, <1>6, <1>7, CallsJoined DEF ListOK

\* The rest of a list.
LEMMA Left ==
  ASSUME NEW l, ListOK(l), l # << >>
  PROVE  /\ Head(l) \in Call /\ Tail(l) \in Seq(Call) /\ ListOK(Tail(l))
         /\ Calls(l) = {Head(l)} \cup Calls(Tail(l))
         /\ Head(l) \in Named({"dicom_disable", "overlay_enabled"}) =>
              Calls(Tail(l)) \cap Named({"dicom_enable"}) # {}
         /\ Head(l) \in Named({"video_mode", "overlay_enabled"}) =>
              Calls(Tail(l)) \cap Named({"dicom_update"}) # {}
         /\ Head(l) \in LeavesOverlay => Calls(Tail(l)) \cap Named({"ENABLEOUTPUT"}) # {}
         /\ Head(l) \in Darkens => Calls(Tail(l)) \cap Excuses # {}
         /\ Head(l) \notin Named({"fetch", "write"}) =>
              Calls(Tail(l)) \cap Named({"fetch", "write"}) = {}
         /\ Head(l) \in Named({"playmode", "inuse"}) => Tail(l) = << >>
<1> DEFINE t == Tail(l)
           h == Head(l)
<1>1. l \in Seq(Call)
  BY DEF ListOK
<1>2. h \in Call /\ t \in Seq(Call) /\ Calls(l) = {h} \cup Calls(t)
  BY <1>1, ListLeft, CallsLeft
<1>3. /\ Followed(t, Named({"dicom_disable", "overlay_enabled"}), Named({"dicom_enable"}))
      /\ h \in Named({"dicom_disable", "overlay_enabled"}) =>
           Calls(t) \cap Named({"dicom_enable"}) # {}
  BY <1>1, FollowedLeft DEF ListOK
<1>4. /\ Followed(t, Named({"video_mode", "overlay_enabled"}), Named({"dicom_update"}))
      /\ h \in Named({"video_mode", "overlay_enabled"}) =>
           Calls(t) \cap Named({"dicom_update"}) # {}
  BY <1>1, FollowedLeft DEF ListOK
<1>5. /\ Followed(t, LeavesOverlay, Named({"ENABLEOUTPUT"}))
      /\ h \in LeavesOverlay => Calls(t) \cap Named({"ENABLEOUTPUT"}) # {}
  BY <1>1, FollowedLeft DEF ListOK
<1>6. Followed(t, Darkens, Excuses) /\ (h \in Darkens => Calls(t) \cap Excuses # {})
  BY <1>1, FollowedLeft DEF ListOK
<1>7. /\ First(t, Named({"fetch", "write"}))
      /\ h \notin Named({"fetch", "write"}) => Calls(t) \cap Named({"fetch", "write"}) = {}
  BY <1>1, FirstLeft DEF ListOK
<1>8. /\ Last(t, Named({"playmode", "inuse"}))
      /\ h \in Named({"playmode", "inuse"}) => t = << >>
  BY <1>1, LastLeft DEF ListOK
<1> HIDE DEF t, h
<1>9. QED BY <1>2, <1>3, <1>4, <1>5, <1>6, <1>7, <1>8 DEF ListOK, t, h

\* What the register TvOut is set to, of which the aspect ratio is left out.
Kinds == {"off", "tv", "overlay"}

OutputTypes ==
  /\ board \in [encoder : Encoders, stop_video : BOOLEAN]
  /\ em \in [playmode : PlayModes, video_playmode : PlayModes, video_mode : VideoModes,
             overlay_enabled : BOOLEAN, inuse : BOOLEAN, dicom_tvout : Kinds]
  /\ DOMAIN shown = {"tvout", "clock", "frame", "visible"}
  /\ data \in [mode : VideoModes, enableoutput : BOOLEAN]
  /\ DOMAIN regs = Output!Registers
  /\ DOMAIN todo = Output!Procs
  /\ \A p \in Output!Procs : ListOK(todo[p])

Kind(v) == IF v THEN "overlay" ELSE "tv"

Pend(l, n) == \E c \in Calls(l) : c.do = n

\* The list of an ioctl that sets overlay mode to v and the TV mode to m, or leaves
\* them as they are.
Starts(l, v, m) ==
  /\ ListOK(l)
  /\ \A c \in Calls(l) :
       /\ c.do \notin {"inuse", "unless_overlay", "fetch", "write"}
       /\ c.do = "overlay_enabled" => c.arg = v
       /\ c.do = "clockgen" => c.arg = Kind(v)
       /\ c.do \in {"video_mode", "SETMODE"} => c.arg = m
       /\ c.do = "playmode" /\ c.arg = "PLAY" =>
            em.playmode # "STOPPED" \/ Pend(l, "ENABLEOUTPUT")
  /\ v \in BOOLEAN /\ m \in VideoModes
  /\ v # em.overlay_enabled => Pend(l, "overlay_enabled") /\ Pend(l, "clockgen")
  /\ m # em.video_mode => Pend(l, "video_mode") /\ Pend(l, "SETMODE")

\* The same as a set of calls, with what can be said of any list.
LEMMA VideooutList ==
  ASSUME NEW on \in BOOLEAN, NEW sender \in {"switch", "overlay"}, OutputTypes,
         NEW l, l = Output!EnableVideoout(on, sender)
  PROVE  /\ l \in Seq(Call) /\ l # << >>
         /\ Followed(l, Named({"dicom_disable", "overlay_enabled"}), Named({"dicom_enable"}))
         /\ \A c \in Calls(l) : c.do \in {"dicom_disable", "ENABLEOUTPUT", "dicom_enable"}
         /\ \A c \in Calls(l) : c.do = "ENABLEOUTPUT" => (on => c.arg) /\ c.by = sender
         /\ \E c \in Calls(l) : c \in Named({"ENABLEOUTPUT"})
<1>1. /\ l \in Seq(Call) /\ Len(l) = 3
      /\ l[1] \in Named({"dicom_disable"})
      /\ l[2] \in Named({"ENABLEOUTPUT"}) /\ l[2].by = sender /\ (on => l[2].arg)
      /\ l[3] \in Named({"dicom_enable"})
  BY Videoout DEF OutputTypes
<1>2. 1 .. 3 = {1, 2, 3}
  OBVIOUS
<1>3. Calls(l) = {l[1], l[2], l[3]}
  BY <1>1, <1>2 DEF Calls
<1>4. Followed(l, Named({"dicom_disable", "overlay_enabled"}), Named({"dicom_enable"}))
  <2>1. 3 \in 1 + 1 .. 3 /\ 3 \in 2 + 1 .. 3
    OBVIOUS
  <2>2. l[3] \notin Named({"dicom_disable", "overlay_enabled"})
    BY <1>1 DEF Named
  <2>3. QED BY <1>1, <1>2, <2>1, <2>2 DEF Followed
<1>5. QED BY <1>1, <1>3, <1>4, EmptySeq DEF Named

\* The calls of em8300_ioctl_setvideomode.
LEMMA ModeList ==
  ASSUME OutputTypes, NEW m \in VideoModes,
         NEW l, l = Output!em8300_ioctl_setvideomode(m)
  PROVE  /\ ListOK(l) /\ l # << >>
         /\ \A c \in Calls(l) : c.do \in {"video_mode", "dicom_disable", "SETMODE",
                                          "dicom_enable", "dicom_update"}
         /\ \A c \in Calls(l) : c.do \in {"video_mode", "SETMODE"} => c.arg = m
         /\ Pend(l, "video_mode") /\ Pend(l, "SETMODE")
         /\ Calls(l) \cap Named({"dicom_enable"}) # {}
         /\ Calls(l) \cap Named({"dicom_update"}) # {}
<1> DEFINE a == [do |-> "video_mode", arg |-> m]
           b == [do |-> "dicom_disable"]
           c == [do |-> "SETMODE", arg |-> m]
           d == [do |-> "dicom_enable"]
           e == [do |-> "dicom_update"]
<1>1. l = <<a, b, c, d, e>>
  BY DEF Output!em8300_ioctl_setvideomode, Output!Do, Output!With
<1>2. /\ a \in Call /\ b \in Call /\ c \in Call /\ d \in Call /\ e \in Call
      /\ a.do = "video_mode" /\ b.do = "dicom_disable" /\ c.do = "SETMODE"
      /\ d.do = "dicom_enable" /\ e.do = "dicom_update"
      /\ a.arg = m /\ c.arg = m
  BY DEF Call
<1> HIDE DEF a, b, c, d, e
<1>3. /\ l \in Seq(Call) /\ Len(l) = 5
      /\ l[1] = a /\ l[2] = b /\ l[3] = c /\ l[4] = d /\ l[5] = e
      /\ Calls(l) = {a, b, c, d, e}
  BY <1>1, <1>2, Five
<1>4. 1 .. 5 = {1, 2, 3, 4, 5}
  OBVIOUS
<1>5. Followed(l, Named({"dicom_disable", "overlay_enabled"}), Named({"dicom_enable"}))
  <2>1. 4 \in 2 + 1 .. 5
    OBVIOUS
  <2>2. QED BY <1>2, <1>3, <1>4, <2>1 DEF Followed, Named
<1>6. Followed(l, Named({"video_mode", "overlay_enabled"}), Named({"dicom_update"}))
  <2>1. 5 \in 1 + 1 .. 5
    OBVIOUS
  <2>2. QED BY <1>2, <1>3, <1>4, <2>1 DEF Followed, Named
<1>7. /\ Followed(l, LeavesOverlay, Named({"ENABLEOUTPUT"}))
      /\ Followed(l, Darkens, Excuses)
  BY <1>2, <1>3, <1>4 DEF Followed, LeavesOverlay, Darkens, Named
<1>8. First(l, Named({"fetch", "write"})) /\ Last(l, Named({"playmode", "inuse"}))
  BY <1>2, <1>3, <1>4 DEF First, Last, Named
<1>9. ListOK(l) /\ l # << >>
  BY <1>3, <1>5, <1>6, <1>7, <1>8, EmptySeq DEF ListOK
<1>10. QED BY <1>2, <1>3, <1>9 DEF Pend, Named

\* The calls of em8300_ioctl_setplaymode, without those for the output.
LEMMA PlayList ==
  ASSUME NEW m \in PlayModes,
         NEW l, l = << Output!With("video_setplaymode", m), Output!With("playmode", m) >>
  PROVE  /\ ListOK(l) /\ l # << >>
         /\ \A c \in Calls(l) : c.do \in {"video_setplaymode", "playmode"}
         /\ \A c \in Calls(l) : c.do = "playmode" => c.arg = m
         /\ m = "STOPPED" => Calls(l) \cap Excuses # {}
<1> DEFINE a == [do |-> "video_setplaymode", arg |-> m]
           b == [do |-> "playmode", arg |-> m]
<1>1. l = <<a, b>>
  BY DEF Output!With
<1>2. /\ a \in Call /\ b \in Call /\ a.do = "video_setplaymode" /\ b.do = "playmode"
      /\ b.arg = m
  BY DEF Call
<1> HIDE DEF a, b
<1>3. l \in Seq(Call) /\ Len(l) = 2 /\ l[1] = a /\ l[2] = b /\ Calls(l) = {a, b}
  BY <1>1, <1>2, Two
<1>4. 1 .. 2 = {1, 2}
  OBVIOUS
<1>5. /\ Followed(l, Named({"dicom_disable", "overlay_enabled"}), Named({"dicom_enable"}))
      /\ Followed(l, Named({"video_mode", "overlay_enabled"}), Named({"dicom_update"}))
  BY <1>2, <1>3, <1>4 DEF Followed, Named
<1>6. /\ Followed(l, LeavesOverlay, Named({"ENABLEOUTPUT"}))
      /\ Followed(l, Darkens, Excuses)
  BY <1>2, <1>3, <1>4 DEF Followed, LeavesOverlay, Darkens, Named
<1>7. First(l, Named({"fetch", "write"})) /\ Last(l, Named({"playmode", "inuse"}))
  BY <1>2, <1>3, <1>4 DEF First, Last, Named
<1>8. ListOK(l) /\ l # << >>
  BY <1>3, <1>5, <1>6, <1>7, EmptySeq DEF ListOK
<1>9. m = "STOPPED" => b \in Excuses
  BY <1>2 DEF Excuses, Named
<1>10. QED BY <1>2, <1>3, <1>8, <1>9

\* em8300_ioctl_setplaymode leaves overlay mode and TV mode as they are.
LEMMA PlaymodeStarts ==
  ASSUME OutputTypes, NEW m \in PlayModes,
         NEW l, l = Output!em8300_ioctl_setplaymode(m)
  PROVE  Starts(l, em.overlay_enabled, em.video_mode)
<1> DEFINE b == << Output!With("video_setplaymode", m), Output!With("playmode", m) >>
           off == Output!EnableVideoout(FALSE, "switch")
           on == Output!EnableVideoout(TRUE, "switch")
           Dos == {"dicom_disable", "ENABLEOUTPUT", "dicom_enable", "video_setplaymode",
                   "playmode"}
           Good == /\ ListOK(l)
                   /\ \A c \in Calls(l) : c.do \in Dos /\ (c.do = "playmode" => c.arg = m)
                   /\ m = "PLAY" => em.playmode # "STOPPED" \/ Pend(l, "ENABLEOUTPUT")
<1>1. /\ ListOK(b) /\ b # << >>
      /\ \A c \in Calls(b) : c.do \in {"video_setplaymode", "playmode"}
      /\ \A c \in Calls(b) : c.do = "playmode" => c.arg = m
      /\ m = "STOPPED" => Calls(b) \cap Excuses # {}
  BY PlayList
<1>2. em.overlay_enabled \in BOOLEAN /\ em.video_mode \in VideoModes
  BY DEF OutputTypes
<1>3. ASSUME m = "STOPPED" PROVE Good
  <2>1. l = off \o b
    BY <1>3 DEF Output!em8300_ioctl_setplaymode, Output!em8300_ioctl_enable_videoout
  <2>2. /\ off \in Seq(Call)
        /\ Followed(off, Named({"dicom_disable", "overlay_enabled"}), Named({"dicom_enable"}))
        /\ \A c \in Calls(off) : c.do \in {"dicom_disable", "ENABLEOUTPUT", "dicom_enable"}
    BY VideooutList
  <2> HIDE DEF b, off
  <2>3. Calls(b) \cap Excuses # {}
    BY <1>1, <1>3
  <2>4. ListOK(l) /\ Calls(l) = Calls(off) \cup Calls(b)
    BY ONLY <1>1, <2>1, <2>2, <2>3, Prefixed DEF Named, LeavesOverlay
  <2>5. \A c \in Calls(l) : c.do \in Dos /\ (c.do = "playmode" => c.arg = m)
    BY ONLY <1>1, <2>2, <2>4 DEF Dos
  <2>6. QED BY <1>3, <2>4, <2>5
<1>4. ASSUME m = "PLAY", em.playmode = "STOPPED" PROVE Good
  <2>1. l = on \o b
    BY <1>4 DEF Output!em8300_ioctl_setplaymode, Output!em8300_ioctl_enable_videoout
  <2>2. /\ on \in Seq(Call)
        /\ Followed(on, Named({"dicom_disable", "overlay_enabled"}), Named({"dicom_enable"}))
        /\ \A c \in Calls(on) : c.do \in {"dicom_disable", "ENABLEOUTPUT", "dicom_enable"}
        /\ \A c \in Calls(on) : c.do = "ENABLEOUTPUT" => c.arg
        /\ \E c \in Calls(on) : c \in Named({"ENABLEOUTPUT"})
    BY VideooutList
  <2> HIDE DEF b, on
  <2>3. Calls(on) \cap Darkens = {}
    BY <2>2 DEF Darkens, Named
  <2>4. ListOK(l) /\ Calls(l) = Calls(on) \cup Calls(b)
    BY ONLY <1>1, <2>1, <2>2, <2>3, Prefixed DEF Named, LeavesOverlay
  <2>5. Pend(l, "ENABLEOUTPUT")
    BY <2>2, <2>4 DEF Pend, Named
  <2>6. \A c \in Calls(l) : c.do \in Dos /\ (c.do = "playmode" => c.arg = m)
    BY ONLY <1>1, <2>2, <2>4 DEF Dos
  <2>7. QED BY <2>4, <2>5, <2>6 DEF Dos
<1>5. ASSUME m # "STOPPED", ~(m = "PLAY" /\ em.playmode = "STOPPED") PROVE Good
  <2>1. l = << >> \o b
    BY <1>5 DEF Output!em8300_ioctl_setplaymode
  <2>2. b \in Seq(Call)
    BY <1>1 DEF ListOK
  <2> HIDE DEF b
  <2>3. l = b
    BY <2>1, <2>2, ConcatEmptySeq
  <2>4. QED BY <1>1, <1>5, <2>3 DEF Dos
<1>6. Good
  BY <1>3, <1>4, <1>5
<1>7. ASSUME NEW c \in Calls(l)
      PROVE  /\ c.do \notin {"inuse", "unless_overlay", "fetch", "write", "overlay_enabled",
                              "clockgen", "video_mode", "SETMODE"}
             /\ c.do = "playmode" /\ c.arg = "PLAY" =>
                  em.playmode # "STOPPED" \/ Pend(l, "ENABLEOUTPUT")
  <2>1. /\ c.do \in Dos /\ (c.do = "playmode" => c.arg = m)
        /\ m = "PLAY" => em.playmode # "STOPPED" \/ Pend(l, "ENABLEOUTPUT")
    BY <1>6
  <2>2. QED BY ONLY <2>1 DEF Dos
<1>8. ListOK(l)
  BY <1>6
<1>9. QED BY ONLY <1>2, <1>7, <1>8 DEF Starts

\* em8300_ioctl_setvideomode leaves overlay mode as it is.
LEMMA SetModeStarts ==
  ASSUME OutputTypes, NEW m \in VideoModes,
         NEW l, l = Output!em8300_ioctl_setvideomode(m)
  PROVE  Starts(l, em.overlay_enabled, m)
<1>1. /\ ListOK(l)
      /\ \A c \in Calls(l) : c.do \in {"video_mode", "dicom_disable", "SETMODE",
                                       "dicom_enable", "dicom_update"}
      /\ \A c \in Calls(l) : c.do \in {"video_mode", "SETMODE"} => c.arg = m
      /\ Pend(l, "video_mode") /\ Pend(l, "SETMODE")
  BY ModeList
<1>2. em.overlay_enabled \in BOOLEAN
  BY DEF OutputTypes
<1>3. ASSUME NEW c \in Calls(l)
      PROVE  /\ c.do \notin {"inuse", "unless_overlay", "fetch", "write", "overlay_enabled",
                              "clockgen", "playmode"}
             /\ c.do \in {"video_mode", "SETMODE"} => c.arg = m
  BY ONLY <1>1, c \in Calls(l)
<1>4. QED BY ONLY <1>1, <1>2, <1>3, m \in VideoModes DEF Starts

\* A list that switches the output for overlay mode.
LEMMA VideooutOK ==
  ASSUME NEW on \in BOOLEAN, OutputTypes,
         NEW l, l = Output!EnableVideoout(on, "overlay")
  PROVE  ListOK(l)
<1>1. /\ l \in Seq(Call)
      /\ Followed(l, Named({"dicom_disable", "overlay_enabled"}), Named({"dicom_enable"}))
      /\ \A c \in Calls(l) : c.do \in {"dicom_disable", "ENABLEOUTPUT", "dicom_enable"}
      /\ \A c \in Calls(l) : c.do = "ENABLEOUTPUT" => c.by = "overlay"
  BY VideooutList
<1>2. Calls(l) \cap Darkens = {}
  BY <1>1 DEF Darkens, Named
<1>3. ListOK(l \o << >>)
  BY ONLY <1>1, <1>2, EmptyOK, Prefixed DEF Named, LeavesOverlay
<1>4. l \o << >> = l
  BY <1>1, ConcatEmptySeq
<1>5. QED BY <1>3, <1>4

\* Overlay mode is turned off, the TV mode set anew and the output switched.
LEMMA OverlayOffStarts ==
  ASSUME OutputTypes, em.overlay_enabled, NEW l, l = Output!OverlayOff
  PROVE  Starts(l, FALSE, em.video_mode)
<1> DEFINE a == [do |-> "clockgen", arg |-> "tv"]
           b == [do |-> "overlay_enabled", arg |-> FALSE]
           h == <<a, b>>
           ml == Output!em8300_ioctl_setvideomode(em.video_mode)
           on == em.video_mode # "PAL"
           vl == Output!EnableVideoout(on, "overlay")
<1>1. em.video_mode \in VideoModes /\ on \in BOOLEAN
  BY DEF OutputTypes
<1>2. /\ ListOK(ml)
      /\ \A c \in Calls(ml) : c.do \in {"video_mode", "dicom_disable", "SETMODE",
                                        "dicom_enable", "dicom_update"}
      /\ \A c \in Calls(ml) : c.do \in {"video_mode", "SETMODE"} => c.arg = em.video_mode
      /\ Pend(ml, "video_mode") /\ Pend(ml, "SETMODE")
      /\ Calls(ml) \cap Named({"dicom_enable"}) # {}
      /\ Calls(ml) \cap Named({"dicom_update"}) # {}
  BY <1>1, ModeList
<1>3. /\ ListOK(vl)
      /\ \A c \in Calls(vl) : c.do \in {"dicom_disable", "ENABLEOUTPUT", "dicom_enable"}
      /\ Calls(vl) \cap Named({"ENABLEOUTPUT"}) # {}
  BY <1>1, VideooutOK, VideooutList
<1>4. l = (h \o ml) \o vl
  BY DEF Output!OverlayOff, Output!With
<1>5. /\ a \in Call /\ b \in Call /\ a.do = "clockgen" /\ b.do = "overlay_enabled"
      /\ a.arg = "tv" /\ b.arg = FALSE
  BY DEF Call
<1>6. h \in Seq(Call) /\ Calls(h) = {a, b}
  <2>1. h = <<a, b>> /\ a \in Call /\ b \in Call
    BY <1>5
  <2> HIDE DEF a, b, h
  <2>2. QED BY ONLY <2>1, Two
<1> HIDE DEF a, b, h, ml, on, vl
<1>7. ml \in Seq(Call) /\ vl \in Seq(Call)
  BY <1>2, <1>3 DEF ListOK
<1>8. l = h \o (ml \o vl)
  BY <1>4, <1>6, <1>7, ConcatAssociative
<1>9. ListOK(ml \o vl) /\ Calls(ml \o vl) = Calls(ml) \cup Calls(vl)
  <2>1. /\ Followed(ml, Named({"dicom_disable", "overlay_enabled"}), Named({"dicom_enable"}))
        /\ Followed(ml, Named({"video_mode", "overlay_enabled"}), Named({"dicom_update"}))
    BY <1>2 DEF ListOK
  <2>2. /\ Calls(ml) \cap LeavesOverlay = {} /\ Calls(ml) \cap Darkens = {}
        /\ (Calls(ml) \cup Calls(vl)) \cap Named({"fetch", "write"}) = {}
        /\ Calls(ml) \cap Named({"playmode", "inuse"}) = {}
    BY <1>2, <1>3 DEF Named, LeavesOverlay, Darkens
  <2>3. QED BY ONLY <1>3, <1>7, <2>1, <2>2, Prefixed
<1>10. ListOK(l) /\ Calls(l) = Calls(h) \cup Calls(ml) \cup Calls(vl)
  <2>1. /\ Calls(ml \o vl) \cap Named({"dicom_enable"}) # {}
        /\ Calls(ml \o vl) \cap Named({"dicom_update"}) # {}
        /\ Calls(ml \o vl) \cap Named({"ENABLEOUTPUT"}) # {}
    BY <1>2, <1>3, <1>9
  <2>2. /\ Calls(h) \cap Darkens = {}
        /\ (Calls(h) \cup Calls(ml \o vl)) \cap Named({"fetch", "write"}) = {}
        /\ Calls(h) \cap Named({"playmode", "inuse"}) = {}
    BY <1>2, <1>3, <1>5, <1>6, <1>9 DEF Named, Darkens
  <2>3. ListOK(h \o (ml \o vl)) /\ Calls(h \o (ml \o vl)) = Calls(h) \cup Calls(ml \o vl)
    BY ONLY <1>6, <1>9, <2>1, <2>2, Prefixed
  <2>4. QED BY <1>8, <1>9, <2>3
<1>11. ASSUME NEW c \in Calls(l)
       PROVE  /\ c.do \notin {"inuse", "unless_overlay", "fetch", "write", "playmode"}
              /\ c.do = "overlay_enabled" => c.arg = FALSE
              /\ c.do = "clockgen" => c.arg = Kind(FALSE)
              /\ c.do \in {"video_mode", "SETMODE"} => c.arg = em.video_mode
  <2>1. CASE c \in Calls(h)
    BY <1>5, <1>6, <2>1 DEF Kind
  <2>2. CASE c \in Calls(ml)
    BY ONLY <1>2, <2>2
  <2>3. CASE c \in Calls(vl)
    BY ONLY <1>3, <2>3
  <2>4. QED BY <1>10, <2>1, <2>2, <2>3
<1>12. Pend(l, "overlay_enabled") /\ Pend(l, "clockgen")
  BY <1>5, <1>6, <1>10 DEF Pend
<1>13. QED BY ONLY <1>1, <1>10, <1>11, <1>12 DEF Starts

\* The output is switched off and overlay mode turned on.
LEMMA OverlayOnStarts ==
  ASSUME OutputTypes, ~em.overlay_enabled, NEW l, l = Output!OverlayOn
  PROVE  Starts(l, TRUE, em.video_mode)
<1> DEFINE a == [do |-> "ENABLEOUTPUT", arg |-> FALSE, by |-> "switch"]
           b == [do |-> "clockgen", arg |-> "overlay"]
           c == [do |-> "overlay_enabled", arg |-> TRUE]
           d == [do |-> "dicom_disable"]
           e == [do |-> "dicom_enable"]
           f == [do |-> "dicom_update"]
<1>1. l = <<a, b, c, d, e, f>>
  BY DEF Output!OverlayOn, Output!Do, Output!With
<1>2. /\ a \in Call /\ b \in Call /\ c \in Call /\ d \in Call /\ e \in Call /\ f \in Call
      /\ a.do = "ENABLEOUTPUT" /\ b.do = "clockgen" /\ c.do = "overlay_enabled"
      /\ d.do = "dicom_disable" /\ e.do = "dicom_enable" /\ f.do = "dicom_update"
      /\ b.arg = "overlay" /\ c.arg = TRUE
  BY DEF Call
<1> HIDE DEF a, b, c, d, e, f
<1>3. /\ l \in Seq(Call) /\ Len(l) = 6
      /\ l[1] = a /\ l[2] = b /\ l[3] = c /\ l[4] = d /\ l[5] = e /\ l[6] = f
      /\ Calls(l) = {a, b, c, d, e, f}
  <2>1. a \in Call /\ b \in Call /\ c \in Call /\ d \in Call /\ e \in Call /\ f \in Call
    BY <1>2
  <2>2. /\ l \in Seq(Call) /\ Len(l) = 6
        /\ l[1] = a /\ l[2] = b /\ l[3] = c /\ l[4] = d /\ l[5] = e /\ l[6] = f
    BY ONLY <1>1, <2>1
  <2>3. 1 .. 6 = {1, 2, 3, 4, 5, 6}
    OBVIOUS
  <2>4. QED BY <2>2, <2>3 DEF Calls
<1>4. 1 .. 6 = {1, 2, 3, 4, 5, 6}
  OBVIOUS
<1>5. Followed(l, Named({"dicom_disable", "overlay_enabled"}), Named({"dicom_enable"}))
  <2>1. 5 \in 3 + 1 .. 6 /\ 5 \in 4 + 1 .. 6
    OBVIOUS
  <2>2. QED BY <1>2, <1>3, <1>4, <2>1 DEF Followed, Named
<1>6. Followed(l, Named({"video_mode", "overlay_enabled"}), Named({"dicom_update"}))
  <2>1. 6 \in 3 + 1 .. 6
    OBVIOUS
  <2>2. QED BY <1>2, <1>3, <1>4, <2>1 DEF Followed, Named
<1>7. Followed(l, LeavesOverlay, Named({"ENABLEOUTPUT"}))
  BY <1>2, <1>3, <1>4 DEF Followed, LeavesOverlay, Named
<1>8. Followed(l, Darkens, Excuses)
  <2>1. 3 \in 1 + 1 .. 6
    OBVIOUS
  <2>2. c \in Excuses
    BY <1>2 DEF Excuses, Named
  <2>3. QED BY <1>2, <1>3, <1>4, <2>1, <2>2 DEF Followed, Darkens, Named
<1>9. First(l, Named({"fetch", "write"})) /\ Last(l, Named({"playmode", "inuse"}))
  BY <1>2, <1>3, <1>4 DEF First, Last, Named
<1>10. ListOK(l)
  BY <1>3, <1>5, <1>6, <1>7, <1>8, <1>9 DEF ListOK
<1>11. ASSUME NEW x \in Calls(l)
       PROVE  /\ x.do \notin {"inuse", "unless_overlay", "fetch", "write", "playmode",
                              "video_mode", "SETMODE"}
              /\ x.do = "overlay_enabled" => x.arg = TRUE
              /\ x.do = "clockgen" => x.arg = Kind(TRUE)
  BY <1>2, <1>3 DEF Kind
<1>12. Pend(l, "overlay_enabled") /\ Pend(l, "clockgen") /\ em.video_mode \in VideoModes
  BY <1>2, <1>3 DEF Pend, OutputTypes
<1>13. QED BY ONLY <1>10, <1>11, <1>12 DEF Starts

\* An update of the display controller.
LEMMA RefreshList ==
  ASSUME NEW l, l = << Output!Do("dicom_update") >>
  PROVE  ListOK(l) /\ \A c \in Calls(l) : c.do = "dicom_update"
<1> DEFINE a == [do |-> "dicom_update"]
<1>1. l = <<a>>
  BY DEF Output!Do
<1>2. a \in Call /\ a.do = "dicom_update"
  BY DEF Call
<1> HIDE DEF a
<1>3. l \in Seq(Call) /\ Len(l) = 1 /\ l[1] = a
  BY <1>1, <1>2
<1>4. 1 .. 1 = {1}
  OBVIOUS
<1>5. Calls(l) = {a}
  BY <1>3, <1>4 DEF Calls
<1>6. /\ Followed(l, Named({"dicom_disable", "overlay_enabled"}), Named({"dicom_enable"}))
      /\ Followed(l, Named({"video_mode", "overlay_enabled"}), Named({"dicom_update"}))
  BY <1>2, <1>3, <1>4 DEF Followed, Named
<1>7. /\ Followed(l, LeavesOverlay, Named({"ENABLEOUTPUT"}))
      /\ Followed(l, Darkens, Excuses)
  BY <1>2, <1>3, <1>4 DEF Followed, LeavesOverlay, Darkens, Named
<1>8. First(l, Named({"fetch", "write"})) /\ Last(l, Named({"playmode", "inuse"}))
  BY <1>2, <1>3, <1>4 DEF First, Last, Named
<1>9. QED BY <1>2, <1>3, <1>5, <1>6, <1>7, <1>8 DEF ListOK

\* A new aspect ratio or window changes neither overlay mode nor TV mode.
LEMMA RefreshStarts ==
  ASSUME OutputTypes, NEW l, l = Output!Refresh
  PROVE  Starts(l, em.overlay_enabled, em.video_mode)
<1>1. ListOK(l) /\ \A c \in Calls(l) : c.do = "dicom_update"
  BY RefreshList DEF Output!Refresh
<1>2. em.overlay_enabled \in BOOLEAN /\ em.video_mode \in VideoModes
  BY DEF OutputTypes
<1>3. ASSUME NEW c \in Calls(l)
      PROVE  c.do \notin {"inuse", "unless_overlay", "fetch", "write", "overlay_enabled",
                          "clockgen", "video_mode", "SETMODE", "playmode"}
  BY ONLY <1>1, c \in Calls(l)
<1>4. QED BY ONLY <1>1, <1>2, <1>3 DEF Starts

\* The list of an open, a release or a zoom.
FileStarts(l) ==
  /\ ListOK(l)
  /\ Pend(l, "unless_overlay") \/ \A c \in Calls(l) : c.do = "dicom_update"
  /\ \A c \in Calls(l) : c.do \in {"unless_overlay", "video_setplaymode", "inuse",
                                   "dicom_update"}

\* em8300_io_open of the video device.
LEMMA OpenStarts ==
  ASSUME NEW l, l = << Output!With("unless_overlay", TRUE),
                       Output!With("video_setplaymode", "PLAY"), Output!With("inuse", TRUE) >>
  PROVE  FileStarts(l)
<1> DEFINE a == [do |-> "unless_overlay", arg |-> TRUE]
           b == [do |-> "video_setplaymode", arg |-> "PLAY"]
           c == [do |-> "inuse", arg |-> TRUE]
<1>1. l = <<a, b, c>>
  BY DEF Output!With
<1>2. /\ a \in Call /\ b \in Call /\ c \in Call
      /\ a.do = "unless_overlay" /\ b.do = "video_setplaymode" /\ c.do = "inuse"
      /\ a.arg = TRUE
  BY DEF Call, PlayModes
<1> HIDE DEF a, b, c
<1>3. /\ l \in Seq(Call) /\ Len(l) = 3 /\ l[1] = a /\ l[2] = b /\ l[3] = c
      /\ Calls(l) = {a, b, c}
  <2>1. a \in Call /\ b \in Call /\ c \in Call
    BY <1>2
  <2>2. QED BY ONLY <1>1, <2>1, Three
<1>4. 1 .. 3 = {1, 2, 3}
  OBVIOUS
<1>5. /\ Followed(l, Named({"dicom_disable", "overlay_enabled"}), Named({"dicom_enable"}))
      /\ Followed(l, Named({"video_mode", "overlay_enabled"}), Named({"dicom_update"}))
  BY <1>2, <1>3, <1>4 DEF Followed, Named
<1>6. /\ Followed(l, LeavesOverlay, Named({"ENABLEOUTPUT"}))
      /\ Followed(l, Darkens, Excuses)
  BY <1>2, <1>3, <1>4 DEF Followed, LeavesOverlay, Darkens, Named
<1>7. First(l, Named({"fetch", "write"})) /\ Last(l, Named({"playmode", "inuse"}))
  BY <1>2, <1>3, <1>4 DEF First, Last, Named
<1>8. QED BY <1>2, <1>3, <1>5, <1>6, <1>7 DEF ListOK, FileStarts, Pend

\* em8300_io_release of the video device.
LEMMA ReleaseStarts ==
  ASSUME NEW l, l = << Output!With("video_setplaymode", "STOPPED"),
                       Output!With("unless_overlay", FALSE), Output!With("inuse", FALSE) >>
  PROVE  FileStarts(l)
<1> DEFINE a == [do |-> "video_setplaymode", arg |-> "STOPPED"]
           b == [do |-> "unless_overlay", arg |-> FALSE]
           c == [do |-> "inuse", arg |-> FALSE]
<1>1. l = <<a, b, c>>
  BY DEF Output!With
<1>2. /\ a \in Call /\ b \in Call /\ c \in Call
      /\ b.do = "unless_overlay" /\ a.do = "video_setplaymode" /\ c.do = "inuse"
      /\ c.arg = FALSE
  BY DEF Call, PlayModes
<1> HIDE DEF a, b, c
<1>3. /\ l \in Seq(Call) /\ Len(l) = 3 /\ l[1] = a /\ l[2] = b /\ l[3] = c
      /\ Calls(l) = {a, b, c}
  <2>1. a \in Call /\ b \in Call /\ c \in Call
    BY <1>2
  <2>2. QED BY ONLY <1>1, <2>1, Three
<1>4. 1 .. 3 = {1, 2, 3}
  OBVIOUS
<1>5. /\ Followed(l, Named({"dicom_disable", "overlay_enabled"}), Named({"dicom_enable"}))
      /\ Followed(l, Named({"video_mode", "overlay_enabled"}), Named({"dicom_update"}))
  BY <1>2, <1>3, <1>4 DEF Followed, Named
<1>6. Followed(l, LeavesOverlay, Named({"ENABLEOUTPUT"}))
  BY <1>2, <1>3, <1>4 DEF Followed, LeavesOverlay, Named
<1>7. Followed(l, Darkens, Excuses)
  <2>1. 3 \in 2 + 1 .. 3
    OBVIOUS
  <2>2. c \in Excuses
    BY <1>2 DEF Excuses, Named
  <2>3. QED BY <1>2, <1>3, <1>4, <2>1, <2>2 DEF Followed, Darkens, Named
<1>8. First(l, Named({"fetch", "write"}))
  BY <1>2, <1>3, <1>4 DEF First, Named
<1>9. Last(l, Named({"playmode", "inuse"}))
  BY <1>2, <1>3, <1>4 DEF Last, Named
<1>10. QED BY <1>2, <1>3, <1>5, <1>6, <1>7, <1>8, <1>9 DEF ListOK, FileStarts, Pend

-------------------------------------------------------------------------------
(* The invariant of the output. *)

Pending == Calls(todo["ioctl"]) \cup Calls(todo["file"])
Pends(n) == \E c \in Pending : c.do = n

\* Only the control ioctls change the play mode, the TV mode and overlay mode, and
\* only the video device looks at overlay mode for its picture.
Separate ==
  /\ \A c \in Calls(todo["ioctl"]) : c.do \notin {"inuse", "unless_overlay"}
  /\ \A c \in Calls(todo["file"]) :
       c.do \notin {"clockgen", "overlay_enabled", "video_mode", "SETMODE", "playmode"}

\* The call of the display controller that process p is inside of.
Amid(p) == IF within[p].at = "outside" THEN "none" ELSE Head(todo[p]).do

\* The steps of every such call, and what they are made with.
Placed ==
  /\ DOMAIN within = Output!Procs
  /\ \A p \in Output!Procs :
       \/ within[p].at = "outside"
       \/ /\ todo[p] # << >>
          /\ \/ /\ Amid(p) = "dicom_disable"
                /\ within[p].at = "TvOut" /\ within[p].arg \in Kinds
             \/ /\ Amid(p) = "dicom_enable"
                /\ within[p].at \in {"store", "load", "back", "TvOut"}
                /\ within[p].arg \in Kinds
             \/ /\ Amid(p) = "dicom_update"
                /\ within[p].at \in {"frame", "visible", "load", "back", "TvOut"}
                /\ within[p].at = "load" => within[p].arg = "none"
                /\ within[p].at \in {"back", "TvOut"} => within[p].arg \in Kinds

\* An output that no two calls have contested is on and of the right kind, or will be;
\* and so em->dicom_tvout, which it is written from.
TvSure ==
  /\ \A p \in Output!Procs, q \in Output!Procs : Amid(p) # "none" /\ Amid(q) # "none" => p = q
  /\ em.dicom_tvout = Output!Kind \/ Pends("dicom_enable")
  /\ shown.tvout = em.dicom_tvout \/ \E p \in Output!Procs : Amid(p) # "none"
  /\ \A p \in Output!Procs :
       /\ Amid(p) = "dicom_enable" => within[p].arg = Output!Kind
       /\ \/ Amid(p) = "dicom_enable" /\ within[p].at = "load"
          \/ within[p].at \in {"back", "TvOut"}
          => within[p].arg = em.dicom_tvout

\* A size that no two updates have contested is right, or will be.
SizeSure ==
  /\ \A p \in Output!Procs, q \in Output!Procs :
       Amid(p) = "dicom_update" /\ Amid(q) = "dicom_update" => p = q
  /\ \/ shown.frame = Output!Wanted /\ shown.visible = Output!Wanted
     \/ Pends("dicom_update")
  /\ \A p \in Output!Procs :
       Amid(p) = "dicom_update" =>
         /\ within[p].at \in {"frame", "visible"} => within[p].arg = Output!Wanted
         /\ within[p].at # "frame" => shown.frame = Output!Wanted
         /\ within[p].at \notin {"frame", "visible"} => shown.visible = Output!Wanted

Following == ("tvout" \in sure => TvSure) /\ ("size" \in sure => SizeSure)

\* Overlay mode becomes v and the TV mode m, where they are not yet.
Heading(v, m) ==
  /\ v \in BOOLEAN /\ m \in VideoModes
  /\ \A c \in Pending :
       /\ c.do = "overlay_enabled" => c.arg = v
       /\ c.do = "clockgen" => c.arg = Kind(v)
       /\ c.do \in {"video_mode", "SETMODE"} => c.arg = m
  /\ em.overlay_enabled # v => Pends("overlay_enabled")
  /\ shown.clock # Kind(v) => Pends("clockgen")
  /\ em.video_mode # m => Pends("video_mode")
  /\ Output!Accepts(m) /\ data.mode # m => Pends("SETMODE")

\* A picture is due.
Due ==
  /\ em.inuse \/ \E c \in Pending : c.do = "inuse" /\ c.arg
  /\ em.playmode # "STOPPED" \/ \E c \in Pending : c.do = "playmode" /\ c.arg = "PLAY"
  /\ ~em.overlay_enabled
  /\ ~Pends("ENABLEOUTPUT") /\ ~Pends("unless_overlay") /\ Pending \cap Excuses = {}

Showing == Due => data.enableoutput \/ by \in {"overlay", "pause"}

\* Every register but those in B holds what the driver's data ask for, or will.
Fresh(B) ==
  \A r \in Output!Registers \ B :
    /\ \/ regs[r] = Output!Image(data, r)
       \/ \E c \in Pending : c.do \in {"fetch", "write"} /\ c.reg = r
    /\ \A c \in Pending : c.do = "write" /\ c.reg = r => c.val = Output!Image(data, r)

\* A value is looked up when it is about to be written.
LookedUp ==
  board.encoder = "ADV717X" =>
    \A p \in Output!Procs :
      todo[p] # << >> => \A c \in Calls(Tail(todo[p])) : c.do # "write"

Staleness ==
  /\ ~mixed => Fresh({})
  /\ board.encoder = "ADV717X" => \E r \in Output!Registers : Fresh({r})

OutputInv ==
  /\ OutputTypes /\ Separate /\ Placed /\ Following /\ Showing /\ LookedUp /\ Staleness
  /\ \E v \in BOOLEAN, m \in VideoModes : Heading(v, m)

-------------------------------------------------------------------------------
(* Every call keeps it. *)

\* The call a process makes next, and the other calls to be made.
Now(p) == Head(todo[p])
Rest(p) == Calls(Tail(todo[p])) \cup Calls(todo[IF p = "ioctl" THEN "file" ELSE "ioctl"])

\* A call that goes on with the calls x.
LEMMA Made ==
  ASSUME OutputTypes, NEW p \in Output!Procs, NEW c, NEW x, x \in Seq(Call), Output!Make(p, c, x)
  PROVE  /\ todo[p] # << >> /\ Now(p) \in Call /\ Now(p).do = c
         /\ Pending = {Now(p)} \cup Rest(p) /\ Pending' = Calls(x) \cup Rest(p)
         /\ Rest(p) \subseteq Call /\ Calls(x) \subseteq Call
         /\ DOMAIN todo' = Output!Procs
         /\ todo'[p] = x \o Tail(todo[p]) /\ Calls(todo'[p]) = Calls(x) \cup Calls(Tail(todo[p]))
         /\ \A q \in Output!Procs \ {p} : todo'[q] = todo[q]
         /\ Tail(todo[p]) \in Seq(Call) /\ ListOK(Tail(todo[p]))
         /\ board' = board
<1> DEFINE l == todo[p]
           o == IF p = "ioctl" THEN "file" ELSE "ioctl"
<1>1. /\ l # << >> /\ Head(l).do = c /\ todo' = [todo EXCEPT ![p] = x \o Tail(l)]
      /\ board' = board
  BY DEF Output!Make, Output!Idle
<1>2. /\ ListOK(l) /\ DOMAIN todo = Output!Procs /\ ListOK(todo[o])
      /\ Output!Procs = {"ioctl", "file"}
  BY DEF OutputTypes, Output!Procs
<1>3. /\ Head(l) \in Call /\ Tail(l) \in Seq(Call) /\ ListOK(Tail(l))
      /\ Calls(l) = {Head(l)} \cup Calls(Tail(l))
  BY <1>1, <1>2, Left
<1>4. Calls(x \o Tail(l)) = Calls(x) \cup Calls(Tail(l))
  <2>1. x \in Seq(Call) /\ Tail(l) \in Seq(Call)
    BY <1>3
  <2>2. QED BY ONLY <2>1, CallsJoined
<1>5. \A s \in Seq(Call) : Calls(s) \subseteq Call
  BY DEF Calls
<1>6. Calls(x) \subseteq Call /\ Calls(Tail(l)) \subseteq Call /\ Calls(todo[o]) \subseteq Call
  BY <1>2, <1>3, <1>5 DEF ListOK
<1>7. Pending = Calls(l) \cup Calls(todo[o])
  BY <1>2 DEF Pending
<1>8. o # p /\ o \in Output!Procs
  BY <1>2
<1>9. /\ DOMAIN todo' = Output!Procs /\ todo'[p] = x \o Tail(l)
      /\ \A q \in Output!Procs \ {p} : todo'[q] = todo[q]
  BY <1>1, <1>2
<1>10. Pending' = Calls(todo'[p]) \cup Calls(todo'[o])
  BY <1>2 DEF Pending
<1>11. Pending' = Calls(x) \cup Calls(Tail(l)) \cup Calls(todo[o])
  BY <1>4, <1>8, <1>9, <1>10
<1>12. Rest(p) = Calls(Tail(l)) \cup Calls(todo[o])
  BY DEF Rest
<1> HIDE DEF l, o
<1>13. QED
  <2>1. /\ Pending = {Now(p)} \cup Rest(p) /\ Pending' = Calls(x) \cup Rest(p)
        /\ Rest(p) \subseteq Call
    BY <1>3, <1>6, <1>7, <1>11, <1>12 DEF Now, l
  <2>2. QED BY <2>1, <1>1, <1>3, <1>4, <1>6, <1>9 DEF Now, l

\* What the other calls are, by the call made.
LEMMA After ==
  ASSUME OutputTypes, Separate, NEW p \in Output!Procs, todo[p] # << >>
  PROVE  /\ Now(p).do \in {"dicom_disable", "overlay_enabled"} =>
              \E c \in Rest(p) : c.do = "dicom_enable"
         /\ Now(p).do \in {"video_mode", "overlay_enabled"} =>
              \E c \in Rest(p) : c.do = "dicom_update"
         /\ Now(p) \in LeavesOverlay => \E c \in Rest(p) : c.do = "ENABLEOUTPUT"
         /\ Now(p) \in Darkens => Calls(Tail(todo[p])) \cap Excuses # {}
         /\ Now(p) \in Darkens => Rest(p) \cap Excuses # {}
         /\ Now(p).do \notin {"fetch", "write"} =>
              \A c \in Calls(Tail(todo[p])) : c.do \notin {"fetch", "write"}
         /\ Now(p).do \in {"playmode", "inuse"} => \A c \in Rest(p) : c.do # Now(p).do
<1> DEFINE l == todo[p]
           t == Calls(Tail(l))
           o == IF p = "ioctl" THEN "file" ELSE "ioctl"
<1>1. ListOK(l) /\ ListOK(todo[o])
  BY DEF OutputTypes, Output!Procs
<1>2. /\ Head(l) \in Call /\ Tail(l) \in Seq(Call)
      /\ Calls(l) = {Head(l)} \cup t
      /\ Head(l) \in Named({"dicom_disable", "overlay_enabled"}) =>
           t \cap Named({"dicom_enable"}) # {}
      /\ Head(l) \in Named({"video_mode", "overlay_enabled"}) =>
           t \cap Named({"dicom_update"}) # {}
      /\ Head(l) \in LeavesOverlay => t \cap Named({"ENABLEOUTPUT"}) # {}
      /\ Head(l) \in Darkens => t \cap Excuses # {}
      /\ Head(l) \notin Named({"fetch", "write"}) => t \cap Named({"fetch", "write"}) = {}
      /\ Head(l) \in Named({"playmode", "inuse"}) => Tail(l) = << >>
  BY <1>1, Left
<1>3. Rest(p) = t \cup Calls(todo[o]) /\ Now(p) = Head(l)
  BY DEF Rest, Now
<1>4. t \subseteq Call
  BY <1>2 DEF Calls
<1>5. \/ p = "ioctl" /\ o = "file"
      \/ p = "file" /\ o = "ioctl"
  BY DEF Output!Procs
<1> HIDE DEF l, t
<1>6. Now(p).do \in {"playmode", "inuse"} => \A c \in Rest(p) : c.do # Now(p).do
  <2> SUFFICES ASSUME Now(p).do \in {"playmode", "inuse"}, NEW c \in Rest(p)
               PROVE  c.do # Now(p).do
    OBVIOUS
  <2>1. Tail(l) = << >> /\ t = {}
    BY <1>2, <1>3, EmptyOK DEF Named, t
  <2>2. c \in Calls(todo[o]) /\ Now(p) \in Calls(todo[p])
    BY <1>2, <1>3, <2>1 DEF l
  <2>3. QED BY <1>5, <2>2 DEF Separate
<1>7. /\ Now(p).do \in {"dicom_disable", "overlay_enabled"} =>
           \E c \in Rest(p) : c.do = "dicom_enable"
      /\ Now(p).do \in {"video_mode", "overlay_enabled"} =>
           \E c \in Rest(p) : c.do = "dicom_update"
      /\ Now(p) \in LeavesOverlay => \E c \in Rest(p) : c.do = "ENABLEOUTPUT"
  <2>1. \A n : t \cap Named(n) # {} => \E c \in Rest(p) : c.do \in n
    BY <1>3 DEF Named
  <2>2. \A n : Now(p).do \in n => Now(p) \in Named(n)
    BY <1>2, <1>3 DEF Named
  <2>3. QED BY ONLY <1>2, <1>3, <2>1, <2>2
<1>8. /\ Now(p) \in Darkens => t \cap Excuses # {}
      /\ Now(p) \in Darkens => Rest(p) \cap Excuses # {}
  BY <1>2, <1>3
<1>9. Now(p).do \notin {"fetch", "write"} => \A c \in t : c.do \notin {"fetch", "write"}
  BY <1>2, <1>3, <1>4 DEF Named
<1>10. QED BY <1>6, <1>7, <1>8, <1>9 DEF t, l

\* The lists, when the calls x come first.
LEMMA Lists ==
  ASSUME OutputTypes, Separate, NEW p \in Output!Procs, NEW c, NEW x, x \in Seq(Call),
         Output!Make(p, c, x), ListOK(x \o Tail(todo[p])),
         \A d \in Calls(x) :
           /\ d.do \notin {"inuse", "unless_overlay", "clockgen", "overlay_enabled",
                           "video_mode", "SETMODE", "playmode"}
  PROVE  (\A q \in Output!Procs : ListOK(todo'[q])) /\ Separate'
<1>1. /\ todo'[p] = x \o Tail(todo[p]) /\ Calls(todo'[p]) = Calls(x) \cup Calls(Tail(todo[p]))
      /\ \A q \in Output!Procs \ {p} : todo'[q] = todo[q]
      /\ todo[p] # << >>
  BY Made
<1>2. \A q \in Output!Procs : ListOK(todo[q])
  BY DEF OutputTypes
<1>3. \A q \in Output!Procs : ListOK(todo'[q])
  BY <1>1, <1>2
<1>4. Calls(Tail(todo[p])) \subseteq Calls(todo[p])
  BY <1>1, <1>2, Left
<1>5. \A q \in Output!Procs : Calls(todo'[q]) \subseteq Calls(x) \cup Calls(todo[q])
  BY <1>1, <1>4
<1>6. "ioctl" \in Output!Procs /\ "file" \in Output!Procs
  BY DEF Output!Procs
<1>7. Separate'
  BY <1>5, <1>6 DEF Separate
<1>8. QED BY <1>3, <1>7

\* A call that goes on with none.
LEMMA Popped ==
  ASSUME OutputTypes, Separate, LookedUp, NEW p \in Output!Procs, NEW c,
         Output!Make(p, c, << >>)
  PROVE  /\ todo[p] # << >> /\ Now(p) \in Call /\ Now(p).do = c
         /\ Pending = {Now(p)} \cup Rest(p) /\ Pending' = Rest(p) /\ Rest(p) \subseteq Call
         /\ DOMAIN todo' = Output!Procs /\ \A q \in Output!Procs : ListOK(todo'[q])
         /\ \A q \in Output!Procs \ {p} : todo'[q] = todo[q]
         /\ Separate' /\ LookedUp' /\ board' = board
<1>1. << >> \in Seq(Call) /\ Calls(<< >>) = {}
  BY EmptyOK
<1>2. /\ todo[p] # << >> /\ Now(p) \in Call /\ Now(p).do = c
      /\ Pending = {Now(p)} \cup Rest(p) /\ Pending' = Calls(<< >>) \cup Rest(p)
      /\ Rest(p) \subseteq Call /\ DOMAIN todo' = Output!Procs
      /\ todo'[p] = << >> \o Tail(todo[p])
      /\ \A q \in Output!Procs \ {p} : todo'[q] = todo[q]
      /\ Tail(todo[p]) \in Seq(Call) /\ ListOK(Tail(todo[p]))
      /\ board' = board
  BY <1>1, Made
<1>3. << >> \o Tail(todo[p]) = Tail(todo[p])
  BY <1>2, ConcatEmptySeq
<1>4. (\A q \in Output!Procs : ListOK(todo'[q])) /\ Separate'
  <2>1. ListOK(<< >> \o Tail(todo[p]))
    BY <1>2, <1>3
  <2>2. \A d \in Calls(<< >>) :
          /\ d.do \notin {"inuse", "unless_overlay", "clockgen", "overlay_enabled",
                          "video_mode", "SETMODE", "playmode"}
    BY <1>1
  <2>3. QED BY ONLY OutputTypes, Separate, p \in Output!Procs, Output!Make(p, c, << >>),
                    <1>1, <2>1, <2>2, Lists
<1>5. LookedUp'
  <2> SUFFICES ASSUME board.encoder = "ADV717X", NEW q \in Output!Procs, todo'[q] # << >>,
                      NEW d \in Calls(Tail(todo'[q]))
               PROVE  d.do # "write"
    BY <1>2 DEF LookedUp
  <2>1. CASE q = p
    <3>1. todo'[q] = Tail(todo[p])
      BY <1>2, <1>3, <2>1
    <3>2. Calls(Tail(todo'[q])) \subseteq Calls(Tail(todo[p]))
      BY <1>2, <3>1, CallsLeft
    <3>3. QED BY <1>2, <3>2 DEF LookedUp
  <2>2. CASE q # p
    BY <1>2, <2>2 DEF LookedUp
  <2>3. QED BY <2>1, <2>2
<1>6. Pending' = Rest(p)
  BY <1>1, <1>2
<1>7. QED BY <1>2, <1>4, <1>5, <1>6

\* What is pending for the registers, with all that it depends on, is as it was.
LEMMA StalenessKept ==
  ASSUME Staleness, data' = data, regs' = regs, mixed' = mixed, board' = board,
         \A d : d.do \in {"fetch", "write"} => (d \in Pending <=> d \in Pending')
  PROVE  Staleness'
<1>1. ASSUME NEW B, Fresh(B) PROVE Fresh(B)'
  <2> SUFFICES ASSUME NEW r \in Output!Registers \ B
               PROVE  /\ \/ regs[r] = Output!Image(data, r)
                         \/ \E c \in Pending' : c.do \in {"fetch", "write"} /\ c.reg = r
                      /\ \A c \in Pending' :
                           c.do = "write" /\ c.reg = r => c.val = Output!Image(data, r)
    BY DEF Fresh, Output!Image, Output!Registers
  <2>1. /\ \/ regs[r] = Output!Image(data, r)
           \/ \E c \in Pending : c.do \in {"fetch", "write"} /\ c.reg = r
        /\ \A c \in Pending : c.do = "write" /\ c.reg = r => c.val = Output!Image(data, r)
    BY <1>1 DEF Fresh
  <2>2. QED BY <2>1
<1>2. \A B : Fresh(B) => Fresh(B)'
  BY <1>1
<1>3. (~mixed => Fresh({})) /\ (board.encoder = "ADV717X" => \E r \in Output!Registers : Fresh({r}))
  BY DEF Staleness
<1>4. /\ ~mixed => Fresh({})'
      /\ board.encoder = "ADV717X" => \E r \in Output!Registers : Fresh({r})'
  BY <1>2, <1>3
<1>5. QED BY <1>4 DEF Staleness, Output!Registers

\* A process outside of the display controller does what changes none of its registers: the
\* settings stay, or change where no other call has looked them up and a call is to come.
LEMMA FollowingKept ==
  ASSUME Placed, Following, NEW p \in Output!Procs, within[p].at = "outside",
         within' = within, \A q \in Output!Procs \ {p} : todo'[q] = todo[q],
         em'.dicom_tvout = em.dicom_tvout, shown'.tvout = shown.tvout,
         shown'.frame = shown.frame, shown'.visible = shown.visible, sure' \subseteq sure,
         "tvout" \in sure' =>
           \/ Output!Kind' = Output!Kind /\ (Pends("dicom_enable") => Pends("dicom_enable")')
           \/ /\ Pends("dicom_enable")'
              /\ \A q \in Output!Procs \ {p} : Amid(q) # "dicom_enable",
         "size" \in sure' =>
           \/ Output!Wanted' = Output!Wanted /\ (Pends("dicom_update") => Pends("dicom_update")')
           \/ /\ Pends("dicom_update")'
              /\ \A q \in Output!Procs \ {p} : Amid(q) # "dicom_update"
  PROVE  Placed' /\ Following'
<1>1. \A q \in Output!Procs : Amid(q)' = Amid(q)
  <2>1. Amid(p)' = "none" /\ Amid(p) = "none"
    BY DEF Amid
  <2>2. \A q \in Output!Procs \ {p} : Amid(q)' = Amid(q)
    BY DEF Amid
  <2>3. QED BY <2>1, <2>2
<1>2. Output!Procs' = Output!Procs /\ Kinds' = Kinds
  BY DEF Output!Procs, Kinds
<1>3. Placed'
  <2>1. DOMAIN within' = Output!Procs
    BY DEF Placed
  <2>2. ASSUME NEW q \in Output!Procs, within[q].at # "outside" PROVE todo'[q] = todo[q]
    BY <2>2
  <2>3. QED BY <1>1, <1>2, <2>1, <2>2 DEF Placed
<1>4. Amid(p) = "none"
  BY DEF Amid
<1>5. ASSUME "tvout" \in sure' PROVE TvSure'
  <2>1. TvSure
    BY <1>5 DEF Following
  <2>2. em'.dicom_tvout = Output!Kind' \/ Pends("dicom_enable")'
    BY <1>5, <2>1 DEF TvSure
  <2>3. ASSUME NEW q \in Output!Procs, Amid(q)' = "dicom_enable"
        PROVE  within'[q].arg = Output!Kind'
    BY <1>1, <1>4, <1>5, <2>1, <2>3 DEF TvSure
  <2>4. QED BY <1>1, <1>2, <2>1, <2>2, <2>3 DEF TvSure
<1>6. ASSUME "size" \in sure' PROVE SizeSure'
  <2>1. SizeSure
    BY <1>6 DEF Following
  <2>2. CASE Output!Wanted' = Output!Wanted /\ (Pends("dicom_update") => Pends("dicom_update")')
    BY <1>1, <1>2, <2>1, <2>2 DEF SizeSure
  <2>3. CASE /\ Pends("dicom_update")'
             /\ \A q \in Output!Procs \ {p} : Amid(q) # "dicom_update"
    BY <1>1, <1>2, <1>4, <2>3 DEF SizeSure
  <2>4. QED BY <1>6, <2>2, <2>3
<1>7. QED BY <1>3, <1>5, <1>6 DEF Following

\* A process that makes another call is outside of the display controller.
LEMMA NotInside ==
  ASSUME Placed, NEW p \in Output!Procs, todo[p] = << >> \/
         Now(p).do \notin {"dicom_disable", "dicom_enable", "dicom_update"}
  PROVE  within[p].at = "outside"
BY DEF Placed, Amid, Now

\* So of a call of the encoder, the clock generator or the video part.
LEMMA OtherCalls ==
  ASSUME Placed, Following, NEW p \in Output!Procs, todo[p] # << >>,
         Now(p).do \notin {"dicom_disable", "dicom_enable", "dicom_update"},
         within' = within, sure' = sure, \A q \in Output!Procs \ {p} : todo'[q] = todo[q],
         em' = em, shown'.tvout = shown.tvout, shown'.frame = shown.frame,
         shown'.visible = shown.visible, NEW R, NEW X, Pending = {Now(p)} \cup R,
         Pending' = X \cup R
  PROVE  Placed' /\ Following'
<1>1. within[p].at = "outside"
  BY NotInside
<1>2. \A n \in {"dicom_enable", "dicom_update"} :
        (\E c \in Pending : c.do = n) => \E c \in Pending' : c.do = n
  OBVIOUS
<1>3. /\ Pends("dicom_enable") => Pends("dicom_enable")'
      /\ Pends("dicom_update") => Pends("dicom_update")'
  BY <1>2 DEF Pends
<1>4. Output!Kind' = Output!Kind /\ Output!Wanted' = Output!Wanted
  BY DEF Output!Kind, Output!Wanted
<1>5. em'.dicom_tvout = em.dicom_tvout /\ sure' \subseteq sure
  OBVIOUS
<1>6. QED
  BY ONLY Placed, Following, p \in Output!Procs, within' = within,
     \A q \in Output!Procs \ {p} : todo'[q] = todo[q], shown'.tvout = shown.tvout,
     shown'.frame = shown.frame, shown'.visible = shown.visible,
     <1>1, <1>3, <1>4, <1>5, FollowingKept

\* A setting is changed.
LEMMA AssignKeeps ==
  ASSUME OutputInv, NEW p \in Output!Procs,
         NEW f \in {"playmode", "video_setplaymode", "video_mode", "overlay_enabled", "inuse"},
         Output!Assign(p, f)
  PROVE  OutputInv'
<1> DEFINE h == Now(p)
<1>1. OutputTypes /\ Separate /\ Placed /\ LookedUp /\ Following /\ Showing /\ Staleness
  BY DEF OutputInv
<1>2. /\ Output!Make(p, f, << >>)
      /\ em' = [em EXCEPT ![IF f = "video_setplaymode" THEN "video_playmode" ELSE f] = h.arg]
      /\ by' = IF f = "playmode" /\ h.arg = "PAUSED" /\ em.playmode = "STOPPED"
               THEN "pause" ELSE by
      /\ sure' = sure \ (Output!From(f) \cap Output!LookedUp(p)) /\ within' = within
      /\ shown' = shown /\ data' = data /\ regs' = regs /\ mixed' = mixed
  BY DEF Output!Assign, Output!Arg, Now
<1>3. /\ todo[p] # << >> /\ h \in Call /\ h.do = f
      /\ Pending = {h} \cup Rest(p) /\ Pending' = Rest(p) /\ Rest(p) \subseteq Call
      /\ DOMAIN todo' = Output!Procs /\ \A q \in Output!Procs : ListOK(todo'[q])
      /\ \A q \in Output!Procs \ {p} : todo'[q] = todo[q]
      /\ Separate' /\ LookedUp' /\ board' = board
  BY ONLY <1>1, <1>2, p \in Output!Procs, Popped
<1>4. /\ f = "overlay_enabled" => /\ \E c \in Rest(p) : c.do = "dicom_enable"
                                  /\ \E c \in Rest(p) : c.do = "dicom_update"
      /\ f = "video_mode" => \E c \in Rest(p) : c.do = "dicom_update"
      /\ h \in LeavesOverlay => \E c \in Rest(p) : c.do = "ENABLEOUTPUT"
      /\ f \in {"playmode", "inuse"} => \A c \in Rest(p) : c.do # f
  BY <1>1, <1>3, After
<1> HIDE DEF h
<1>5. /\ f \in {"playmode", "video_setplaymode"} => h.arg \in PlayModes
      /\ f = "video_mode" => h.arg \in VideoModes
      /\ f \in {"overlay_enabled", "inuse"} => h.arg \in BOOLEAN
  BY <1>3 DEF Call
<1>6. em \in [playmode : PlayModes, video_playmode : PlayModes, video_mode : VideoModes,
              overlay_enabled : BOOLEAN, inuse : BOOLEAN, dicom_tvout : Kinds]
  BY <1>1 DEF OutputTypes
<1>7. /\ em'.playmode = IF f = "playmode" THEN h.arg ELSE em.playmode
      /\ em'.video_mode = IF f = "video_mode" THEN h.arg ELSE em.video_mode
      /\ em'.overlay_enabled = IF f = "overlay_enabled" THEN h.arg ELSE em.overlay_enabled
      /\ em'.inuse = IF f = "inuse" THEN h.arg ELSE em.inuse
      /\ em'.dicom_tvout = em.dicom_tvout
  BY <1>2, <1>6
<1>8. em' \in [playmode : PlayModes, video_playmode : PlayModes, video_mode : VideoModes,
               overlay_enabled : BOOLEAN, inuse : BOOLEAN, dicom_tvout : Kinds]
  <2>1. CASE f \in {"playmode", "video_setplaymode"}
    BY <1>2, <1>5, <1>6, <2>1
  <2>2. CASE f = "video_mode"
    BY <1>2, <1>5, <1>6, <2>2
  <2>3. CASE f = "overlay_enabled"
    BY <1>2, <1>5, <1>6, <2>3
  <2>4. CASE f = "inuse"
    BY <1>2, <1>5, <1>6, <2>4
  <2>5. QED BY <2>1, <2>2, <2>3, <2>4
<1>9. OutputTypes'
  BY <1>1, <1>2, <1>3, <1>8 DEF OutputTypes
<1>10. Placed' /\ Following'
  <2>1. within[p].at = "outside"
    BY <1>1, <1>3, NotInside DEF h
  <2>2. /\ Pends("dicom_enable") => Pends("dicom_enable")'
        /\ Pends("dicom_update") => Pends("dicom_update")'
        /\ f = "overlay_enabled" => Pends("dicom_enable")'
        /\ f \in {"overlay_enabled", "video_mode"} => Pends("dicom_update")'
    BY <1>3, <1>4 DEF Pends
  <2>3. /\ f # "overlay_enabled" => Output!Kind' = Output!Kind
        /\ f \notin {"overlay_enabled", "video_mode"} => Output!Wanted' = Output!Wanted
    BY <1>7 DEF Output!Kind, Output!Wanted
  <2>4. /\ f = "overlay_enabled" => Output!From(f) = {"tvout", "size"}
        /\ f = "video_mode" => Output!From(f) = {"size"}
    BY DEF Output!From
  <2>5. ASSUME NEW q \in Output!Procs \ {p}
        PROVE  /\ Amid(q) = "dicom_enable" => "tvout" \in Output!LookedUp(p)
               /\ Amid(q) = "dicom_update" => "size" \in Output!LookedUp(p)
    BY DEF Amid, Output!LookedUp, Output!Inside, Output!Sets
  <2>6. "tvout" \in sure' =>
          \/ Output!Kind' = Output!Kind /\ (Pends("dicom_enable") => Pends("dicom_enable")')
          \/ /\ Pends("dicom_enable")'
             /\ \A q \in Output!Procs \ {p} : Amid(q) # "dicom_enable"
    BY <1>2, <2>2, <2>3, <2>4, <2>5
  <2>7. "size" \in sure' =>
          \/ Output!Wanted' = Output!Wanted /\ (Pends("dicom_update") => Pends("dicom_update")')
          \/ /\ Pends("dicom_update")'
             /\ \A q \in Output!Procs \ {p} : Amid(q) # "dicom_update"
    BY <1>2, <2>2, <2>3, <2>4, <2>5
  <2>8. /\ sure' \subseteq sure /\ em'.dicom_tvout = em.dicom_tvout
        /\ shown'.tvout = shown.tvout /\ shown'.frame = shown.frame
        /\ shown'.visible = shown.visible /\ within' = within
    BY <1>2, <1>7
  <2>9. QED
    BY ONLY <1>1, <1>3, <2>1, <2>6, <2>7, <2>8, p \in Output!Procs, FollowingKept
<1>11. ASSUME NEW v \in BOOLEAN, NEW m \in VideoModes, Heading(v, m) PROVE Heading(v, m)'
  <2>1. \A c \in Pending' : /\ c.do = "overlay_enabled" => c.arg = v
                            /\ c.do = "clockgen" => c.arg = Kind(v)
                            /\ c.do \in {"video_mode", "SETMODE"} => c.arg = m
    BY <1>3, <1>11 DEF Heading
  <2>2. em'.overlay_enabled # v => \E c \in Pending' : c.do = "overlay_enabled"
    BY <1>3, <1>7, <1>11 DEF Heading, Pends
  <2>3. em'.video_mode # m => \E c \in Pending' : c.do = "video_mode"
    BY <1>3, <1>7, <1>11 DEF Heading, Pends
  <2>4. /\ shown.clock # Kind(v) => \E c \in Pending' : c.do = "clockgen"
        /\ Output!Accepts(m) /\ data.mode # m => \E c \in Pending' : c.do = "SETMODE"
    BY <1>3, <1>11 DEF Heading, Pends
  <2>5. Output!Accepts(m)' <=> Output!Accepts(m)
    BY <1>3 DEF Output!Accepts
  <2>6. QED BY <1>2, <1>11, <2>1, <2>2, <2>3, <2>4, <2>5 DEF Heading, Pends
<1>12. Showing'
  <2> SUFFICES ASSUME Due' PROVE data.enableoutput \/ by' \in {"overlay", "pause"}
    BY <1>2 DEF Showing
  <2>1. /\ em'.inuse \/ \E c \in Pending' : c.do = "inuse" /\ c.arg
        /\ em'.playmode # "STOPPED" \/ \E c \in Pending' : c.do = "playmode" /\ c.arg = "PLAY"
        /\ ~em'.overlay_enabled
        /\ ~ \E c \in Pending' : c.do = "ENABLEOUTPUT"
        /\ ~ \E c \in Pending' : c.do = "unless_overlay"
        /\ Pending' \cap Excuses = {}
    BY DEF Due, Pends
  <2>2. CASE f = "playmode" /\ h.arg = "PAUSED" /\ em.playmode = "STOPPED"
    BY <1>2, <2>2
  <2>3. CASE ~(f = "playmode" /\ h.arg = "PAUSED" /\ em.playmode = "STOPPED")
    <3>1. h \notin Excuses
      <4>1. CASE f = "playmode"
        BY <1>3, <1>4, <1>7, <2>1, <4>1 DEF Excuses, Named
      <4>2. CASE f = "overlay_enabled"
        BY <1>3, <1>7, <2>1, <4>2 DEF Excuses, Named
      <4>3. CASE f = "inuse"
        BY <1>3, <1>4, <1>7, <2>1, <4>3 DEF Excuses, Named
      <4>4. CASE f \notin {"playmode", "overlay_enabled", "inuse"}
        BY <1>3, <4>4 DEF Excuses, Named
      <4>5. QED BY <4>1, <4>2, <4>3, <4>4
    <3>2. Pending \cap Excuses = {} /\ ~Pends("ENABLEOUTPUT") /\ ~Pends("unless_overlay")
      BY <1>3, <2>1, <3>1 DEF Pends
    <3>3. ~em.overlay_enabled
      <4>1. f = "overlay_enabled" => h.arg = FALSE
        BY <1>5, <1>7, <2>1
      <4>2. f # "overlay_enabled"
        BY <1>3, <1>4, <2>1, <4>1 DEF LeavesOverlay, Named
      <4>3. QED BY <1>7, <2>1, <4>2
    <3>4. em.inuse \/ \E c \in Pending : c.do = "inuse" /\ c.arg
      BY <1>3, <1>7, <2>1
    <3>5. em.playmode # "STOPPED" \/ \E c \in Pending : c.do = "playmode" /\ c.arg = "PLAY"
      BY <1>3, <1>5, <1>7, <2>1, <2>3 DEF PlayModes
    <3>6. Due
      BY <3>2, <3>3, <3>4, <3>5 DEF Due
    <3>7. by' = by
      BY <1>2, <2>3
    <3>8. QED BY <1>1, <3>6, <3>7 DEF Showing
  <2>4. QED BY <2>2, <2>3
<1>13. Staleness'
  <2>1. \A d : d.do \in {"fetch", "write"} => (d \in Pending <=> d \in Pending')
    BY <1>3
  <2>2. QED BY ONLY <1>1, <1>2, <1>3, <2>1, StalenessKept
<1>14. QED
  <2>1. \E v \in BOOLEAN, m \in VideoModes : Heading(v, m)
    BY DEF OutputInv
  <2>2. \E v \in BOOLEAN, m \in VideoModes : Heading(v, m)'
    BY <1>11, <2>1
  <2>3. QED BY ONLY <1>3, <1>9, <1>10, <1>12, <1>13, <2>2 DEF OutputInv

\* Overlay mode and TV mode go on to what they are to become.
LEMMA HeadingKept ==
  ASSUME NEW v, NEW m, Heading(v, m), em' = em, shown'.clock = shown.clock,
         data'.mode = data.mode, board' = board, NEW h, NEW R, NEW X,
         Pending = {h} \cup R, Pending' = X \cup R,
         h.do \notin {"overlay_enabled", "clockgen", "video_mode", "SETMODE"},
         \A c \in X : c.do \notin {"overlay_enabled", "clockgen", "video_mode", "SETMODE"}
  PROVE  Heading(v, m)'
<1>1. \A n \in {"overlay_enabled", "clockgen", "video_mode", "SETMODE"} :
        (\E c \in Pending : c.do = n) => \E c \in Pending' : c.do = n
  OBVIOUS
<1>2. \A c \in Pending' : /\ c.do = "overlay_enabled" => c.arg = v
                          /\ c.do = "clockgen" => c.arg = Kind(v)
                          /\ c.do \in {"video_mode", "SETMODE"} => c.arg = m
  BY DEF Heading
<1>3. /\ em.overlay_enabled # v => \E c \in Pending' : c.do = "overlay_enabled"
      /\ shown.clock # Kind(v) => \E c \in Pending' : c.do = "clockgen"
      /\ em.video_mode # m => \E c \in Pending' : c.do = "video_mode"
      /\ Output!Accepts(m) /\ data.mode # m => \E c \in Pending' : c.do = "SETMODE"
  BY <1>1 DEF Heading, Pends
<1>4. Output!Accepts(m)' <=> Output!Accepts(m)
  BY DEF Output!Accepts
<1>5. v \in BOOLEAN /\ m \in VideoModes
  BY DEF Heading
<1>6. QED BY <1>2, <1>3, <1>4, <1>5 DEF Heading, Pends

\* No picture becomes due.
LEMMA ShowingKept ==
  ASSUME Showing, em' = em, data'.enableoutput = data.enableoutput, by' = by,
         NEW h, NEW R, NEW X, Pending = {h} \cup R, Pending' = X \cup R,
         h.do \notin {"ENABLEOUTPUT", "unless_overlay", "playmode", "inuse", "overlay_enabled"},
         \A c \in X : c.do \notin {"playmode", "inuse"}
  PROVE  Showing'
<1> SUFFICES ASSUME Due' PROVE data.enableoutput \/ by \in {"overlay", "pause"}
  BY DEF Showing
<1>1. /\ em.inuse \/ \E c \in Pending' : c.do = "inuse" /\ c.arg
      /\ em.playmode # "STOPPED" \/ \E c \in Pending' : c.do = "playmode" /\ c.arg = "PLAY"
      /\ ~em.overlay_enabled
      /\ ~ \E c \in Pending' : c.do = "ENABLEOUTPUT"
      /\ ~ \E c \in Pending' : c.do = "unless_overlay"
      /\ Pending' \cap Excuses = {}
  BY DEF Due, Pends
<1>2. h \notin Excuses
  BY DEF Excuses, Named
<1>3. Pending \cap Excuses = {} /\ ~Pends("ENABLEOUTPUT") /\ ~Pends("unless_overlay")
  BY <1>1, <1>2 DEF Pends
<1>4. em.inuse \/ \E c \in Pending : c.do = "inuse" /\ c.arg
  BY <1>1
<1>5. em.playmode # "STOPPED" \/ \E c \in Pending : c.do = "playmode" /\ c.arg = "PLAY"
  BY <1>1
<1>6. Due
  BY <1>1, <1>3, <1>4, <1>5 DEF Due
<1>7. QED BY <1>6 DEF Showing

\* A step inside of a call of the display controller makes none: all but the controller
\* and em->dicom_tvout is as it was.
LEMMA Unmoved ==
  ASSUME OutputInv, todo' = todo, board' = board, data' = data, regs' = regs, by' = by,
         mixed' = mixed, DOMAIN shown' = DOMAIN shown, shown'.clock = shown.clock,
         em' = em \/ \E k \in Kinds : em' = [em EXCEPT !.dicom_tvout = k],
         Placed', Following'
  PROVE  OutputInv'
<1>1. OutputTypes /\ Separate /\ Placed /\ LookedUp /\ Following /\ Showing /\ Staleness
  BY DEF OutputInv
<1>2. /\ em' \in [playmode : PlayModes, video_playmode : PlayModes, video_mode : VideoModes,
                  overlay_enabled : BOOLEAN, inuse : BOOLEAN, dicom_tvout : Kinds]
      /\ em'.playmode = em.playmode /\ em'.inuse = em.inuse
      /\ em'.overlay_enabled = em.overlay_enabled /\ em'.video_mode = em.video_mode
  <2>1. em \in [playmode : PlayModes, video_playmode : PlayModes, video_mode : VideoModes,
                overlay_enabled : BOOLEAN, inuse : BOOLEAN, dicom_tvout : Kinds]
    BY <1>1 DEF OutputTypes
  <2>2. CASE em' = em
    BY <2>1, <2>2
  <2>3. CASE \E k \in Kinds : em' = [em EXCEPT !.dicom_tvout = k]
    BY <2>1, <2>3
  <2>4. QED BY <2>2, <2>3
<1>3. Pending' = Pending
  BY DEF Pending
<1>4. OutputTypes' /\ Separate' /\ LookedUp'
  BY <1>1, <1>2 DEF OutputTypes, Separate, LookedUp
<1>5. Showing'
  BY <1>1, <1>2, <1>3 DEF Showing, Due, Pends
<1>6. Staleness'
  BY <1>1, <1>3, StalenessKept
<1>7. ASSUME NEW v \in BOOLEAN, NEW m \in VideoModes, Heading(v, m) PROVE Heading(v, m)'
  BY <1>2, <1>3, <1>7 DEF Heading, Pends, Output!Accepts
<1>8. \E v \in BOOLEAN, m \in VideoModes : Heading(v, m)
  BY DEF OutputInv
<1>9. \E v \in BOOLEAN, m \in VideoModes : Heading(v, m)'
  BY <1>7, <1>8
<1>10. QED BY ONLY <1>4, <1>5, <1>6, <1>9, Placed', Following' DEF OutputInv

\* A call of the display controller begins.
LEMMA EnterKeeps ==
  ASSUME OutputInv, NEW p \in Output!Procs,
         Output!DicomDisable(p) \/ Output!DicomEnable(p) \/ Output!DicomUpdate(p)
  PROVE  OutputInv'
<1> DEFINE h == Now(p)
           Off == [at |-> "TvOut", arg |-> "off"]
           Enable == [at |-> "store", arg |-> Output!Kind]
           Size == [at |-> "frame", arg |-> Output!Wanted]
<1>1. OutputTypes /\ Separate /\ Placed /\ LookedUp /\ Following /\ Showing /\ Staleness
  BY DEF OutputInv
<1>2. PICK c \in {"dicom_disable", "dicom_enable", "dicom_update"}, w \in {Off, Enable, Size} :
        /\ Output!Enter(p, c, w)
        /\ \/ c = "dicom_disable" /\ w = Off /\ em' = [em EXCEPT !.dicom_tvout = "off"]
           \/ c = "dicom_enable" /\ w = Enable /\ em' = em
           \/ c = "dicom_update" /\ w = Size /\ em' = em
  BY DEF Output!DicomDisable, Output!DicomEnable, Output!DicomUpdate, Output!At
<1>3. /\ w.at \in {"TvOut", "store", "frame"} /\ w.at # "outside"
      /\ c = "dicom_disable" => w.at = "TvOut" /\ w.arg = "off"
      /\ c = "dicom_enable" => w.at = "store" /\ w.arg = Output!Kind
      /\ c = "dicom_update" => w.at = "frame" /\ w.arg = Output!Wanted
  BY <1>2
<1> HIDE DEF Off, Enable, Size
<1>4. /\ todo[p] # << >> /\ h.do = c /\ within[p].at = "outside"
      /\ within' = [within EXCEPT ![p] = w]
      /\ sure' = (sure \ (Output!Writes(c) \cap Output!Contested(p)))
                   \cup (Output!Sets(c) \ Output!Contested(p))
      /\ board' = board /\ shown' = shown /\ data' = data /\ regs' = regs /\ todo' = todo
      /\ by' = by /\ mixed' = mixed
  BY <1>2 DEF Output!Enter, Output!Idle, Output!Inside, Now
<1>5. /\ within'[p] = w /\ DOMAIN within' = Output!Procs
      /\ \A q \in Output!Procs \ {p} : within'[q] = within[q]
  BY <1>1, <1>4 DEF Placed
<1>6. /\ Amid(p) = "none" /\ Amid(p)' = c
      /\ \A q \in Output!Procs \ {p} : Amid(q)' = Amid(q)
  BY <1>3, <1>4, <1>5 DEF Amid, Now
<1>7. /\ em'.overlay_enabled = em.overlay_enabled /\ em'.video_mode = em.video_mode
      /\ c = "dicom_disable" => em'.dicom_tvout = "off"
      /\ c # "dicom_disable" => em'.dicom_tvout = em.dicom_tvout
  BY <1>1, <1>2 DEF OutputTypes
<1>8. /\ Output!Kind' = Output!Kind /\ Output!Wanted' = Output!Wanted
      /\ Output!Kind \in Kinds /\ "off" \in Kinds
  BY <1>7 DEF Output!Kind, Output!Wanted, Kinds
<1>9. Pending' = Pending /\ Output!Procs' = Output!Procs /\ Kinds' = Kinds
  BY <1>4 DEF Pending, Output!Procs, Kinds
<1>10. /\ c = "dicom_disable" => Pends("dicom_enable")
       /\ c = "dicom_enable" => Pends("dicom_enable")
       /\ c = "dicom_update" => Pends("dicom_update")
       /\ \A n : Pends(n)' <=> Pends(n)
  <2>1. h \in Pending
    <3>1. ListOK(todo[p])
      BY <1>1 DEF OutputTypes
    <3>2. h \in Calls(todo[p])
      BY <1>4, <3>1, Left DEF Now
    <3>3. QED BY <3>2 DEF Pending, Output!Procs
  <2>2. Rest(p) \subseteq Pending
    <3>1. ListOK(todo[p])
      BY <1>1 DEF OutputTypes
    <3>2. Calls(Tail(todo[p])) \subseteq Calls(todo[p])
      BY <1>4, <3>1, Left
    <3>3. QED BY <3>2 DEF Pending, Rest, Output!Procs
  <2>3. c = "dicom_disable" => \E d \in Rest(p) : d.do = "dicom_enable"
    BY <1>1, <1>4, After
  <2>4. QED BY <1>4, <1>9, <2>1, <2>2, <2>3 DEF Pends
<1>11. ASSUME NEW q \in Output!Procs \ {p}, Amid(q) # "none"
       PROVE  /\ "tvout" \in Output!Contested(p)
              /\ Amid(q) = "dicom_update" => "size" \in Output!Contested(p)
  BY <1>11 DEF Amid, Output!Contested, Output!Inside, Output!Writes
<1>12. /\ "tvout" \in Output!Writes(c)
       /\ c = "dicom_update" => "size" \in Output!Writes(c)
       /\ "tvout" \in Output!Sets(c) <=> c = "dicom_enable"
       /\ "size" \in Output!Sets(c) <=> c = "dicom_update"
  BY <1>2 DEF Output!Writes, Output!Sets
<1>13. Placed'
  <2>1. ASSUME NEW q \in Output!Procs \ {p} PROVE todo'[q] = todo[q] /\ within'[q] = within[q]
    BY <1>4, <1>5
  <2>2. /\ todo'[p] # << >>
        /\ \/ Amid(p)' = "dicom_disable" /\ within'[p].at = "TvOut" /\ within'[p].arg \in Kinds
           \/ Amid(p)' = "dicom_enable" /\ within'[p].at = "store" /\ within'[p].arg \in Kinds
           \/ Amid(p)' = "dicom_update" /\ within'[p].at = "frame"
    BY <1>2, <1>3, <1>4, <1>5, <1>6, <1>8
  <2>3. QED BY <1>1, <1>5, <1>6, <1>9, <2>1, <2>2 DEF Placed
<1>14. ASSUME "tvout" \in sure' PROVE TvSure'
  <2>1. \A q \in Output!Procs \ {p} : Amid(q) = "none"
    BY <1>4, <1>11, <1>12, <1>14
  <2>2. "tvout" \in sure \/ c = "dicom_enable"
    BY <1>4, <1>12, <1>14
  <2>3. \A q \in Output!Procs \ {p} : within'[q].at = "outside" /\ Amid(q)' = "none"
    <3>1. ASSUME NEW q \in Output!Procs \ {p} PROVE within[q].at = "outside"
      BY <1>1, <2>1 DEF Placed
    <3>2. QED BY <1>5, <1>6, <2>1, <3>1
  <2>4. em'.dicom_tvout = Output!Kind' \/ Pends("dicom_enable")'
    BY <1>1, <1>2, <1>7, <1>8, <1>10, <2>2 DEF Following, TvSure
  <2>5. /\ c = "dicom_disable" => within'[p].arg = em'.dicom_tvout
        /\ c = "dicom_enable" => within'[p].arg = Output!Kind' /\ within'[p].at = "store"
        /\ c = "dicom_update" => within'[p].at = "frame"
    BY <1>3, <1>5, <1>7, <1>8
  <2>6. \A q \in Output!Procs :
          /\ Amid(q)' = "dicom_enable" => within'[q].arg = Output!Kind'
          /\ \/ Amid(q)' = "dicom_enable" /\ within'[q].at = "load"
             \/ within'[q].at \in {"back", "TvOut"}
             => within'[q].arg = em'.dicom_tvout
    BY <1>2, <1>6, <2>3, <2>5
  <2>7. Amid(p)' # "none"
    BY <1>2, <1>6
  <2>8. QED BY <1>9, <2>3, <2>4, <2>6, <2>7 DEF TvSure
<1>15. ASSUME "size" \in sure' PROVE SizeSure'
  <2>1. \/ "size" \in sure /\ c # "dicom_update"
        \/ c = "dicom_update" /\ \A q \in Output!Procs \ {p} : Amid(q) # "dicom_update"
    BY <1>4, <1>11, <1>12, <1>15
  <2>2. CASE "size" \in sure /\ c # "dicom_update"
    <3>1. SizeSure
      BY <1>1, <2>2 DEF Following
    <3>2. ASSUME NEW q \in Output!Procs, Amid(q)' = "dicom_update"
          PROVE  Amid(q) = "dicom_update" /\ within'[q] = within[q]
      BY <1>5, <1>6, <2>2, <3>2
    <3>3. QED BY <1>4, <1>8, <1>9, <1>10, <3>1, <3>2 DEF SizeSure
  <2>3. CASE c = "dicom_update" /\ \A q \in Output!Procs \ {p} : Amid(q) # "dicom_update"
    <3>1. \A q \in Output!Procs : Amid(q)' = "dicom_update" => q = p
      BY <1>6, <2>3
    <3>2. Pends("dicom_update")'
      BY <1>10, <2>3
    <3>3. within'[p].at = "frame" /\ within'[p].arg = Output!Wanted'
      BY <1>3, <1>5, <1>8, <2>3
    <3>4. QED BY <1>9, <3>1, <3>2, <3>3 DEF SizeSure
  <2>4. QED BY <2>1, <2>2, <2>3
<1>16. Following'
  BY <1>14, <1>15 DEF Following
<1>17. em' = em \/ \E k \in Kinds : em' = [em EXCEPT !.dicom_tvout = k]
  BY <1>2, <1>8
<1>18. DOMAIN shown' = DOMAIN shown /\ shown'.clock = shown.clock
  BY <1>4
<1>19. QED BY ONLY OutputInv, <1>4, <1>13, <1>16, <1>17, <1>18, Unmoved

\* A step inside of such a call.
LEMMA StepKeeps ==
  ASSUME OutputInv, NEW p \in Output!Procs,
         Output!Frame(p) \/ Output!Visible(p) \/ Output!Load(p) \/ Output!Store(p)
  PROVE  OutputInv'
<1> DEFINE a == within[p].at
           v == within[p].arg
<1>1. OutputTypes /\ Separate /\ Placed /\ LookedUp /\ Following /\ Showing /\ Staleness
  BY DEF OutputInv
<1>2. PICK n \in {"visible", "load", "back", "TvOut"},
          x \in {v, "none", em.dicom_tvout} :
        /\ within' = [within EXCEPT ![p] = [at |-> n, arg |-> x]]
        /\ \/ /\ a = "frame" /\ n = "visible" /\ x = v
              /\ shown' = [shown EXCEPT !.frame = v] /\ em' = em
           \/ /\ a = "visible" /\ n = "load" /\ x = "none"
              /\ shown' = [shown EXCEPT !.visible = v] /\ em' = em
           \/ /\ a = "load" /\ n = "back" /\ x \in {v, em.dicom_tvout} \ {"none"}
              /\ shown' = shown /\ em' = em
           \/ /\ \/ (a = "store" /\ n = "load")
                 \/ (a = "back" /\ n = "TvOut")
              /\ x = v /\ em' = [em EXCEPT !.dicom_tvout = v] /\ shown' = shown
  BY DEF Output!Frame, Output!Visible, Output!Load, Output!Store, Output!Step, Output!At
<1>3. /\ board' = board /\ data' = data /\ regs' = regs /\ todo' = todo /\ sure' = sure
      /\ by' = by /\ mixed' = mixed
  BY DEF Output!Frame, Output!Visible, Output!Load, Output!Store, Output!Step
<1>4. /\ DOMAIN within = Output!Procs
      /\ a # "outside" =>
           /\ todo[p] # << >>
           /\ \/ Amid(p) = "dicom_disable" /\ a = "TvOut" /\ v \in Kinds
              \/ /\ Amid(p) = "dicom_enable"
                 /\ a \in {"store", "load", "back", "TvOut"} /\ v \in Kinds
              \/ /\ Amid(p) = "dicom_update"
                 /\ a \in {"frame", "visible", "load", "back", "TvOut"}
                 /\ a = "load" => v = "none"
                 /\ a \in {"back", "TvOut"} => v \in Kinds
  BY <1>1 DEF Placed
<1>5. em \in [playmode : PlayModes, video_playmode : PlayModes, video_mode : VideoModes,
              overlay_enabled : BOOLEAN, inuse : BOOLEAN, dicom_tvout : Kinds]
  BY <1>1 DEF OutputTypes
<1> HIDE DEF a, v
<1>6. /\ within'[p].at = n /\ within'[p].arg = x /\ DOMAIN within' = Output!Procs
      /\ \A q \in Output!Procs \ {p} : within'[q] = within[q]
  BY <1>2, <1>4
<1>7. \A q \in Output!Procs : Amid(q)' = Amid(q)
  <2>1. Amid(p)' = Head(todo[p]).do /\ Amid(p) = Head(todo[p]).do
    BY <1>2, <1>3, <1>6 DEF Amid, a
  <2>2. \A q \in Output!Procs \ {p} : Amid(q)' = Amid(q)
    BY <1>3, <1>6 DEF Amid
  <2>3. QED BY <2>1, <2>2
<1>8. /\ em'.overlay_enabled = em.overlay_enabled /\ em'.video_mode = em.video_mode
      /\ a \in {"store", "back"} => em'.dicom_tvout = v
      /\ a \notin {"store", "back"} => em'.dicom_tvout = em.dicom_tvout
      /\ em.dicom_tvout \in Kinds
  BY <1>2, <1>5
<1>9. DOMAIN shown = {"tvout", "clock", "frame", "visible"}
  BY <1>1 DEF OutputTypes
<1>10. /\ DOMAIN shown' = DOMAIN shown /\ shown'.clock = shown.clock
       /\ shown'.tvout = shown.tvout
       /\ a = "frame" => shown'.frame = v /\ shown'.visible = shown.visible
       /\ a = "visible" => shown'.frame = shown.frame /\ shown'.visible = v
       /\ a \notin {"frame", "visible"} => shown' = shown
  BY <1>2, <1>9
<1>11. /\ Output!Kind' = Output!Kind /\ Output!Wanted' = Output!Wanted
       /\ Output!Procs' = Output!Procs /\ Kinds' = Kinds /\ "none" \notin Kinds
       /\ \A m : Pends(m)' <=> Pends(m)
  BY <1>3, <1>8 DEF Output!Kind, Output!Wanted, Output!Procs, Kinds, Pends, Pending
<1>12. Placed'
  <2>1. \A q \in Output!Procs \ {p} : todo'[q] = todo[q] /\ within'[q] = within[q]
    BY <1>3, <1>6
  <2>2. /\ todo'[p] # << >>
        /\ \/ /\ Amid(p)' = "dicom_enable"
              /\ within'[p].at \in {"store", "load", "back", "TvOut"}
              /\ within'[p].arg \in Kinds
           \/ /\ Amid(p)' = "dicom_update"
              /\ within'[p].at \in {"frame", "visible", "load", "back", "TvOut"}
              /\ within'[p].at = "load" => within'[p].arg = "none"
              /\ within'[p].at \in {"back", "TvOut"} => within'[p].arg \in Kinds
    BY <1>2, <1>3, <1>4, <1>6, <1>7, <1>8, <1>11
  <2>3. QED BY <1>1, <1>6, <1>7, <1>11, <2>1, <2>2 DEF Placed
<1>13. ASSUME "tvout" \in sure' PROVE TvSure'
  <2>1. TvSure
    BY <1>1, <1>3, <1>13 DEF Following
  <2>2. a # "outside" /\ Amid(p) # "none"
    BY <1>2, <1>4
  <2>3. \A q \in Output!Procs \ {p} : Amid(q) = "none"
    BY <2>1, <2>2 DEF TvSure
  <2>4. \A q \in Output!Procs \ {p} : within'[q].at = "outside" /\ Amid(q)' = "none"
    <3>1. ASSUME NEW q \in Output!Procs \ {p} PROVE within[q].at = "outside"
      BY <1>1, <2>3 DEF Placed
    <3>2. QED BY <1>6, <1>7, <2>3, <3>1
  <2>5. /\ Amid(p) = "dicom_enable" => v = Output!Kind
        /\ (Amid(p) = "dicom_enable" /\ a = "load") \/ a \in {"back", "TvOut"} =>
             v = em.dicom_tvout
        /\ em.dicom_tvout = Output!Kind \/ Pends("dicom_enable")
    BY <2>1 DEF TvSure, a, v
  <2>6. em'.dicom_tvout = Output!Kind' \/ Pends("dicom_enable")'
    BY <1>2, <1>4, <1>8, <1>11, <2>5
  <2>7. /\ Amid(p)' = "dicom_enable" => within'[p].arg = Output!Kind'
        /\ (Amid(p)' = "dicom_enable" /\ n = "load") \/ n \in {"back", "TvOut"} =>
             within'[p].arg = em'.dicom_tvout
    BY <1>2, <1>4, <1>6, <1>7, <1>8, <1>11, <2>5
  <2>8. \A q \in Output!Procs :
          /\ Amid(q)' = "dicom_enable" => within'[q].arg = Output!Kind'
          /\ \/ Amid(q)' = "dicom_enable" /\ within'[q].at = "load"
             \/ within'[q].at \in {"back", "TvOut"}
             => within'[q].arg = em'.dicom_tvout
    BY <1>6, <2>4, <2>7
  <2>9. Amid(p)' # "none"
    BY <1>7, <2>2
  <2>10. QED BY <1>11, <2>4, <2>6, <2>8, <2>9 DEF TvSure
<1>14. ASSUME "size" \in sure' PROVE SizeSure'
  <2>1. SizeSure
    BY <1>1, <1>3, <1>14 DEF Following
  <2>2. CASE Amid(p) = "dicom_update"
    <3>1. Pends("dicom_update")'
      <4>1. ListOK(todo[p]) /\ todo[p] # << >>
        BY <1>1, <1>2, <1>4 DEF OutputTypes
      <4>2. Head(todo[p]) \in Calls(todo[p]) /\ Head(todo[p]).do = "dicom_update"
        BY <2>2, <4>1, Left DEF Amid
      <4>3. Pends("dicom_update")
        BY <4>2 DEF Pends, Pending, Output!Procs
      <4>4. QED BY <1>11, <4>3
    <3>2. /\ a \in {"frame", "visible"} => v = Output!Wanted
          /\ a # "frame" => shown.frame = Output!Wanted
          /\ a \notin {"frame", "visible"} => shown.visible = Output!Wanted
      BY <2>1, <2>2 DEF SizeSure, a, v
    <3>3. /\ n \in {"frame", "visible"} => within'[p].arg = Output!Wanted'
          /\ n # "frame" => shown'.frame = Output!Wanted'
          /\ n \notin {"frame", "visible"} => shown'.visible = Output!Wanted'
      BY <1>2, <1>6, <1>10, <1>11, <3>2
    <3>4. \A q \in Output!Procs : Amid(q)' = "dicom_update" => q = p
      BY <1>7, <2>1, <2>2 DEF SizeSure
    <3>5. QED BY <1>6, <1>11, <3>1, <3>3, <3>4 DEF SizeSure
  <2>3. CASE Amid(p) # "dicom_update"
    <3>1. shown' = shown
      BY <1>2, <1>4, <1>10, <2>3
    <3>2. \A q \in Output!Procs : Amid(q)' = "dicom_update" =>
            Amid(q) = "dicom_update" /\ within'[q] = within[q]
      BY <1>6, <1>7, <2>3
    <3>3. QED BY <1>11, <2>1, <3>1, <3>2 DEF SizeSure
  <2>4. QED BY <2>2, <2>3
<1>15. Following'
  BY <1>13, <1>14 DEF Following
<1>16. em' = em \/ \E k \in Kinds : em' = [em EXCEPT !.dicom_tvout = k]
  BY <1>2, <1>4
<1>17. QED BY ONLY OutputInv, <1>3, <1>10, <1>12, <1>15, <1>16, Unmoved

\* A call of the display controller ends with its output, or before it began.
LEMMA LastStep ==
  ASSUME OutputTypes, Separate, Placed, Following, NEW p \in Output!Procs, todo[p] # << >>,
         Output!DicomTimeout(p) \/ Output!TvOut(p), Now(p) \in Call,
         Pending = {Now(p)} \cup Rest(p), Pending' = Rest(p), DOMAIN todo' = Output!Procs,
         \A q \in Output!Procs \ {p} : todo'[q] = todo[q]
  PROVE  Placed' /\ Following'
<1>1. /\ Pends("dicom_enable") /\ Now(p).do # "dicom_enable" => Pends("dicom_enable")'
      /\ Pends("dicom_update") /\ Now(p).do # "dicom_update" => Pends("dicom_update")'
  BY DEF Pends
<1>2. CASE Output!DicomTimeout(p)
  <2>1. /\ within[p].at = "outside" /\ Now(p).do = "dicom_update" /\ within' = within
        /\ sure' = sure \ {"size"} /\ em' = em /\ shown' = shown
    BY <1>2 DEF Output!DicomTimeout, Output!Make, Output!Inside, Now
  <2>2. Output!Kind' = Output!Kind
    BY <2>1 DEF Output!Kind
  <2>3. Pends("dicom_enable") => Pends("dicom_enable")'
    BY <1>1, <2>1
  <2>4. /\ sure' \subseteq sure /\ em'.dicom_tvout = em.dicom_tvout /\ "size" \notin sure'
        /\ shown'.tvout = shown.tvout /\ shown'.frame = shown.frame
        /\ shown'.visible = shown.visible
    BY <2>1
  <2>5. QED BY <2>1, <2>2, <2>3, <2>4, FollowingKept
<1>3. CASE Output!TvOut(p)
  <2>1. PICK x \in {within[p].arg, em.dicom_tvout} :
          /\ within[p].at = "TvOut" /\ shown' = [shown EXCEPT !.tvout = x]
          /\ within' = [within EXCEPT ![p] = [at |-> "outside", arg |-> "none"]]
          /\ em' = em /\ sure' = sure
    BY <1>3 DEF Output!TvOut, Output!Outside, Output!At
  <2>2. /\ DOMAIN within' = Output!Procs /\ within'[p].at = "outside"
        /\ \A q \in Output!Procs \ {p} : within'[q] = within[q]
    BY <2>1 DEF Placed
  <2>3. DOMAIN shown = {"tvout", "clock", "frame", "visible"}
    BY DEF OutputTypes
  <2>4. shown'.tvout = x /\ shown'.frame = shown.frame /\ shown'.visible = shown.visible
    BY <2>1, <2>3
  <2>5. /\ Amid(p)' = "none" /\ Amid(p) = Now(p).do
        /\ Amid(p) \in {"dicom_disable", "dicom_enable", "dicom_update"}
        /\ \A q \in Output!Procs \ {p} : Amid(q)' = Amid(q)
    BY <2>1, <2>2 DEF Amid, Now, Placed
  <2>6. /\ Output!Kind' = Output!Kind /\ Output!Wanted' = Output!Wanted
        /\ Output!Procs' = Output!Procs /\ Kinds' = Kinds
    BY <2>1 DEF Output!Kind, Output!Wanted, Output!Procs, Kinds
  <2>7. Placed'
    BY <2>2, <2>5, <2>6 DEF Placed
  <2>8. ASSUME "tvout" \in sure' PROVE TvSure'
    <3>1. TvSure
      BY <2>1, <2>8 DEF Following
    <3>2. \A q \in Output!Procs \ {p} : Amid(q)' = "none"
      BY <2>5, <3>1 DEF TvSure
    <3>3. /\ within[p].arg = em.dicom_tvout
          /\ Amid(p) = "dicom_enable" => em.dicom_tvout = Output!Kind
      BY <2>1, <3>1 DEF TvSure
    <3>4. shown'.tvout = em'.dicom_tvout
      BY <2>1, <2>4, <3>3
    <3>5. Now(p).do = "dicom_disable" => Pends("dicom_enable")'
      <4>1. Now(p).do = "dicom_disable" => \E d \in Rest(p) : d.do = "dicom_enable"
        BY After
      <4>2. QED BY <4>1 DEF Pends
    <3>6. em'.dicom_tvout = Output!Kind' \/ Pends("dicom_enable")'
      BY <1>1, <2>1, <2>5, <2>6, <3>1, <3>3, <3>5 DEF TvSure
    <3>7. \A q \in Output!Procs : within'[q].at = "outside" /\ Amid(q)' = "none"
      BY <2>2, <2>5, <2>7, <3>2, <2>6 DEF Placed
    <3>8. QED BY <2>6, <3>4, <3>6, <3>7 DEF TvSure
  <2>9. ASSUME "size" \in sure' PROVE SizeSure'
    <3>1. SizeSure
      BY <2>1, <2>9 DEF Following
    <3>2. \A q \in Output!Procs : Amid(q)' = "dicom_update" =>
            Amid(q) = "dicom_update" /\ within'[q] = within[q]
      BY <2>2, <2>5
    <3>3. \/ shown'.frame = Output!Wanted' /\ shown'.visible = Output!Wanted'
          \/ Pends("dicom_update")'
      BY <1>1, <2>1, <2>4, <2>5, <2>6, <3>1 DEF SizeSure
    <3>4. QED BY <2>4, <2>6, <3>1, <3>2, <3>3 DEF SizeSure
  <2>10. QED BY <2>7, <2>8, <2>9 DEF Following
<1>4. QED BY <1>2, <1>3

\* The clock generator, and the end of a call of the display controller.
LEMMA ShownKeeps ==
  ASSUME OutputInv, NEW p \in Output!Procs,
         Output!Clockgen(p) \/ Output!DicomTimeout(p) \/ Output!TvOut(p)
  PROVE  OutputInv'
<1> DEFINE h == Now(p)
<1>1. OutputTypes /\ Separate /\ Placed /\ LookedUp /\ Following /\ Showing /\ Staleness
  BY DEF OutputInv
<1>2. /\ Output!Make(p, h.do, << >>)
      /\ \/ h.do = "clockgen" /\ Output!Clockgen(p)
         \/ Output!DicomTimeout(p)
         \/ Output!TvOut(p)
  BY DEF Output!Clockgen, Output!DicomTimeout, Output!TvOut, Output!Make, Now
<1>3. em' = em /\ data' = data /\ regs' = regs /\ mixed' = mixed /\ by' = by
  BY DEF Output!Clockgen, Output!DicomTimeout, Output!TvOut
<1>4. /\ todo[p] # << >> /\ h \in Call
      /\ Pending = {h} \cup Rest(p) /\ Pending' = Rest(p) /\ Rest(p) \subseteq Call
      /\ DOMAIN todo' = Output!Procs /\ \A q \in Output!Procs : ListOK(todo'[q])
      /\ \A q \in Output!Procs \ {p} : todo'[q] = todo[q]
      /\ Separate' /\ LookedUp' /\ board' = board
  BY ONLY <1>1, <1>2, p \in Output!Procs, Popped
<1>5. /\ Output!DicomTimeout(p) => h.do = "dicom_update"
      /\ Output!TvOut(p) => h.do \in {"dicom_disable", "dicom_enable", "dicom_update"}
  <2>1. Output!DicomTimeout(p) => h.do = "dicom_update"
    BY DEF Output!DicomTimeout, Output!Make, Now
  <2>2. Output!TvOut(p) => h.do \in {"dicom_disable", "dicom_enable", "dicom_update"}
    BY <1>1 DEF Output!TvOut, Placed, Amid, Now
  <2>3. QED BY <2>1, <2>2
<1>6. DOMAIN shown = {"tvout", "clock", "frame", "visible"}
  BY <1>1 DEF OutputTypes
<1>7. /\ DOMAIN shown' = {"tvout", "clock", "frame", "visible"}
      /\ h.do # "clockgen" => shown'.clock = shown.clock
      /\ h.do = "clockgen" => /\ shown'.clock = h.arg /\ shown'.tvout = shown.tvout
                              /\ shown'.frame = shown.frame /\ shown'.visible = shown.visible
  <2>1. CASE h.do = "clockgen"
    <3>1. shown' = [shown EXCEPT !.clock = h.arg]
      BY <1>2, <1>5, <2>1 DEF Output!Clockgen, Output!Arg, Now
    <3> HIDE DEF h
    <3>2. QED BY <1>6, <2>1, <3>1
  <2>2. CASE h.do # "clockgen"
    <3>1. shown' = shown \/ \E x : shown' = [shown EXCEPT !.tvout = x]
      BY <1>2, <2>2 DEF Output!DicomTimeout, Output!TvOut
    <3> HIDE DEF h
    <3>2. QED BY <1>6, <2>2, <3>1
  <2>3. QED BY <2>1, <2>2
<1>8. OutputTypes'
  BY <1>1, <1>3, <1>4, <1>7 DEF OutputTypes
<1>9. Placed' /\ Following'
  <2>1. CASE h.do = "clockgen"
    <3>1. within' = within /\ sure' = sure
      BY <1>2, <1>5, <2>1 DEF Output!Clockgen
    <3>2. /\ shown'.tvout = shown.tvout /\ shown'.frame = shown.frame
          /\ shown'.visible = shown.visible
      BY <1>7, <2>1
    <3> DEFINE X == {}
    <3>3. Pending = {Now(p)} \cup Rest(p) /\ Pending' = X \cup Rest(p)
      BY <1>4 DEF h
    <3>4. Now(p).do \notin {"dicom_disable", "dicom_enable", "dicom_update"}
      BY <2>1 DEF h
    <3> HIDE DEF X
    <3>5. QED BY ONLY <1>1, <1>3, <1>4, <3>1, <3>2, <3>3, <3>4, p \in Output!Procs, OtherCalls
  <2>2. CASE h.do # "clockgen"
    BY ONLY <1>1, <1>2, <1>4, <2>2, p \in Output!Procs, LastStep DEF h
  <2>3. QED BY <2>1, <2>2
<1> HIDE DEF h
<1>10. ASSUME NEW v \in BOOLEAN, NEW m \in VideoModes, Heading(v, m) PROVE Heading(v, m)'
  <2>1. CASE h.do = "clockgen"
    <3>1. shown'.clock = Kind(v)
      BY <1>4, <1>7, <1>10, <2>1 DEF Heading
    <3>2. /\ \A d \in Pending' : /\ d.do = "overlay_enabled" => d.arg = v
                                 /\ d.do = "clockgen" => d.arg = Kind(v)
                                 /\ d.do \in {"video_mode", "SETMODE"} => d.arg = m
          /\ em.overlay_enabled # v => \E d \in Pending' : d.do = "overlay_enabled"
          /\ em.video_mode # m => \E d \in Pending' : d.do = "video_mode"
          /\ Output!Accepts(m) /\ data.mode # m => \E d \in Pending' : d.do = "SETMODE"
      BY <1>4, <1>10, <2>1 DEF Heading, Pends
    <3>3. Output!Accepts(m)' <=> Output!Accepts(m)
      BY <1>4 DEF Output!Accepts
    <3>4. QED BY <1>3, <3>1, <3>2, <3>3 DEF Heading, Pends
  <2>2. CASE h.do # "clockgen"
    <3>1. shown'.clock = shown.clock /\ data'.mode = data.mode
      BY <1>3, <1>7, <2>2
    <3>2. h.do \notin {"overlay_enabled", "clockgen", "video_mode", "SETMODE"}
      BY <1>2, <1>5, <2>2
    <3> DEFINE X == {}
    <3>3. Pending' = X \cup Rest(p)
      BY <1>4
    <3>4. \A d \in X : d.do \notin {"overlay_enabled", "clockgen", "video_mode", "SETMODE"}
      OBVIOUS
    <3> HIDE DEF X
    <3>5. QED BY ONLY <1>3, <1>4, <1>10, <3>1, <3>2, <3>3, <3>4, HeadingKept
  <2>3. QED BY <2>1, <2>2
<1>11. Showing'
  <2>1. /\ h.do \notin {"ENABLEOUTPUT", "unless_overlay", "playmode", "inuse", "overlay_enabled"}
        /\ data'.enableoutput = data.enableoutput
    BY <1>2, <1>3, <1>5
  <2> DEFINE X == {}
  <2>2. Pending' = X \cup Rest(p)
    BY <1>4
  <2>3. \A d \in X : d.do \notin {"playmode", "inuse"}
    OBVIOUS
  <2> HIDE DEF X
  <2>4. QED BY ONLY <1>1, <1>3, <1>4, <2>1, <2>2, <2>3, ShowingKept
<1>12. Staleness'
  <2>1. \A d : d.do \in {"fetch", "write"} => (d \in Pending <=> d \in Pending')
    BY <1>2, <1>4, <1>5
  <2>2. QED BY ONLY <1>1, <1>3, <1>4, <2>1, StalenessKept
<1>13. QED
  <2>1. \E v \in BOOLEAN, m \in VideoModes : Heading(v, m)
    BY DEF OutputInv
  <2>2. \E v \in BOOLEAN, m \in VideoModes : Heading(v, m)'
    BY <1>10, <2>1
  <2>3. QED BY ONLY <1>4, <1>8, <1>9, <1>11, <1>12, <2>2 DEF OutputInv

\* A process goes on with calls of which none is a write.
LEMMA LookedUpMade ==
  ASSUME LookedUp, board' = board, NEW p \in Output!Procs, todo'[p] \in Seq(Call),
         \A q \in Output!Procs \ {p} : todo'[q] = todo[q],
         board.encoder = "ADV717X" => \A c \in Calls(todo'[p]) : c.do # "write"
  PROVE  LookedUp'
<1> SUFFICES ASSUME board.encoder = "ADV717X", NEW q \in Output!Procs, todo'[q] # << >>,
                    NEW d \in Calls(Tail(todo'[q]))
             PROVE  d.do # "write"
  BY DEF LookedUp
<1>1. CASE q = p
  <2>1. Calls(Tail(todo'[q])) \subseteq Calls(todo'[p])
    BY <1>1, CallsLeft
  <2>2. QED BY <2>1
<1>2. CASE q # p
  BY <1>2 DEF LookedUp
<1>3. QED BY <1>1, <1>2

\* The picture of the video device is switched, unless overlay mode is on.
LEMMA UnlessOverlayKeeps ==
  ASSUME OutputInv, NEW p \in Output!Procs, Output!UnlessOverlay(p)
  PROVE  OutputInv'
<1> DEFINE h == Now(p)
           x == IF em.overlay_enabled THEN << >> ELSE Output!EnableVideoout(h.arg, "switch")
           t == Tail(todo[p])
<1>1. OutputTypes /\ Separate /\ Placed /\ LookedUp /\ Following /\ Showing /\ Staleness
  BY DEF OutputInv
<1>2. /\ Output!Make(p, "unless_overlay", x)
      /\ em' = em /\ shown' = shown /\ data' = data /\ regs' = regs /\ mixed' = mixed /\ by' = by
      /\ within' = within /\ sure' = sure
  BY DEF Output!UnlessOverlay, Output!Arg, Output!em8300_ioctl_enable_videoout, Now
<1>3. todo[p] # << >> /\ h.do = "unless_overlay" /\ h \in Call
  <2>1. todo[p] # << >> /\ Head(todo[p]).do = "unless_overlay" /\ ListOK(todo[p])
    BY <1>1, <1>2 DEF Output!Make, Output!Idle, OutputTypes
  <2>2. QED BY <2>1, Left DEF Now
<1>4. h.arg \in BOOLEAN
  BY <1>3 DEF Call
<1> DEFINE xl == Output!EnableVideoout(h.arg, "switch")
<1>5. /\ xl \in Seq(Call)
      /\ Followed(xl, Named({"dicom_disable", "overlay_enabled"}), Named({"dicom_enable"}))
      /\ \A c \in Calls(xl) : c.do \in {"dicom_disable", "ENABLEOUTPUT", "dicom_enable"}
      /\ \A c \in Calls(xl) : c.do = "ENABLEOUTPUT" => (h.arg => c.arg)
      /\ \E c \in Calls(xl) : c \in Named({"ENABLEOUTPUT"})
  BY <1>1, <1>4, VideooutList
<1>6. /\ h \in Darkens => Calls(t) \cap Excuses # {}
      /\ \A c \in Calls(t) : c.do \notin {"fetch", "write"}
  BY <1>1, <1>3, After
<1> HIDE DEF h
<1>7. h \in Darkens \/ h.arg
  BY <1>3 DEF Darkens, Named
<1>8. ListOK(t) /\ t \in Seq(Call)
  BY <1>1, <1>3, Left DEF OutputTypes
<1>9. ListOK(xl \o t)
  <2>1. Calls(xl) \cap Darkens = {} \/ Calls(t) \cap Excuses # {}
    BY <1>5, <1>6, <1>7 DEF Darkens, Named
  <2>2. /\ Calls(xl) \cap Named({"video_mode", "overlay_enabled"}) = {}
        /\ Calls(xl) \cap LeavesOverlay = {}
        /\ (Calls(xl) \cup Calls(t)) \cap Named({"fetch", "write"}) = {}
        /\ Calls(xl) \cap Named({"playmode", "inuse"}) = {}
    BY <1>5, <1>6 DEF Named, LeavesOverlay
  <2> HIDE DEF xl, t
  <2>3. QED BY ONLY <1>5, <1>8, <2>1, <2>2, Prefixed
<1> HIDE DEF t
<1>10. << >> \in Seq(Call) /\ Calls(<< >>) = {} /\ << >> \o t = t
  BY <1>8, EmptyOK, ConcatEmptySeq
<1>11. /\ x \in Seq(Call) /\ ListOK(x \o t)
       /\ \A c \in Calls(x) : c.do \in {"dicom_disable", "ENABLEOUTPUT", "dicom_enable"}
       /\ ~em.overlay_enabled => \E c \in Calls(x) : c.do = "ENABLEOUTPUT"
  <2>1. CASE em.overlay_enabled
    BY <1>8, <1>10, <2>1
  <2>2. CASE ~em.overlay_enabled
    <3>1. x = xl
      BY <2>2
    <3> HIDE DEF x, xl
    <3>2. QED BY <1>5, <1>9, <3>1 DEF Named
  <2>3. QED BY <2>1, <2>2
<1> HIDE DEF x
<1>12. /\ Pending = {h} \cup Rest(p) /\ Pending' = Calls(x) \cup Rest(p)
       /\ Rest(p) \subseteq Call /\ DOMAIN todo' = Output!Procs
       /\ todo'[p] = x \o t /\ Calls(todo'[p]) = Calls(x) \cup Calls(t)
       /\ \A q \in Output!Procs \ {p} : todo'[q] = todo[q]
       /\ board' = board
  BY <1>1, <1>2, <1>11, Made DEF h, t
<1>13. (\A q \in Output!Procs : ListOK(todo'[q])) /\ Separate'
  <2>1. \A d \in Calls(x) :
          /\ d.do \notin {"inuse", "unless_overlay", "clockgen", "overlay_enabled",
                          "video_mode", "SETMODE", "playmode"}
    BY <1>11
  <2>2. ListOK(x \o Tail(todo[p]))
    BY <1>11 DEF t
  <2>3. QED BY ONLY <1>1, <1>2, <1>11, <2>1, <2>2, p \in Output!Procs, Lists
<1>14. LookedUp'
  <2>1. \A c \in Calls(todo'[p]) : c.do # "write"
    BY <1>6, <1>11, <1>12 DEF t
  <2>2. todo'[p] \in Seq(Call)
    BY <1>13 DEF ListOK
  <2>3. QED BY ONLY <1>1, <1>12, <2>1, <2>2, p \in Output!Procs, LookedUpMade
<1>15. OutputTypes'
  BY <1>1, <1>2, <1>12, <1>13 DEF OutputTypes
<1>16. Placed' /\ Following'
  <2>1. /\ within' = within /\ sure' = sure /\ em' = em /\ shown'.tvout = shown.tvout
        /\ shown'.frame = shown.frame /\ shown'.visible = shown.visible
    BY <1>2
  <2>2. /\ Now(p).do \notin {"dicom_disable", "dicom_enable", "dicom_update"}
        /\ Pending = {Now(p)} \cup Rest(p)
    BY <1>3, <1>12 DEF h
  <2>3. QED BY ONLY <1>1, <1>3, <1>12, <2>1, <2>2, p \in Output!Procs, OtherCalls
<1>17. ASSUME NEW v \in BOOLEAN, NEW m \in VideoModes, Heading(v, m) PROVE Heading(v, m)'
  <2>1. /\ h.do \notin {"overlay_enabled", "clockgen", "video_mode", "SETMODE"}
        /\ \A c \in Calls(x) :
             c.do \notin {"overlay_enabled", "clockgen", "video_mode", "SETMODE"}
        /\ shown'.clock = shown.clock /\ data'.mode = data.mode
    BY <1>2, <1>3, <1>11
  <2>2. QED BY ONLY <1>2, <1>12, <1>17, <2>1, HeadingKept
<1>18. Showing'
  <2>1. em.overlay_enabled \/ \E c \in Pending' : c.do = "ENABLEOUTPUT"
    BY <1>11, <1>12
  <2>2. QED BY <1>2, <2>1 DEF Showing, Due, Pends
<1>19. Staleness'
  <2>1. \A d : d.do \in {"fetch", "write"} => (d \in Pending <=> d \in Pending')
    BY <1>3, <1>11, <1>12
  <2>2. QED BY ONLY <1>1, <1>2, <1>12, <2>1, StalenessKept
<1>20. QED
  <2>1. \E v \in BOOLEAN, m \in VideoModes : Heading(v, m)
    BY DEF OutputInv
  <2>2. \E v \in BOOLEAN, m \in VideoModes : Heading(v, m)'
    BY <1>17, <2>1
  <2>3. QED BY ONLY <1>13, <1>14, <1>15, <1>16, <1>18, <1>19, <2>2 DEF OutputInv

\* The calls of an update of the encoder for the data d.
LEMMA UpdateList ==
  ASSUME OutputTypes, NEW d \in [mode : VideoModes, enableoutput : BOOLEAN],
         NEW x, x = Output!Updates(d)
  PROVE  /\ x \in Seq(Call)
         /\ \A c \in Calls(x) : c.do \in {"fetch", "write"}
         /\ \A r \in Output!Registers : \E c \in Calls(x) : c.reg = r
         /\ \A c \in Calls(x) : c.do = "write" => c.val = Output!Image(d, c.reg)
         /\ board.encoder = "ADV717X" => \A c \in Calls(x) : c.do # "write"
<1> DEFINE o == Output!Order
           n == Len(o)
           wr(r) == [do |-> "write", reg |-> r, val |-> Output!Image(d, r)]
           fe(r) == [do |-> "fetch", reg |-> r]
<1>1. /\ n \in Nat /\ \A i \in 1 .. n : o[i] \in Output!Registers
      /\ \A r \in Output!Registers : \E i \in 1 .. n : o[i] = r
  <2> DEFINE six == <<"MR0", "MR1", "TR0", "TR0", "TR0", "TR0">>
             three == <<"MR0", "MR1", "TR0">>
  <2>1. o = six \/ o = three
    BY DEF Output!Order
  <2>2. /\ Len(six) = 6 /\ six[1] = "MR0" /\ six[2] = "MR1" /\ six[3] = "TR0"
        /\ six[4] = "TR0" /\ six[5] = "TR0" /\ six[6] = "TR0"
    OBVIOUS
  <2>3. Len(three) = 3 /\ three[1] = "MR0" /\ three[2] = "MR1" /\ three[3] = "TR0"
    OBVIOUS
  <2>4. 1 .. 6 = {1, 2, 3, 4, 5, 6} /\ 1 .. 3 = {1, 2, 3}
    OBVIOUS
  <2> HIDE DEF six, three, o
  <2>5. CASE o = six
    <3>1. n = 6 /\ \A i \in 1 .. n : o[i] \in Output!Registers
      BY ONLY <2>2, <2>4, <2>5 DEF Output!Registers
    <3>2. /\ o[1] = "MR0" /\ o[2] = "MR1" /\ o[3] = "TR0"
          /\ 1 \in 1 .. n /\ 2 \in 1 .. n /\ 3 \in 1 .. n
      BY ONLY <2>2, <2>5, <3>1
    <3>3. QED BY ONLY <3>1, <3>2 DEF Output!Registers
  <2>6. CASE o = three
    <3>1. n = 3 /\ \A i \in 1 .. n : o[i] \in Output!Registers
      BY ONLY <2>3, <2>4, <2>6 DEF Output!Registers
    <3>2. /\ o[1] = "MR0" /\ o[2] = "MR1" /\ o[3] = "TR0"
          /\ 1 \in 1 .. n /\ 2 \in 1 .. n /\ 3 \in 1 .. n
      BY ONLY <2>3, <2>6, <3>1
    <3>3. QED BY ONLY <3>1, <3>2 DEF Output!Registers
  <2>7. QED BY <2>1, <2>5, <2>6
<1>2. ASSUME NEW r \in Output!Registers
      PROVE  /\ wr(r) \in Call /\ wr(r).do = "write" /\ wr(r).reg = r
             /\ wr(r).val = Output!Image(d, r)
             /\ fe(r) \in Call /\ fe(r).do = "fetch" /\ fe(r).reg = r
  <2>1. Output!Image(d, r) \in Image
    <3>1. (r = "MR1" => d.enableoutput) \in BOOLEAN /\ d.mode \in VideoModes
      OBVIOUS
    <3>2. QED BY ONLY <3>1 DEF Output!Image, Image
  <2> DEFINE im == Output!Image(d, r)
  <2>2. im \in Image
    BY <2>1
  <2> HIDE DEF im
  <2>3. wr(r) = [do |-> "write", reg |-> r, val |-> im]
    BY DEF im
  <2>4. wr(r) \in Call /\ wr(r).do = "write" /\ wr(r).reg = r /\ wr(r).val = im
    BY <2>2, <2>3 DEF Call
  <2>5. fe(r) \in Call /\ fe(r).do = "fetch" /\ fe(r).reg = r
    BY DEF Call
  <2>6. QED BY <2>4, <2>5 DEF im
<1>3. /\ board.encoder = "BT865" => x = [i \in 1 .. n |-> wr(o[i])]
      /\ board.encoder # "BT865" => x = [i \in 1 .. n |-> fe(o[i])]
  BY DEF Output!Updates
<1> HIDE DEF o, n, wr, fe
<1>4. CASE board.encoder = "BT865"
  <2>1. x = [i \in 1 .. n |-> wr(o[i])]
    BY <1>3, <1>4
  <2>2. \A i \in 1 .. n : wr(o[i]) \in Call
    BY <1>1, <1>2
  <2>3. x \in Seq(Call) /\ Len(x) = n
    BY <1>1, <2>1, <2>2
  <2>4. Calls(x) = {wr(o[i]) : i \in 1 .. n}
    BY <2>1, <2>3 DEF Calls
  <2>5. /\ \A c \in Calls(x) : c.do = "write" /\ c.val = Output!Image(d, c.reg)
        /\ \A r \in Output!Registers : \E c \in Calls(x) : c.reg = r
    <3>1. ASSUME NEW c \in Calls(x) PROVE c.do = "write" /\ c.val = Output!Image(d, c.reg)
      <4>1. PICK i \in 1 .. n : c = wr(o[i])
        BY <2>4
      <4>2. QED BY <1>1, <1>2, <4>1
    <3>2. ASSUME NEW r \in Output!Registers PROVE \E c \in Calls(x) : c.reg = r
      <4>1. PICK i \in 1 .. n : o[i] = r
        BY <1>1
      <4>2. QED BY <1>2, <2>4, <4>1
    <3>3. QED BY <3>1, <3>2
  <2>6. QED BY <1>4, <2>3, <2>5
<1>5. CASE board.encoder # "BT865"
  <2>1. x = [i \in 1 .. n |-> fe(o[i])]
    BY <1>3, <1>5
  <2>2. \A i \in 1 .. n : fe(o[i]) \in Call
    BY <1>1, <1>2
  <2>3. x \in Seq(Call) /\ Len(x) = n
    BY <1>1, <2>1, <2>2
  <2>4. Calls(x) = {fe(o[i]) : i \in 1 .. n}
    BY <2>1, <2>3 DEF Calls
  <2>5. /\ \A c \in Calls(x) : c.do = "fetch"
        /\ \A r \in Output!Registers : \E c \in Calls(x) : c.reg = r
    <3>1. ASSUME NEW c \in Calls(x) PROVE c.do = "fetch"
      <4>1. PICK i \in 1 .. n : c = fe(o[i])
        BY <2>4
      <4>2. QED BY <1>1, <1>2, <4>1
    <3>2. ASSUME NEW r \in Output!Registers PROVE \E c \in Calls(x) : c.reg = r
      <4>1. PICK i \in 1 .. n : o[i] = r
        BY <1>1
      <4>2. QED BY <1>2, <2>4, <4>1
    <3>3. QED BY <3>1, <3>2
  <2>6. QED BY <2>3, <2>5
<1>6. QED BY <1>4, <1>5

\* A list that writes registers, put before another.
LEMMA UpdatesFirst ==
  ASSUME NEW a \in Seq(Call), NEW b, ListOK(b), \A c \in Calls(a) : c.do \in {"fetch", "write"}
  PROVE  ListOK(a \o b)
<1>1. Calls(a) \subseteq Call
  BY DEF Calls
<1>2. /\ Calls(a) \subseteq Named({"fetch", "write"})
      /\ Calls(a) \cap Named({"playmode", "inuse"}) = {}
      /\ Calls(a) \cap LeavesOverlay = {} /\ Calls(a) \cap Darkens = {}
      /\ Calls(a) \cap Named({"video_mode", "overlay_enabled"}) = {}
      /\ Calls(a) \cap Named({"dicom_disable", "overlay_enabled"}) = {}
  BY <1>1 DEF Named, LeavesOverlay, Darkens
<1>3. Followed(a, Named({"dicom_disable", "overlay_enabled"}), Named({"dicom_enable"}))
  BY <1>2 DEF Followed, Calls
<1>4. QED BY ONLY a \in Seq(Call), ListOK(b), <1>2, <1>3, Prefixed

\* The process that is not p, when it is not updating registers, has none to write.
LEMMA NotUpdating ==
  ASSUME OutputTypes, Separate, LookedUp, NEW p \in Output!Procs,
         todo[p] # << >>, Now(p).do \notin {"fetch", "write"}
  PROVE  /\ ~(\E q \in Output!Procs \ {p} : Output!Updating(q)) =>
              \A c \in Rest(p) : c.do \notin {"fetch", "write"}
         /\ board.encoder = "ADV717X" =>
              \E r \in Output!Registers : \A c \in Rest(p) : c.do = "write" => c.reg = r
<1> DEFINE q == IF p = "ioctl" THEN "file" ELSE "ioctl"
<1>1. /\ q \in Output!Procs \ {p}
      /\ Rest(p) = Calls(Tail(todo[p])) \cup Calls(todo[q])
  BY DEF Output!Procs, Rest
<1>2. \A c \in Calls(Tail(todo[p])) : c.do \notin {"fetch", "write"}
  BY After
<1> HIDE DEF q
<1>3. CASE todo[q] = << >>
  <2>1. Calls(todo[q]) = {}
    BY <1>3, EmptyOK
  <2>2. "MR0" \in Output!Registers
    BY DEF Output!Registers
  <2>3. QED BY <1>1, <1>2, <2>1, <2>2
<1>4. CASE todo[q] # << >>
  <2>1. /\ Head(todo[q]) \in Call
        /\ Calls(todo[q]) = {Head(todo[q])} \cup Calls(Tail(todo[q]))
    BY <1>1, <1>4, Left DEF OutputTypes
  <2>2. Head(todo[q]).do \notin {"fetch", "write"} =>
          \A c \in Calls(Tail(todo[q])) : c.do \notin {"fetch", "write"}
    BY <1>1, <1>4, After DEF Now
  <2>3. Output!Updating(q) <=> Head(todo[q]).do \in {"fetch", "write"}
    BY <1>4 DEF Output!Updating, Output!Idle
  <2>4. board.encoder = "ADV717X" => \A c \in Calls(Tail(todo[q])) : c.do # "write"
    BY <1>1, <1>4 DEF LookedUp
  <2>5. Head(todo[q]).do = "write" => Head(todo[q]).reg \in Output!Registers
    BY <2>1 DEF Call
  <2>6. "MR0" \in Output!Registers
    BY DEF Output!Registers
  <2>7. ~(\E k \in Output!Procs \ {p} : Output!Updating(k)) =>
          \A c \in Rest(p) : c.do \notin {"fetch", "write"}
    BY ONLY <1>1, <1>2, <2>1, <2>2, <2>3
  <2>8. ASSUME board.encoder = "ADV717X"
        PROVE  \E r \in Output!Registers : \A c \in Rest(p) : c.do = "write" => c.reg = r
    <3>1. CASE Head(todo[q]).do = "write"
      BY ONLY <1>1, <1>2, <2>1, <2>4, <2>5, <2>8, <3>1
    <3>2. CASE Head(todo[q]).do # "write"
      BY ONLY <1>1, <1>2, <2>1, <2>4, <2>6, <2>8, <3>2
    <3>3. QED BY <3>1, <3>2
  <2>9. QED BY <2>7, <2>8
<1>5. QED BY <1>3, <1>4

\* A command of the encoder: what it asks for is written register by register.
LEMMA CommandKeeps ==
  ASSUME OutputInv, NEW p \in Output!Procs, Output!Command(p)
  PROVE  OutputInv'
<1> DEFINE h == Now(p)
           t == Tail(todo[p])
           d == IF h.do = "ENABLEOUTPUT" THEN [data EXCEPT !.enableoutput = h.arg]
                ELSE IF Output!Accepts(h.arg) THEN [data EXCEPT !.mode = h.arg] ELSE data
           x == Output!Updates(d)
<1>1. OutputTypes /\ Separate /\ Placed /\ LookedUp /\ Following /\ Showing /\ Staleness
  BY DEF OutputInv
<1>2. /\ h.do \in {"ENABLEOUTPUT", "SETMODE"} /\ Output!Make(p, h.do, x)
      /\ data' = d /\ by' = (IF h.do = "ENABLEOUTPUT" THEN h.by ELSE by)
      /\ mixed' = (\E q \in Output!Procs \ {p} : Output!Updating(q))
      /\ em' = em /\ shown' = shown /\ regs' = regs /\ within' = within /\ sure' = sure
  BY DEF Output!Command, Output!Arg, Now
<1>3. todo[p] # << >> /\ h \in Call /\ ListOK(t) /\ t \in Seq(Call)
  <2>1. todo[p] # << >> /\ ListOK(todo[p])
    BY <1>1, <1>2 DEF Output!Make, Output!Idle, OutputTypes
  <2>2. QED BY <2>1, Left DEF Now
<1>4. /\ h \in Darkens => Rest(p) \cap Excuses # {}
      /\ \A c \in Calls(t) : c.do \notin {"fetch", "write"}
  BY <1>1, <1>2, <1>3, After
<1>5. /\ ~(\E q \in Output!Procs \ {p} : Output!Updating(q)) =>
           \A c \in Rest(p) : c.do \notin {"fetch", "write"}
      /\ board.encoder = "ADV717X" =>
           \E r \in Output!Registers : \A c \in Rest(p) : c.do = "write" => c.reg = r
  <2>1. todo[p] # << >> /\ Now(p).do \notin {"fetch", "write"}
    BY <1>2, <1>3
  <2>2. QED BY ONLY <1>1, <2>1, p \in Output!Procs, NotUpdating
<1> HIDE DEF h
<1>6. /\ h.do = "ENABLEOUTPUT" => h.arg \in BOOLEAN /\ h.by \in {"switch", "overlay"}
      /\ h.do = "SETMODE" => h.arg \in VideoModes
  BY <1>3 DEF Call
<1>7. data \in [mode : VideoModes, enableoutput : BOOLEAN]
  BY <1>1 DEF OutputTypes
<1>8. /\ d \in [mode : VideoModes, enableoutput : BOOLEAN]
      /\ h.do = "ENABLEOUTPUT" => d.mode = data.mode /\ d.enableoutput = h.arg
      /\ h.do = "SETMODE" => /\ d.enableoutput = data.enableoutput
                             /\ d.mode = IF Output!Accepts(h.arg) THEN h.arg ELSE data.mode
  <2>1. CASE h.do = "ENABLEOUTPUT"
    <3>1. d = [data EXCEPT !.enableoutput = h.arg] /\ h.arg \in BOOLEAN
      BY <1>6, <2>1
    <3> HIDE DEF d
    <3>2. QED BY <1>7, <2>1, <3>1
  <2>2. CASE h.do = "SETMODE"
    <3>1. /\ d = IF Output!Accepts(h.arg) THEN [data EXCEPT !.mode = h.arg] ELSE data
          /\ h.arg \in VideoModes
      BY <1>6, <2>2
    <3> HIDE DEF d
    <3>2. QED BY <1>7, <2>2, <3>1
  <2>3. QED BY <1>2, <2>1, <2>2
<1> HIDE DEF d
<1>9. /\ x \in Seq(Call)
      /\ \A c \in Calls(x) : c.do \in {"fetch", "write"}
      /\ \A r \in Output!Registers : \E c \in Calls(x) : c.reg = r
      /\ \A c \in Calls(x) : c.do = "write" => c.val = Output!Image(d, c.reg)
      /\ board.encoder = "ADV717X" => \A c \in Calls(x) : c.do # "write"
  BY <1>1, <1>8, UpdateList
<1> HIDE DEF x
<1>10. ListOK(x \o t)
  BY ONLY <1>3, <1>9, UpdatesFirst
<1>11. /\ Pending = {h} \cup Rest(p) /\ Pending' = Calls(x) \cup Rest(p)
       /\ Rest(p) \subseteq Call /\ DOMAIN todo' = Output!Procs
       /\ todo'[p] = x \o t /\ Calls(todo'[p]) = Calls(x) \cup Calls(t)
       /\ \A q \in Output!Procs \ {p} : todo'[q] = todo[q]
       /\ board' = board
  BY <1>1, <1>2, <1>9, Made DEF h, t
<1>12. (\A q \in Output!Procs : ListOK(todo'[q])) /\ Separate'
  <2>1. \A c \in Calls(x) :
          /\ c.do \notin {"inuse", "unless_overlay", "clockgen", "overlay_enabled",
                          "video_mode", "SETMODE", "playmode"}
    BY <1>9
  <2>2. ListOK(x \o Tail(todo[p]))
    BY <1>10
  <2>3. QED BY ONLY <1>1, <1>2, <1>9, <2>1, <2>2, p \in Output!Procs, Lists
<1>13. LookedUp'
  <2>1. board.encoder = "ADV717X" => \A c \in Calls(todo'[p]) : c.do # "write"
    BY <1>4, <1>9, <1>11
  <2>2. todo'[p] \in Seq(Call)
    BY <1>12 DEF ListOK
  <2>3. QED BY ONLY <1>1, <1>11, <2>1, <2>2, p \in Output!Procs, LookedUpMade
<1>14. OutputTypes'
  BY <1>1, <1>2, <1>8, <1>11, <1>12 DEF OutputTypes
<1>15. Placed' /\ Following'
  <2>1. /\ within' = within /\ sure' = sure /\ em' = em /\ shown'.tvout = shown.tvout
        /\ shown'.frame = shown.frame /\ shown'.visible = shown.visible
    BY <1>2
  <2>2. /\ Now(p).do \notin {"dicom_disable", "dicom_enable", "dicom_update"}
        /\ Pending = {Now(p)} \cup Rest(p)
    BY <1>2, <1>11 DEF h
  <2>3. QED BY ONLY <1>1, <1>3, <1>11, <2>1, <2>2, p \in Output!Procs, OtherCalls
<1>16. ASSUME NEW v \in BOOLEAN, NEW m \in VideoModes, Heading(v, m) PROVE Heading(v, m)'
  <2>1. CASE h.do = "ENABLEOUTPUT"
    <3>1. /\ h.do \notin {"overlay_enabled", "clockgen", "video_mode", "SETMODE"}
          /\ \A c \in Calls(x) :
               c.do \notin {"overlay_enabled", "clockgen", "video_mode", "SETMODE"}
          /\ shown'.clock = shown.clock /\ data'.mode = data.mode
      BY <1>2, <1>8, <1>9, <2>1
    <3>2. QED BY ONLY <1>2, <1>11, <1>16, <3>1, HeadingKept
  <2>2. CASE h.do = "SETMODE"
    <3>1. h.arg = m
      BY <1>11, <1>16, <2>2 DEF Heading
    <3>2. Output!Accepts(m) => data'.mode = m
      BY <1>2, <1>8, <2>2, <3>1
    <3>3. \A c \in Pending' : /\ c.do = "overlay_enabled" => c.arg = v
                              /\ c.do = "clockgen" => c.arg = Kind(v)
                              /\ c.do \in {"video_mode", "SETMODE"} => c.arg = m
      BY <1>9, <1>11, <1>16 DEF Heading
    <3>4. /\ em.overlay_enabled # v => \E c \in Pending' : c.do = "overlay_enabled"
          /\ shown.clock # Kind(v) => \E c \in Pending' : c.do = "clockgen"
          /\ em.video_mode # m => \E c \in Pending' : c.do = "video_mode"
      BY <1>11, <1>16, <2>2 DEF Heading, Pends
    <3>5. Output!Accepts(m)' <=> Output!Accepts(m)
      BY <1>11 DEF Output!Accepts
    <3>6. QED BY <1>2, <3>2, <3>3, <3>4, <3>5 DEF Heading, Pends
  <2>3. QED BY <1>2, <2>1, <2>2
<1>17. Showing'
  <2>1. CASE h.do = "ENABLEOUTPUT"
    <3> SUFFICES ASSUME Due' PROVE data'.enableoutput \/ by' \in {"overlay", "pause"}
      BY DEF Showing
    <3>1. Rest(p) \cap Excuses = {}
      BY <1>11 DEF Due
    <3>2. h.arg \/ h.by = "overlay"
      BY <1>3, <1>4, <2>1, <3>1 DEF Darkens, Named
    <3>3. QED BY <1>2, <1>8, <2>1, <3>2
  <2>2. CASE h.do = "SETMODE"
    <3>1. /\ h.do \notin {"ENABLEOUTPUT", "unless_overlay", "playmode", "inuse", "overlay_enabled"}
          /\ \A c \in Calls(x) : c.do \notin {"playmode", "inuse"}
          /\ data'.enableoutput = data.enableoutput /\ by' = by
      BY <1>2, <1>8, <1>9, <2>2
    <3>2. QED BY ONLY <1>1, <1>2, <1>11, <3>1, ShowingKept
  <2>3. QED BY <1>2, <2>1, <2>2
<1>18. Staleness'
  <2>1. ASSUME NEW B, \A c \in Rest(p) : c.do = "write" => c.reg \in B
        PROVE  Fresh(B)'
    <3> SUFFICES ASSUME NEW r \in Output!Registers \ B
                 PROVE  /\ \E c \in Pending' : c.do \in {"fetch", "write"} /\ c.reg = r
                        /\ \A c \in Pending' : c.do = "write" /\ c.reg = r =>
                             c.val = Output!Image(data', r)
      BY DEF Fresh, Output!Image, Output!Registers
    <3>1. \E c \in Pending' : c.do \in {"fetch", "write"} /\ c.reg = r
      BY <1>9, <1>11
    <3>2. ASSUME NEW c \in Pending', c.do = "write", c.reg = r
          PROVE  c.val = Output!Image(data', r)
      BY <1>2, <1>9, <1>11, <2>1, <3>2
    <3>3. QED BY <3>1, <3>2
  <2>2. ASSUME ~mixed' PROVE Fresh({})'
    <3>1. \A c \in Rest(p) : c.do = "write" => c.reg \in {}
      BY <1>2, <1>5, <2>2
    <3>2. QED BY <2>1, <3>1
  <2>3. ASSUME board.encoder = "ADV717X" PROVE \E r \in Output!Registers : Fresh({r})'
    <3>1. PICK r \in Output!Registers : \A c \in Rest(p) : c.do = "write" => c.reg = r
      BY <1>5, <2>3
    <3>2. \A c \in Rest(p) : c.do = "write" => c.reg \in {r}
      BY <3>1
    <3>3. Fresh({r})'
      BY <2>1, <3>2
    <3>4. QED BY <3>3
  <2>4. QED BY <1>11, <2>2, <2>3 DEF Staleness, Output!Registers
<1>19. QED
  <2>1. \E v \in BOOLEAN, m \in VideoModes : Heading(v, m)
    BY DEF OutputInv
  <2>2. \E v \in BOOLEAN, m \in VideoModes : Heading(v, m)'
    BY <1>16, <2>1
  <2>3. QED BY ONLY <1>12, <1>13, <1>14, <1>15, <1>17, <1>18, <2>2 DEF OutputInv

\* A register is written, with what was looked up for it.
LEMMA WriteKeeps ==
  ASSUME OutputInv, NEW p \in Output!Procs, Output!Write(p)
  PROVE  OutputInv'
<1> DEFINE h == Now(p)
<1>1. OutputTypes /\ Separate /\ Placed /\ LookedUp /\ Following /\ Showing /\ Staleness
  BY DEF OutputInv
<1>2. /\ Output!Make(p, "write", << >>)
      /\ regs' = [regs EXCEPT ![h.reg] = h.val]
      /\ em' = em /\ shown' = shown /\ data' = data /\ by' = by /\ mixed' = mixed
      /\ within' = within /\ sure' = sure
  BY DEF Output!Write, Now
<1>3. /\ todo[p] # << >> /\ h \in Call /\ h.do = "write"
      /\ Pending = {h} \cup Rest(p) /\ Pending' = Rest(p) /\ Rest(p) \subseteq Call
      /\ DOMAIN todo' = Output!Procs /\ \A q \in Output!Procs : ListOK(todo'[q])
      /\ \A q \in Output!Procs \ {p} : todo'[q] = todo[q]
      /\ Separate' /\ LookedUp' /\ board' = board
  BY ONLY <1>1, <1>2, p \in Output!Procs, Popped
<1> HIDE DEF h
<1>4. DOMAIN regs = Output!Registers
  BY <1>1 DEF OutputTypes
<1>5. OutputTypes'
  BY <1>1, <1>2, <1>3, <1>4 DEF OutputTypes
<1> DEFINE x == {}
<1>6. /\ Pending' = x \cup Rest(p)
      /\ h.do \notin {"overlay_enabled", "clockgen", "video_mode", "SETMODE"}
      /\ h.do \notin {"ENABLEOUTPUT", "unless_overlay", "playmode", "inuse", "overlay_enabled"}
      /\ \A c \in x : c.do \notin {"overlay_enabled", "clockgen", "video_mode", "SETMODE"}
      /\ \A c \in x : c.do \notin {"playmode", "inuse"}
      /\ data'.enableoutput = data.enableoutput /\ data'.mode = data.mode
      /\ shown'.clock = shown.clock
  BY <1>2, <1>3
<1> HIDE DEF x
<1>7. Placed' /\ Following'
  <2>1. /\ within' = within /\ sure' = sure /\ em' = em /\ shown'.tvout = shown.tvout
        /\ shown'.frame = shown.frame /\ shown'.visible = shown.visible
    BY <1>2
  <2>2. /\ Now(p).do \notin {"dicom_disable", "dicom_enable", "dicom_update"}
        /\ Pending = {Now(p)} \cup Rest(p)
    BY <1>3 DEF h
  <2>3. QED BY ONLY <1>1, <1>3, <1>6, <2>1, <2>2, p \in Output!Procs, OtherCalls
<1>8. ASSUME NEW v \in BOOLEAN, NEW m \in VideoModes, Heading(v, m) PROVE Heading(v, m)'
  BY ONLY <1>2, <1>3, <1>6, <1>8, HeadingKept
<1>9. Showing'
  BY ONLY <1>1, <1>2, <1>3, <1>6, ShowingKept
<1>10. Staleness'
  <2>1. ASSUME NEW B, Fresh(B) PROVE Fresh(B)'
    <3> SUFFICES ASSUME NEW r \in Output!Registers \ B
                 PROVE  /\ \/ regs'[r] = Output!Image(data, r)
                           \/ \E c \in Pending' : c.do \in {"fetch", "write"} /\ c.reg = r
                        /\ \A c \in Pending' :
                             c.do = "write" /\ c.reg = r => c.val = Output!Image(data, r)
      BY <1>2 DEF Fresh, Output!Image, Output!Registers
    <3>1. /\ \/ regs[r] = Output!Image(data, r)
             \/ \E c \in Pending : c.do \in {"fetch", "write"} /\ c.reg = r
          /\ \A c \in Pending : c.do = "write" /\ c.reg = r => c.val = Output!Image(data, r)
      BY <2>1 DEF Fresh
    <3>2. CASE h.reg = r
      <4>1. regs'[r] = h.val /\ h.val = Output!Image(data, r)
        BY <1>2, <1>3, <1>4, <3>1, <3>2
      <4>2. QED BY <1>3, <3>1, <4>1
    <3>3. CASE h.reg # r
      <4>1. regs'[r] = regs[r]
        BY <1>2, <1>4, <3>3
      <4>2. QED BY <1>3, <3>1, <3>3, <4>1
    <3>4. QED BY <3>2, <3>3
  <2>2. /\ ~mixed => Fresh({})
        /\ board.encoder = "ADV717X" => \E r \in Output!Registers : Fresh({r})
    BY <1>1 DEF Staleness
  <2>3. /\ ~mixed => Fresh({})'
        /\ board.encoder = "ADV717X" => \E r \in Output!Registers : Fresh({r})'
    BY <2>1, <2>2
  <2>4. QED BY <1>2, <1>3, <2>3 DEF Staleness, Output!Registers
<1>11. QED
  <2>1. \E v \in BOOLEAN, m \in VideoModes : Heading(v, m)
    BY DEF OutputInv
  <2>2. \E v \in BOOLEAN, m \in VideoModes : Heading(v, m)'
    BY <1>8, <2>1
  <2>3. QED BY ONLY <1>3, <1>5, <1>7, <1>9, <1>10, <2>2 DEF OutputInv

\* A value is looked up, to be written next.
LEMMA FetchKeeps ==
  ASSUME OutputInv, NEW p \in Output!Procs, Output!Fetch(p)
  PROVE  OutputInv'
<1> DEFINE h == Now(p)
           t == Tail(todo[p])
           im == Output!Image(data, h.reg)
           w == [do |-> "write", reg |-> h.reg, val |-> im]
           x == <<w>>
<1>1. OutputTypes /\ Separate /\ Placed /\ LookedUp /\ Following /\ Showing /\ Staleness
  BY DEF OutputInv
<1>2. /\ Output!Make(p, "fetch", x)
      /\ em' = em /\ shown' = shown /\ data' = data /\ by' = by /\ mixed' = mixed
      /\ regs' = regs /\ within' = within /\ sure' = sure
  BY DEF Output!Fetch, Now
<1>3. todo[p] # << >> /\ h.do = "fetch" /\ h \in Call /\ ListOK(t) /\ t \in Seq(Call)
  <2>1. todo[p] # << >> /\ Head(todo[p]).do = "fetch" /\ ListOK(todo[p])
    BY <1>1, <1>2 DEF Output!Make, Output!Idle, OutputTypes
  <2>2. QED BY <2>1, Left DEF Now
<1> HIDE DEF h
<1>4. h.reg \in Output!Registers
  BY <1>3 DEF Call
<1>5. im \in Image
  <2>1. data.mode \in VideoModes /\ (h.reg = "MR1" => data.enableoutput) \in BOOLEAN
    BY <1>1 DEF OutputTypes
  <2>2. QED BY ONLY <2>1 DEF Output!Image, Image
<1> HIDE DEF im
<1>6. w \in Call /\ w.do = "write" /\ w.reg = h.reg /\ w.val = im
  BY <1>4, <1>5 DEF Call
<1> HIDE DEF w
<1>7. x \in Seq(Call) /\ Calls(x) = {w}
  BY <1>6 DEF Calls
<1> HIDE DEF x
<1>8. \A c \in Calls(x) : c.do \in {"fetch", "write"}
  BY <1>6, <1>7
<1>9. ListOK(x \o t)
  BY ONLY <1>3, <1>7, <1>8, UpdatesFirst
<1>10. /\ Pending = {h} \cup Rest(p) /\ Pending' = Calls(x) \cup Rest(p)
       /\ Rest(p) \subseteq Call /\ DOMAIN todo' = Output!Procs
       /\ todo'[p] = x \o t /\ \A q \in Output!Procs \ {p} : todo'[q] = todo[q]
       /\ board' = board
  BY <1>1, <1>2, <1>7, Made DEF h, t
<1>11. (\A q \in Output!Procs : ListOK(todo'[q])) /\ Separate'
  <2>1. \A c \in Calls(x) :
          /\ c.do \notin {"inuse", "unless_overlay", "clockgen", "overlay_enabled",
                          "video_mode", "SETMODE", "playmode"}
    BY <1>8
  <2>2. ListOK(x \o Tail(todo[p]))
    BY <1>9
  <2>3. QED BY ONLY <1>1, <1>2, <1>7, <2>1, <2>2, p \in Output!Procs, Lists
<1>12. LookedUp'
  <2> SUFFICES ASSUME board.encoder = "ADV717X", NEW q \in Output!Procs, todo'[q] # << >>,
                      NEW c \in Calls(Tail(todo'[q]))
               PROVE  c.do # "write"
    BY <1>10 DEF LookedUp
  <2>1. CASE q = p
    <3>1. Tail(<<w>> \o t) = t
      BY <1>3, <1>6
    <3>2. Tail(todo'[p]) = t
      BY <1>10, <3>1 DEF x
    <3>3. QED BY <1>1, <1>3, <2>1, <3>2 DEF LookedUp
  <2>2. CASE q # p
    BY <1>1, <1>10, <2>2 DEF LookedUp
  <2>3. QED BY <2>1, <2>2
<1>13. OutputTypes'
  BY <1>1, <1>2, <1>10, <1>11 DEF OutputTypes
<1>14. /\ h.do \notin {"overlay_enabled", "clockgen", "video_mode", "SETMODE"}
       /\ h.do \notin {"ENABLEOUTPUT", "unless_overlay", "playmode", "inuse", "overlay_enabled"}
       /\ \A c \in Calls(x) : c.do \notin {"overlay_enabled", "clockgen", "video_mode", "SETMODE"}
       /\ \A c \in Calls(x) : c.do \notin {"playmode", "inuse"}
       /\ data'.enableoutput = data.enableoutput /\ data'.mode = data.mode
       /\ shown'.clock = shown.clock
  BY <1>2, <1>3, <1>8
<1>15. Placed' /\ Following'
  <2>1. /\ within' = within /\ sure' = sure /\ em' = em /\ shown'.tvout = shown.tvout
        /\ shown'.frame = shown.frame /\ shown'.visible = shown.visible
    BY <1>2
  <2>2. /\ Now(p).do \notin {"dicom_disable", "dicom_enable", "dicom_update"}
        /\ Pending = {Now(p)} \cup Rest(p)
    BY <1>3, <1>10 DEF h
  <2>3. QED BY ONLY <1>1, <1>3, <1>10, <2>1, <2>2, p \in Output!Procs, OtherCalls
<1>16. ASSUME NEW v \in BOOLEAN, NEW m \in VideoModes, Heading(v, m) PROVE Heading(v, m)'
  BY ONLY <1>2, <1>10, <1>14, <1>16, HeadingKept
<1>17. Showing'
  BY ONLY <1>1, <1>2, <1>10, <1>14, ShowingKept
<1>18. Staleness'
  <2>1. ASSUME NEW B, Fresh(B) PROVE Fresh(B)'
    <3> SUFFICES ASSUME NEW r \in Output!Registers \ B
                 PROVE  /\ \/ regs[r] = Output!Image(data, r)
                           \/ \E c \in Pending' : c.do \in {"fetch", "write"} /\ c.reg = r
                        /\ \A c \in Pending' :
                             c.do = "write" /\ c.reg = r => c.val = Output!Image(data, r)
      BY <1>2 DEF Fresh, Output!Image, Output!Registers
    <3>1. /\ \/ regs[r] = Output!Image(data, r)
             \/ \E c \in Pending : c.do \in {"fetch", "write"} /\ c.reg = r
          /\ \A c \in Pending : c.do = "write" /\ c.reg = r => c.val = Output!Image(data, r)
      BY <2>1 DEF Fresh
    <3>2. w.reg = r => w.val = Output!Image(data, r)
      BY <1>6 DEF im
    <3>3. QED BY ONLY <1>3, <1>6, <1>7, <1>10, <3>1, <3>2
  <2>2. /\ ~mixed => Fresh({})
        /\ board.encoder = "ADV717X" => \E r \in Output!Registers : Fresh({r})
    BY <1>1 DEF Staleness
  <2>3. /\ ~mixed => Fresh({})'
        /\ board.encoder = "ADV717X" => \E r \in Output!Registers : Fresh({r})'
    BY <2>1, <2>2
  <2>4. QED BY <1>2, <1>10, <2>3 DEF Staleness, Output!Registers
<1>19. QED
  <2>1. \E v \in BOOLEAN, m \in VideoModes : Heading(v, m)
    BY DEF OutputInv
  <2>2. \E v \in BOOLEAN, m \in VideoModes : Heading(v, m)'
    BY <1>16, <2>1
  <2>3. QED BY ONLY <1>11, <1>12, <1>13, <1>15, <1>17, <1>18, <2>2 DEF OutputInv

-------------------------------------------------------------------------------
(* Every handler that begins keeps it. *)

\* A process that has nothing to do gets a list of calls, none of them on a register.
LEMMA Started ==
  ASSUME OutputTypes, Separate, Placed, LookedUp, Following, Staleness,
         NEW p \in Output!Procs, NEW q \in Output!Procs, Output!Procs = {p, q}, p # q,
         NEW l, ListOK(l), \A c \in Calls(l) : c.do \notin {"fetch", "write"},
         todo[p] = << >>, todo' = [todo EXCEPT ![p] = l],
         UNCHANGED <<board, em, shown, data, regs, within, sure, by, mixed>>
  PROVE  /\ OutputTypes' /\ LookedUp' /\ Placed' /\ Following' /\ Staleness'
         /\ Pending = Calls(todo[q]) /\ Pending' = Calls(l) \cup Calls(todo[q])
         /\ Calls(todo'[p]) = Calls(l) /\ Calls(todo'[q]) = Calls(todo[q])
<1>1. /\ DOMAIN todo = Output!Procs /\ \A k \in Output!Procs : ListOK(todo[k])
  BY DEF OutputTypes
<1>2. DOMAIN todo' = Output!Procs /\ todo'[p] = l /\ todo'[q] = todo[q]
  BY <1>1
<1>3. OutputTypes'
  <2>1. \A k \in Output!Procs : ListOK(todo'[k])
    BY <1>1, <1>2
  <2>2. QED BY <1>2, <2>1 DEF OutputTypes
<1>4. LookedUp'
  <2>1. todo'[p] \in Seq(Call) /\ \A c \in Calls(todo'[p]) : c.do # "write"
    BY <1>2 DEF ListOK
  <2>2. \A k \in Output!Procs \ {p} : todo'[k] = todo[k]
    BY <1>2
  <2>3. QED BY <2>1, <2>2, LookedUpMade
<1>5. Pending = Calls(todo[q]) /\ Pending' = Calls(l) \cup Calls(todo[q])
  <2>1. Output!Procs = {"ioctl", "file"}
    BY DEF Output!Procs
  <2>2. Calls(todo[p]) = {}
    BY EmptyOK
  <2>3. Pending = Calls(todo[p]) \cup Calls(todo[q])
    BY <2>1 DEF Pending
  <2>4. Pending' = Calls(todo'[p]) \cup Calls(todo'[q])
    BY <2>1 DEF Pending
  <2>5. QED BY <1>2, <2>2, <2>3, <2>4
<1>6. Placed' /\ Following'
  <2>1. within[p].at = "outside"
    BY NotInside
  <2>2. /\ Pends("dicom_enable") => Pends("dicom_enable")'
        /\ Pends("dicom_update") => Pends("dicom_update")'
    BY <1>5 DEF Pends
  <2>3. Output!Kind' = Output!Kind /\ Output!Wanted' = Output!Wanted
    BY DEF Output!Kind, Output!Wanted
  <2>4. /\ sure' \subseteq sure /\ em'.dicom_tvout = em.dicom_tvout
        /\ shown'.tvout = shown.tvout /\ shown'.frame = shown.frame
        /\ shown'.visible = shown.visible /\ within' = within
    OBVIOUS
  <2>5. \A k \in Output!Procs \ {p} : todo'[k] = todo[k]
    BY <1>2
  <2>6. QED
    BY ONLY Placed, Following, p \in Output!Procs, <2>1, <2>2, <2>3, <2>4, <2>5, FollowingKept
<1>7. Staleness'
  BY <1>5, StalenessKept
<1>8. QED BY <1>2, <1>3, <1>4, <1>5, <1>6, <1>7

\* A control ioctl begins.
LEMMA IoctlKeeps ==
  ASSUME OutputInv, NEW l, NEW v, NEW m, Starts(l, v, m), Output!Ioctl(l)
  PROVE  OutputInv'
<1>1. OutputTypes /\ Separate /\ Placed /\ LookedUp /\ Following /\ Showing /\ Staleness
  BY DEF OutputInv
<1>2. /\ todo["ioctl"] = << >> /\ todo' = [todo EXCEPT !["ioctl"] = l]
      /\ UNCHANGED <<board, em, shown, data, regs, within, sure, by, mixed>>
  BY DEF Output!Ioctl, Output!Idle
<1>3. /\ ListOK(l) /\ v \in BOOLEAN /\ m \in VideoModes
      /\ \A c \in Calls(l) :
           /\ c.do \notin {"inuse", "unless_overlay", "fetch", "write"}
           /\ c.do = "overlay_enabled" => c.arg = v
           /\ c.do = "clockgen" => c.arg = Kind(v)
           /\ c.do \in {"video_mode", "SETMODE"} => c.arg = m
           /\ c.do = "playmode" /\ c.arg = "PLAY" =>
                em.playmode # "STOPPED" \/ Pend(l, "ENABLEOUTPUT")
      /\ v # em.overlay_enabled => Pend(l, "overlay_enabled") /\ Pend(l, "clockgen")
      /\ m # em.video_mode => Pend(l, "video_mode") /\ Pend(l, "SETMODE")
  BY DEF Starts
<1>4. /\ "ioctl" \in Output!Procs /\ "file" \in Output!Procs
      /\ Output!Procs = {"ioctl", "file"} /\ "ioctl" # "file"
  BY DEF Output!Procs
<1>5. \A c \in Calls(l) : c.do \notin {"fetch", "write"}
  BY <1>3
<1>6. /\ OutputTypes' /\ LookedUp' /\ Placed' /\ Following' /\ Staleness'
      /\ Pending = Calls(todo["file"]) /\ Pending' = Calls(l) \cup Calls(todo["file"])
      /\ Calls(todo'["ioctl"]) = Calls(l) /\ Calls(todo'["file"]) = Calls(todo["file"])
  BY ONLY <1>1, <1>2, <1>3, <1>4, <1>5, Started
<1>7. Separate'
  BY <1>1, <1>3, <1>6 DEF Separate
<1>8. Heading(v, m)'
  <2>1. PICK v0 \in BOOLEAN, m0 \in VideoModes : Heading(v0, m0)
    BY DEF OutputInv
  <2>2. \A c \in Pending :
          c.do \notin {"clockgen", "overlay_enabled", "video_mode", "SETMODE"}
    BY <1>1, <1>6 DEF Separate
  <2>3. /\ em.overlay_enabled = v0 /\ shown.clock = Kind(v0) /\ em.video_mode = m0
        /\ Output!Accepts(m0) => data.mode = m0
    BY <2>1, <2>2 DEF Heading, Pends
  <2>4. \A c \in Pending' : /\ c.do = "overlay_enabled" => c.arg = v
                            /\ c.do = "clockgen" => c.arg = Kind(v)
                            /\ c.do \in {"video_mode", "SETMODE"} => c.arg = m
    BY <1>3, <1>6, <2>2
  <2>5. \A n : Pend(l, n) => \E c \in Pending' : c.do = n
    BY <1>6 DEF Pend
  <2>6. /\ em.overlay_enabled # v => \E c \in Pending' : c.do = "overlay_enabled"
        /\ shown.clock # Kind(v) => \E c \in Pending' : c.do = "clockgen"
        /\ em.video_mode # m => \E c \in Pending' : c.do = "video_mode"
        /\ Output!Accepts(m) /\ data.mode # m => \E c \in Pending' : c.do = "SETMODE"
    BY ONLY <1>3, <2>3, <2>5
  <2>7. Output!Accepts(m)' <=> Output!Accepts(m)
    BY <1>2 DEF Output!Accepts
  <2>8. QED BY <1>2, <1>3, <2>4, <2>6, <2>7 DEF Heading, Pends
<1>9. Showing'
  <2> SUFFICES ASSUME Due' PROVE data.enableoutput \/ by \in {"overlay", "pause"}
    BY <1>2 DEF Showing
  <2>1. /\ em.inuse \/ \E c \in Pending' : c.do = "inuse" /\ c.arg
        /\ em.playmode # "STOPPED" \/ \E c \in Pending' : c.do = "playmode" /\ c.arg = "PLAY"
        /\ ~em.overlay_enabled
        /\ ~ \E c \in Pending' : c.do = "ENABLEOUTPUT"
        /\ ~ \E c \in Pending' : c.do = "unless_overlay"
        /\ Pending' \cap Excuses = {}
    BY <1>2 DEF Due, Pends
  <2>2. Pending \subseteq Pending' /\ ~Pend(l, "ENABLEOUTPUT")
    BY <1>6, <2>1 DEF Pend
  <2>3. em.inuse \/ \E c \in Pending : c.do = "inuse" /\ c.arg
    BY <1>3, <1>6, <2>1
  <2>4. em.playmode # "STOPPED" \/ \E c \in Pending : c.do = "playmode" /\ c.arg = "PLAY"
    BY <1>3, <1>6, <2>1, <2>2
  <2>5. Due
    BY <2>1, <2>2, <2>3, <2>4 DEF Due, Pends
  <2>6. QED BY <1>1, <2>5 DEF Showing
<1>10. QED BY <1>3, <1>6, <1>7, <1>8, <1>9 DEF OutputInv

\* An open, a release or a zoom begins.
LEMMA FileKeeps ==
  ASSUME OutputInv, NEW l, FileStarts(l), todo["file"] = << >>,
         todo' = [todo EXCEPT !["file"] = l],
         UNCHANGED <<board, em, shown, data, regs, within, sure, by, mixed>>
  PROVE  OutputInv'
<1>1. OutputTypes /\ Separate /\ Placed /\ LookedUp /\ Following /\ Showing /\ Staleness
  BY DEF OutputInv
<1>2. /\ ListOK(l)
      /\ Pend(l, "unless_overlay") \/ \A c \in Calls(l) : c.do = "dicom_update"
      /\ \A c \in Calls(l) : c.do \in {"unless_overlay", "video_setplaymode", "inuse",
                                       "dicom_update"}
  BY DEF FileStarts
<1>3. /\ "ioctl" \in Output!Procs /\ "file" \in Output!Procs
      /\ Output!Procs = {"file", "ioctl"} /\ "file" # "ioctl"
  BY DEF Output!Procs
<1>4. \A c \in Calls(l) : c.do \notin {"fetch", "write"}
  BY <1>2
<1>5. /\ OutputTypes' /\ LookedUp' /\ Placed' /\ Following' /\ Staleness'
      /\ Pending = Calls(todo["ioctl"]) /\ Pending' = Calls(l) \cup Calls(todo["ioctl"])
      /\ Calls(todo'["file"]) = Calls(l) /\ Calls(todo'["ioctl"]) = Calls(todo["ioctl"])
  BY <1>1, <1>2, <1>3, <1>4, Started
<1>6. Separate'
  BY <1>1, <1>2, <1>5 DEF Separate
<1>7. ASSUME NEW v \in BOOLEAN, NEW m \in VideoModes, Heading(v, m) PROVE Heading(v, m)'
  <2>1. Pending \subseteq Pending'
    BY <1>5
  <2>2. \A c \in Pending' : /\ c.do = "overlay_enabled" => c.arg = v
                            /\ c.do = "clockgen" => c.arg = Kind(v)
                            /\ c.do \in {"video_mode", "SETMODE"} => c.arg = m
    BY <1>2, <1>5, <1>7 DEF Heading
  <2>3. Output!Accepts(m)' <=> Output!Accepts(m)
    BY DEF Output!Accepts
  <2>4. QED BY <1>7, <2>1, <2>2, <2>3 DEF Heading, Pends
<1>8. Showing'
  <2>1. CASE Pend(l, "unless_overlay")
    <3>1. \E c \in Pending' : c.do = "unless_overlay"
      BY <1>5, <2>1 DEF Pend
    <3>2. QED BY <3>1 DEF Showing, Due, Pends
  <2>2. CASE \A c \in Calls(l) : c.do = "dicom_update"
    <3>1. Pending \subseteq Pending' /\ \A c \in Pending' \ Pending : c.do = "dicom_update"
      BY <1>5, <2>2
    <3>2. Due' => Due
      BY <3>1 DEF Due, Pends
    <3>3. QED BY <1>1, <3>2 DEF Showing
  <2>3. QED BY <1>2, <2>1, <2>2
<1>9. QED
  <2>1. \E v \in BOOLEAN, m \in VideoModes : Heading(v, m)
    BY DEF OutputInv
  <2>2. \E v \in BOOLEAN, m \in VideoModes : Heading(v, m)'
    BY <1>7, <2>1
  <2>3. QED BY ONLY <1>5, <1>6, <1>8, <2>2 DEF OutputInv

-------------------------------------------------------------------------------
(* The output as a whole. *)

outputVars == <<board, em, shown, data, regs, todo, within, sure, count, by, mixed>>

\* The microcode is loaded and nothing has been asked for yet.
LEMMA OutputStarts == Output!Init => OutputInv
<1> SUFFICES ASSUME Output!Init PROVE OutputInv
  OBVIOUS
<1>1. /\ board \in [encoder : Encoders, stop_video : BOOLEAN]
      /\ em = [playmode |-> "STOPPED", video_playmode |-> "STOPPED",
               video_mode |-> "PAL", overlay_enabled |-> FALSE, inuse |-> FALSE,
               dicom_tvout |-> "tv"]
      /\ shown = [tvout |-> "tv", clock |-> "tv", frame |-> "PAL", visible |-> "PAL"]
      /\ data = [mode |-> "PAL", enableoutput |-> ~board.stop_video]
      /\ regs = [r \in Output!Registers |-> Output!Image(data, r)]
      /\ todo = [p \in Output!Procs |-> << >>]
      /\ within = [p \in Output!Procs |-> [at |-> "outside", arg |-> "none"]]
  BY DEF Output!Init, Output!Outside, Output!At
<1>2. "PAL" \in VideoModes
  BY OutputConstants DEF Output!OutputAssumption
<1>3. /\ todo["ioctl"] = << >> /\ todo["file"] = << >> /\ Pending = {}
      /\ Calls(todo["ioctl"]) = {} /\ Calls(todo["file"]) = {}
      /\ \A p \in Output!Procs : todo[p] = << >>
  BY <1>1, EmptyOK DEF Pending, Output!Procs
<1>4. OutputTypes
  <2>1. em \in [playmode : PlayModes, video_playmode : PlayModes, video_mode : VideoModes,
                overlay_enabled : BOOLEAN, inuse : BOOLEAN, dicom_tvout : Kinds]
    <3>1. "STOPPED" \in PlayModes /\ FALSE \in BOOLEAN /\ "tv" \in Kinds
      BY DEF PlayModes, Kinds
    <3>2. QED BY ONLY <1>1, <1>2, <3>1
  <2>2. data \in [mode : VideoModes, enableoutput : BOOLEAN]
    <3> DEFINE on == ~board.stop_video
    <3>1. on \in BOOLEAN /\ data = [mode |-> "PAL", enableoutput |-> on]
      BY <1>1
    <3> HIDE DEF on
    <3>2. QED BY ONLY <1>2, <3>1
  <2>3. \A p \in Output!Procs : ListOK(todo[p])
    BY <1>3, EmptyOK
  <2>4. QED BY ONLY <1>1, <2>1, <2>2, <2>3 DEF OutputTypes
<1>5. Separate /\ LookedUp
  BY <1>3 DEF Separate, LookedUp
<1>6. Placed /\ Following /\ Heading(FALSE, "PAL")
  <2>1. \A p \in Output!Procs : within[p].at = "outside" /\ Amid(p) = "none"
    BY <1>1 DEF Amid
  <2>2. Placed
    BY <1>1, <2>1 DEF Placed
  <2>3. TvSure /\ SizeSure
    BY <1>1, <2>1 DEF TvSure, SizeSure, Output!Kind, Output!Wanted
  <2>4. Heading(FALSE, "PAL")
    BY <1>1, <1>2, <1>3 DEF Heading, Kind
  <2>5. QED BY <2>2, <2>3, <2>4 DEF Following
<1>7. Showing
  BY <1>1, <1>3 DEF Showing, Due
<1>8. Staleness
  <2>1. \A B : Fresh(B)
    BY <1>1, <1>3 DEF Fresh
  <2>2. "MR0" \in Output!Registers
    BY DEF Output!Registers
  <2>3. QED BY <2>1, <2>2 DEF Staleness
<1>9. QED BY <1>2, <1>4, <1>5, <1>6, <1>7, <1>8 DEF OutputInv

\* Every handler and every call of one keeps the invariant.
LEMMA OutputStep == OutputInv /\ Output!Next => OutputInv'
<1> SUFFICES ASSUME OutputInv, Output!Next PROVE OutputInv'
  OBVIOUS
<1>1. OutputTypes /\ em.overlay_enabled \in BOOLEAN
  BY DEF OutputInv, OutputTypes
<1>2. ASSUME NEW m \in PlayModes, Output!Ioctl(Output!em8300_ioctl_setplaymode(m))
      PROVE  OutputInv'
  BY <1>1, <1>2, PlaymodeStarts, IoctlKeeps
<1>3. ASSUME NEW m \in VideoModes, Output!Ioctl(Output!em8300_ioctl_setvideomode(m))
      PROVE  OutputInv'
  BY <1>1, <1>3, SetModeStarts, IoctlKeeps
<1>4. ASSUME Output!Ioctl(Output!OverlayOff) PROVE OutputInv'
  <2>1. em.overlay_enabled
    BY <1>4 DEF Output!Ioctl, Output!OverlayOff
  <2>2. QED BY <1>1, <1>4, <2>1, OverlayOffStarts, IoctlKeeps
<1>5. ASSUME Output!Ioctl(Output!OverlayOn) PROVE OutputInv'
  <2>1. ~em.overlay_enabled
    BY <1>5 DEF Output!Ioctl, Output!OverlayOn
  <2>2. QED BY <1>1, <1>5, <2>1, OverlayOnStarts, IoctlKeeps
<1>6. ASSUME Output!Open PROVE OutputInv'
  <2> DEFINE l == << Output!With("unless_overlay", TRUE),
                     Output!With("video_setplaymode", "PLAY"), Output!With("inuse", TRUE) >>
  <2>1. /\ todo["file"] = << >> /\ todo' = [todo EXCEPT !["file"] = l]
        /\ UNCHANGED <<board, em, shown, data, regs, within, sure, by, mixed>>
    BY <1>6 DEF Output!Open, Output!Idle
  <2>2. FileStarts(l)
    BY OpenStarts
  <2> HIDE DEF l
  <2>3. QED BY <2>1, <2>2, FileKeeps
<1>7. ASSUME Output!Release PROVE OutputInv'
  <2> DEFINE l == << Output!With("video_setplaymode", "STOPPED"),
                     Output!With("unless_overlay", FALSE), Output!With("inuse", FALSE) >>
  <2>1. /\ todo["file"] = << >> /\ todo' = [todo EXCEPT !["file"] = l]
        /\ UNCHANGED <<board, em, shown, data, regs, within, sure, by, mixed>>
    BY <1>7 DEF Output!Release, Output!Idle
  <2>2. FileStarts(l)
    BY ReleaseStarts
  <2> HIDE DEF l
  <2>3. QED BY <2>1, <2>2, FileKeeps
<1>8. ASSUME Output!Ioctl(Output!Refresh) PROVE OutputInv'
  BY <1>1, <1>8, RefreshStarts, IoctlKeeps
<1>9. ASSUME Output!Zoom PROVE OutputInv'
  <2> DEFINE l == << Output!Do("dicom_update") >>
  <2>1. /\ todo["file"] = << >> /\ todo' = [todo EXCEPT !["file"] = l]
        /\ UNCHANGED <<board, em, shown, data, regs, within, sure, by, mixed>>
    BY <1>9 DEF Output!Zoom, Output!Idle
  <2>2. FileStarts(l)
    BY RefreshList DEF FileStarts
  <2> HIDE DEF l
  <2>3. QED BY <2>1, <2>2, FileKeeps
<1>10. ASSUME NEW p \in Output!Procs, Output!Call(p) PROVE OutputInv'
  <2>1. CASE \E f \in {"playmode", "video_setplaymode", "video_mode", "overlay_enabled",
                       "inuse"} : Output!Assign(p, f)
    BY <2>1, AssignKeeps
  <2>2. CASE Output!Clockgen(p) \/ Output!DicomTimeout(p) \/ Output!TvOut(p)
    BY <2>2, ShownKeeps
  <2>7. CASE Output!DicomDisable(p) \/ Output!DicomEnable(p) \/ Output!DicomUpdate(p)
    BY <2>7, EnterKeeps
  <2>8. CASE Output!Frame(p) \/ Output!Visible(p) \/ Output!Load(p) \/ Output!Store(p)
    BY <2>8, StepKeeps
  <2>3. CASE Output!UnlessOverlay(p)
    BY <2>3, UnlessOverlayKeeps
  <2>4. CASE Output!Command(p)
    BY <2>4, CommandKeeps
  <2>5. CASE Output!Fetch(p)
    BY <2>5, FetchKeeps
  <2>6. CASE Output!Write(p)
    BY <2>6, WriteKeeps
  <2>9. QED BY ONLY <1>10, <2>1, <2>2, <2>3, <2>4, <2>5, <2>6, <2>7, <2>8 DEF Output!Call
<1>11. QED
  BY ONLY Output!Next, <1>2, <1>3, <1>4, <1>5, <1>6, <1>7, <1>8, <1>9, <1>10
     DEF Output!Next, PlayModes

\* A stutter keeps it.
LEMMA OutputStutters == OutputInv /\ UNCHANGED outputVars => OutputInv'
<1> SUFFICES ASSUME OutputInv, UNCHANGED outputVars PROVE OutputInv'
  OBVIOUS
<1>1. /\ board' = board /\ em' = em /\ shown' = shown /\ data' = data /\ regs' = regs
      /\ todo' = todo /\ by' = by /\ mixed' = mixed /\ within' = within /\ sure' = sure
  BY DEF outputVars
<1>2. Pending' = Pending
  BY <1>1 DEF Pending
<1>3. \A p \in Output!Procs : Amid(p)' = Amid(p)
  BY <1>1 DEF Amid
<1>4. /\ Output!Kind' = Output!Kind /\ Output!Wanted' = Output!Wanted
      /\ Output!Procs' = Output!Procs /\ Kinds' = Kinds
  BY <1>1 DEF Output!Kind, Output!Wanted, Output!Procs, Kinds
<1>5. Placed'
  BY <1>1, <1>3, <1>4 DEF OutputInv, Placed
<1>6. Following'
  BY <1>1, <1>2, <1>3, <1>4 DEF OutputInv, Following, TvSure, SizeSure, Pends
<1>7. DOMAIN shown' = DOMAIN shown /\ shown'.clock = shown.clock
  BY <1>1
<1>8. QED BY ONLY OutputInv, <1>1, <1>5, <1>6, <1>7, Unmoved

\* The output part of a step of the whole.
LEMMA OutputPart == part = "output" /\ [Next]_vars => [Output!Next]_outputVars /\ part' = part
<1> SUFFICES ASSUME part = "output", [Next]_vars
             PROVE  (Output!Next \/ UNCHANGED outputVars) /\ part' = part
  OBVIOUS
<1>1. CASE Next
  BY <1>1 DEF Next
<1>2. CASE UNCHANGED vars
  BY <1>2 DEF vars, outputVars, shared, output
<1>3. QED BY <1>1, <1>2

\* The invariant holds of the output part.
LEMMA OutputHolds == Spec => [](part = "output" => OutputInv)
<1>1. Init => (part = "output" => OutputInv)
  BY OutputStarts DEF Init
<1>2. (part = "output" => OutputInv) /\ [Next]_vars => (part = "output" => OutputInv)'
  <2> SUFFICES ASSUME part = "output" => OutputInv, [Next]_vars, part' = "output"
               PROVE  OutputInv'
    OBVIOUS
  <2>1. part' = part
    BY DEF Next, vars
  <2>2. Output!Next \/ UNCHANGED outputVars
    BY <2>1, OutputPart
  <2>3. QED BY <2>1, <2>2, OutputStep, OutputStutters
<1>3. QED BY <1>1, <1>2, PTL DEF Spec

\* When all handlers have returned there is nothing left to make.
LEMMA QuietEmpty == Output!Quiet => Pending = {}
<1> SUFFICES ASSUME Output!Quiet PROVE Pending = {}
  OBVIOUS
<1>1. todo["ioctl"] = << >> /\ todo["file"] = << >>
  BY DEF Output!Quiet, Output!Idle, Output!Procs
<1>2. QED BY <1>1, EmptyOK DEF Pending

\* Clock generator and encoder agree with overlay mode and the TV mode when all handlers have
\* returned, whatever they are and however they interleave; and so do the output and the size
\* of the display controller, which its unlocked calls set step by step, where the last call
\* to set them had them for itself, found the controller ready and the settings unchanged.
THEOREM OutputFollowsSettings == Spec => []OutputAgrees
<1>1. (part = "output" => OutputInv) => OutputAgrees
  <2> SUFFICES ASSUME OutputInv, Output!Quiet
               PROVE  /\ shown.clock = Output!Kind
                      /\ Output!Accepts(em.video_mode) => data.mode = em.video_mode
                      /\ "tvout" \in sure => shown.tvout = Output!Kind
                      /\ "size" \in sure => /\ shown.frame = Output!Wanted
                                            /\ shown.visible = Output!Wanted
    BY DEF OutputAgrees, Output!OutputAgrees
  <2>1. Pending = {}
    BY QuietEmpty
  <2>2. PICK v \in BOOLEAN, m \in VideoModes : Heading(v, m)
    BY DEF OutputInv
  <2>3. /\ em.overlay_enabled = v /\ shown.clock = Kind(v) /\ em.video_mode = m
        /\ Output!Accepts(m) => data.mode = m
    BY <2>1, <2>2 DEF Heading, Pends
  <2>4. \A p \in Output!Procs : Amid(p) = "none"
    BY DEF OutputInv, Placed, Amid, Output!Quiet, Output!Idle
  <2>5. "tvout" \in sure => shown.tvout = Output!Kind
    BY <2>1, <2>4 DEF OutputInv, Following, TvSure, Pends
  <2>6. "size" \in sure => shown.frame = Output!Wanted /\ shown.visible = Output!Wanted
    BY <2>1 DEF OutputInv, Following, SizeSure, Pends
  <2>7. QED BY <2>3, <2>5, <2>6 DEF Kind, Output!Kind
<1>2. QED BY <1>1, OutputHolds, PTL

\* A video device that plays shows its picture, but for the two cases that `by` records.
THEOREM PlayingIsShown == Spec => []PlayingShows
<1>1. (part = "output" => OutputInv) => PlayingShows
  <2> SUFFICES ASSUME OutputInv, Output!Quiet, em.inuse, em.playmode = "PLAY",
                      ~em.overlay_enabled
               PROVE  data.enableoutput \/ by \in {"overlay", "pause"}
    BY DEF PlayingShows, Output!PlayingShows
  <2>1. Pending = {}
    BY QuietEmpty
  <2>2. Due
    BY <2>1 DEF Due, Pends
  <2>3. QED BY <2>2 DEF OutputInv, Showing
<1>2. QED BY <1>1, OutputHolds, PTL

\* Updates of the encoder that do not overlap leave no register out of date, and those of an
\* ADV717x that do leave one at most.
THEOREM OneRegisterStale == Spec => []StaleBounded
<1>1. (part = "output" => OutputInv) => StaleBounded
  <2> DEFINE out == {r \in Output!Registers : regs[r] # Output!Image(data, r)}
  <2> SUFFICES ASSUME OutputInv, Output!Quiet PROVE Output!StaleBounded
    BY DEF StaleBounded, Output!StaleBounded
  <2>1. Pending = {}
    BY QuietEmpty
  <2>2. /\ ~mixed => Fresh({})
        /\ board.encoder = "ADV717X" => \E r \in Output!Registers : Fresh({r})
    BY DEF OutputInv, Staleness
  <2>3. \A B : Fresh(B) => out \subseteq B
    BY <2>1 DEF Fresh
  <2> HIDE DEF out
  <2>4. ASSUME board.encoder = "ADV717X" PROVE Cardinality(out) <= 1
    <3>1. PICK r \in Output!Registers : out \subseteq {r}
      BY <2>2, <2>3, <2>4
    <3>2. IsFiniteSet({r}) /\ Cardinality({r}) = 1
      BY FS_Singleton
    <3>3. Cardinality(out) <= Cardinality({r})
      BY <3>1, <3>2, FS_Subset
    <3>4. QED BY <3>2, <3>3
  <2>5. ASSUME ~mixed PROVE out = {}
    BY <2>2, <2>3, <2>5
  <2>6. Output!Cardinality(out) = Cardinality(out)
    BY DEF Output!Cardinality, Cardinality
  <2>7. QED BY ONLY <2>4, <2>5, <2>6 DEF Output!StaleBounded, out
<1>2. QED BY <1>1, OutputHolds, PTL

-------------------------------------------------------------------------------
(* The overlay. *)

overlayVars == <<em, dicom, reg, changed, ops>>

AttributeNames == {"XOFFSET", "YOFFSET", "XCORR", "JITTER", "STABILITY",
                   "KEYCOLOR_UPPER", "KEYCOLOR_LOWER"}

\* The fields of the settings, and what is known of them.
SettingsOK(e) ==
  /\ DOMAIN e = {"video_mode", "zoom", "aspect", "enabled", "mode", "window", "xres",
                 "yres", "last", "rate", "double_y", "a"}
  /\ DOMAIN e.a = AttributeNames
  /\ e.a.JITTER \in Int /\ e.a.XCORR \in Int
  /\ e.mode \in {"OFF", "RECTANGLE", "OVERLAY"}
  /\ e.enabled \in BOOLEAN
  /\ e.enabled <=> e.mode # "OFF"

RegistersOK(r) ==
  /\ DOMAIN r = {"r6", "r7", "r9", "r10", "r12", "key", "divider"}
  /\ r.r7 \in Nat

DicomOK(d) == DOMAIN d = {"frame", "visible", "tvout"} /\ DOMAIN d.tvout = {"to", "aspect"}

\* What ChipFollows says of the chip, and of the display controller.
ChipHolds(e, r, c) ==
  /\ r.r6 = e.a.STABILITY % 256 /\ r.r7 % 16 = e.a.JITTER % 16
  /\ r.r9 = IF e.enabled THEN 4 ELSE 0
  /\ "gamma" \notin c => r.r12 = IF e.enabled THEN \h8e ELSE \h0e
  /\ "signal" \notin c =>
       r.r7 = Overlay!Signal(e.a.JITTER, IF e.enabled THEN "SIGNAL_WITH_VGA" ELSE "VGA_ONLY")
  /\ e.enabled => r.r10 = IF e.mode = "OVERLAY" THEN 0 ELSE \h77
  /\ "key" \notin c /\ e.mode = "OVERLAY" => r.key = Overlay!Key(e)

Target(e) ==
  IF e.enabled THEN Overlay!sub_4288c(e.window, e)
  ELSE [frame |-> Overlay!TvRect(e.video_mode, e.zoom),
        visible |-> Overlay!TvRect(e.video_mode, e.zoom)]

PlaceHolds(e, d, c) ==
  /\ d.tvout.to = IF e.enabled THEN "overlay" ELSE "tv"
  /\ "window" \notin c =>
       d.frame = Target(e).frame /\ d.visible = Target(e).visible

OverlayInv ==
  /\ SettingsOK(em) /\ RegistersOK(reg) /\ DicomOK(dicom)
  /\ ChipHolds(em, reg, changed) /\ PlaceHolds(em, dicom, changed)

\* The bits of a jitter in the upper half of register 7, and in the lower one.
LEMMA OverIs ==
  ASSUME NEW h \in 0 .. 15, NEW v \in Int
  PROVE  /\ Overlay!Over(h, v) \in Nat /\ Overlay!Over(h, v) % 16 = v % 16
         /\ (v % 256) \div 16 = 0 => Overlay!Over(h, v) = 16 * h + (v % 16)
<1> DEFINE w == (v % 256) \div 16
           a == And[<<h, w>>]
           u == h + w - a
<1>1. w \in 0 .. 15
  OBVIOUS
<1>2. h \in Words /\ w \in Words
  <2> DEFINE top == LargestWord
  <2>1. top \in Nat /\ top >= 15
    BY DEF LargestWord
  <2> HIDE DEF w, a, u, top
  <2>2. h \in 0 .. top /\ w \in 0 .. top
    BY <1>1, <2>1
  <2>3. QED BY ONLY <2>2 DEF Words, top
<1>3. a \in 0 .. w
  <2> HIDE DEF w
  <2>1. QED BY <1>2, AndIsBelow
<1>4. Overlay!Over(h, v) = 16 * u + (v % 16)
  BY DEF Overlay!Over, Overlay!And, And, Overlay!Words, Words, Overlay!LargestWord, LargestWord
<1> HIDE DEF w, a
<1>5. u \in Nat /\ (w = 0 => u = h)
  BY <1>1, <1>3
<1> HIDE DEF u
<1>6. 16 * u + (v % 16) \in Nat /\ (16 * u + (v % 16)) % 16 = v % 16
  BY <1>5
<1>7. QED BY <1>4, <1>5, <1>6 DEF w

\* A new jitter is what the low half of register 7 then holds.
LEMMA Jitters ==
  ASSUME NEW j \in Int, NEW r7 \in Nat
  PROVE  Overlay!Jitter(r7, j) % 16 = j % 16 /\ Overlay!Jitter(r7, j) \in Nat
<1> DEFINE h == (r7 \div 16) % 16
<1>1. h \in 0 .. 15
  OBVIOUS
<1>2. Overlay!Jitter(r7, j) = Overlay!Over(h, j)
  BY DEF Overlay!Jitter
<1> HIDE DEF h
<1>3. QED BY <1>1, <1>2, OverIs

\* A new jitter leaves the signals, if the one before had no bits among them.
LEMMA NewJitter ==
  ASSUME NEW h \in 0 .. 15, NEW j \in Int, NEW k \in Int, (j % 256) \div 16 = 0
  PROVE  Overlay!Jitter(Overlay!Over(h, j), k) = Overlay!Over(h, k)
<1>1. Overlay!Over(h, j) = 16 * h + (j % 16)
  BY OverIs
<1>2. ((16 * h + (j % 16)) \div 16) % 16 = h
  OBVIOUS
<1>3. QED BY <1>1, <1>2 DEF Overlay!Jitter

\* The bits of each signal.
LEMMA SignalBits ==
  \A j : /\ Overlay!Signal(j, "SIGNAL_ONLY") = Overlay!Over(0, j)
         /\ Overlay!Signal(j, "SIGNAL_WITH_VGA") = Overlay!Over(4, j)
         /\ Overlay!Signal(j, "VGA_ONLY") = Overlay!Over(8, j)
BY DEF Overlay!Signal

\* Every value of register 7 that em9010_overlay_set_signalmode writes holds the jitter.
LEMMA Signals ==
  ASSUME NEW j \in Int, NEW s \in {"SIGNAL_ONLY", "SIGNAL_WITH_VGA", "VGA_ONLY"}
  PROVE  Overlay!Signal(j, s) \in Nat /\ Overlay!Signal(j, s) % 16 = j % 16
<1>1. PICK h \in 0 .. 15 : Overlay!Signal(j, s) = Overlay!Over(h, j)
  BY SignalBits
<1>2. QED BY <1>1, OverIs

\* The chip holds the settings it has been written for.
LEMMA ChipUpdated ==
  ASSUME NEW e, NEW r, NEW c, SettingsOK(e), RegistersOK(r)
  PROVE  /\ RegistersOK(Overlay!em9010_overlay_update(e, r))
         /\ ChipHolds(e, Overlay!em9010_overlay_update(e, r), Overlay!ChipWritten(c, e))
<1> DEFINE u == Overlay!em9010_overlay_update(e, r)
           j == e.a.JITTER
           s == Overlay!Signal(e.a.JITTER, IF e.enabled THEN "SIGNAL_WITH_VGA" ELSE "VGA_ONLY")
<1>2. s % 16 = j % 16 /\ s \in Nat
  BY Signals DEF SettingsOK
<1> HIDE DEF s
<1>3. /\ DOMAIN u = DOMAIN r
      /\ u.r6 = e.a.STABILITY % 256 /\ u.r7 = s /\ u.r9 = IF e.enabled THEN 4 ELSE 0
      /\ u.r12 = IF e.enabled THEN \h8e ELSE \h0e
      /\ e.mode = "RECTANGLE" => u.r10 = \h77
      /\ e.mode = "OVERLAY" => u.r10 = 0 /\ u.key = Overlay!Key(e)
  BY DEF Overlay!em9010_overlay_update, SettingsOK, RegistersOK, s
<1> HIDE DEF u
<1>4. RegistersOK(u)
  BY <1>2, <1>3 DEF RegistersOK
<1>5. ChipHolds(e, u, Overlay!ChipWritten(c, e))
  BY <1>2, <1>3 DEF ChipHolds, SettingsOK, s
<1>6. QED BY <1>4, <1>5 DEF u

\* The window depends on the window asked for, the resolution, the doubling and the
\* offsets and scale alone.
LEMMA SameTarget ==
  ASSUME NEW e, NEW f, f.enabled = e.enabled, f.window = e.window,
         f.video_mode = e.video_mode, f.zoom = e.zoom,
         e.enabled => /\ f.double_y = e.double_y /\ f.xres = e.xres /\ f.yres = e.yres
                      /\ f.a.XOFFSET = e.a.XOFFSET /\ f.a.YOFFSET = e.a.YOFFSET
                      /\ f.a.XCORR = e.a.XCORR
  PROVE  Target(f) = Target(e)
<1>1. CASE e.enabled
  <2>1. Overlay!sub_4288c(f.window, f) = Overlay!sub_4288c(e.window, e)
    BY <1>1 DEF Overlay!sub_4288c
  <2>2. QED BY <1>1, <2>1 DEF Target
<1>2. CASE ~e.enabled
  BY <1>2 DEF Target
<1>3. QED BY <1>1, <1>2

\* The controller, once updated, shows the target unless it was too late or the scale is
\* too small.
LEMMA Shown ==
  ASSUME NEW e, NEW d, DicomOK(d), NEW answers \in BOOLEAN, e.enabled \in BOOLEAN,
         e.a.XCORR \in Int
  PROVE  LET u == Overlay!em8300_dicom_update(e, d, answers)
         IN  /\ DicomOK(u) /\ u.tvout.to = d.tvout.to
             /\ answers /\ (e.enabled => e.a.XCORR >= 800) =>
                  u.frame = Target(e).frame /\ u.visible = Target(e).visible
<1> DEFINE t == Overlay!TvRect(e.video_mode, e.zoom)
           w == Overlay!sub_4288c(e.window, e)
           u == Overlay!em8300_dicom_update(e, d, answers)
<1> SUFFICES /\ DicomOK(u) /\ u.tvout.to = d.tvout.to
             /\ answers /\ (e.enabled => e.a.XCORR >= 800) =>
                  u.frame = Target(e).frame /\ u.visible = Target(e).visible
  OBVIOUS
<1>1. CASE ~answers
  BY <1>1 DEF Overlay!em8300_dicom_update
<1>2. CASE answers /\ ~e.enabled
  <2>1. u = [[d EXCEPT !.frame = t, !.visible = t] EXCEPT !.tvout.aspect = e.aspect]
    BY <1>2 DEF Overlay!em8300_dicom_update
  <2>2. Target(e) = [frame |-> t, visible |-> t]
    BY <1>2 DEF Target
  <2> HIDE DEF t, u
  <2>3. QED BY <1>2, <2>1, <2>2 DEF DicomOK
<1>3. CASE answers /\ e.enabled
  <2>1. u = [Overlay!Window(e, d) EXCEPT !.tvout.aspect = e.aspect]
    BY <1>3 DEF Overlay!em8300_dicom_update
  <2>2. Target(e) = w
    BY <1>3 DEF Target
  <2>3. Overlay!Window(e, d) = IF e.a.XCORR < 800 THEN d
                               ELSE [d EXCEPT !.frame = w.frame, !.visible = w.visible]
    BY DEF Overlay!Window
  <2> HIDE DEF w, u
  <2>4. QED BY <1>3, <2>1, <2>2, <2>3 DEF DicomOK
<1>4. QED BY <1>1, <1>2, <1>3

\* em8300_dicom_enable connects the overlay or the TV output and moves nothing.
LEMMA Enabled ==
  ASSUME NEW e, NEW d, DicomOK(d)
  PROVE  LET u == Overlay!em8300_dicom_enable(e, d)
         IN  /\ DicomOK(u) /\ u.tvout.to = (IF e.enabled THEN "overlay" ELSE "tv")
             /\ u.frame = d.frame /\ u.visible = d.visible
BY DEF DicomOK, Overlay!em8300_dicom_enable

\* A new resolution changes the scale, and neither windows nor mode.
LEMMA Scale ==
  ASSUME NEW e, NEW s, NEW count1, SettingsOK(e),
         NEW f, f = Overlay!SetRes(e, s, count1)
  PROVE  /\ SettingsOK(f) /\ f.enabled = e.enabled /\ f.mode = e.mode
         /\ f.window = e.window /\ f.video_mode = e.video_mode /\ f.zoom = e.zoom
         /\ f.a.XOFFSET = e.a.XOFFSET /\ f.a.YOFFSET = e.a.YOFFSET
<1> DEFINE rate == Overlay!loc_2bcfe(count1, e.last, s[2])
           x == Overlay!loc_2A66E(rate.rate, s[1]).xcorr
           l6 == Overlay!Pixels(s[1])
           l7 == rate.rate \div 10
           l4 == IF l6 * l7 >= 70000 THEN (l6 * l7 * 1000) \div 70000 ELSE 1000
<1>1. x \in Int
  <2>1. x = IF l4 \in \h352 .. \hdac THEN l4 ELSE \h5dc
    BY DEF Overlay!loc_2A66E
  <2> HIDE DEF x, l4
  <2>2. QED BY <2>1
<1>2. f = [e EXCEPT !.xres = s[1], !.yres = s[2], !.last = rate.last, !.rate = rate.rate,
                    !.a.XCORR = x]
  BY DEF Overlay!SetRes
<1> HIDE DEF rate, x
<1>3. /\ DOMAIN f = DOMAIN e /\ f.a = [e.a EXCEPT !.XCORR = x]
      /\ f.enabled = e.enabled /\ f.mode = e.mode
      /\ f.window = e.window /\ f.video_mode = e.video_mode /\ f.zoom = e.zoom
  BY <1>2 DEF SettingsOK
<1>4. QED BY ONLY <1>1, <1>3, SettingsOK(e) DEF SettingsOK, AttributeNames

\* em9010_init leaves the chip in agreement with the settings.
LEMMA OverlayStarts == Overlay!Init => OverlayInv
<1> SUFFICES ASSUME Overlay!Init PROVE OverlayInv
  OBVIOUS
<1> DEFINE a == [XOFFSET |-> 225, YOFFSET |-> 43, XCORR |-> 1000, JITTER |-> 0,
                 STABILITY |-> 0, KEYCOLOR_UPPER |-> 0, KEYCOLOR_LOWER |-> 0]
           e == [video_mode |-> "PAL", zoom |-> 100, aspect |-> "4:3",
                 enabled |-> FALSE, mode |-> "OFF", window |-> <<0, 0, 720, 480>>,
                 xres |-> 0, yres |-> 0, last |-> 2000, rate |-> 0,
                 double_y |-> FALSE, a |-> a]
           t == Overlay!TvRect("PAL", 100)
<1>1. PICK count1 \in Counts, double \in BOOLEAN :
         em = [Overlay!SetRes(e, <<1280, 1024>>, count1) EXCEPT !.double_y = double]
  BY DEF Overlay!Init
<1>2. /\ dicom = [frame |-> t, visible |-> t, tvout |-> [to |-> "tv", aspect |-> "4:3"]]
      /\ reg = [r6 |-> 0, r7 |-> 128, r9 |-> 0, r10 |-> 0, r12 |-> \h8c,
                key |-> <<0, 0>>, divider |-> \h4fe]
      /\ changed = {"gamma"}
  BY DEF Overlay!Init
<1>3. SettingsOK(e) /\ ~e.enabled /\ e.mode = "OFF"
  BY DEF SettingsOK, AttributeNames
<1> DEFINE f == Overlay!SetRes(e, <<1280, 1024>>, count1)
<1>4. /\ SettingsOK(f) /\ f.enabled = e.enabled /\ f.mode = e.mode
      /\ f.window = e.window /\ f.video_mode = e.video_mode /\ f.zoom = e.zoom
  <2>1. f = Overlay!SetRes(e, <<1280, 1024>>, count1)
    OBVIOUS
  <2> HIDE DEF e, f
  <2>2. QED BY ONLY <1>3, <2>1, Scale
<1>5. f.a.STABILITY = 0 /\ f.a.JITTER = 0
  BY DEF Overlay!SetRes
<1>6. e.video_mode = "PAL" /\ e.zoom = 100
  OBVIOUS
<1> HIDE DEF e, f, t
<1>7. /\ SettingsOK(em) /\ ~em.enabled /\ em.mode = "OFF"
      /\ em.video_mode = "PAL" /\ em.zoom = 100 /\ em.a.STABILITY = 0 /\ em.a.JITTER = 0
  BY <1>1, <1>3, <1>4, <1>5, <1>6 DEF f, SettingsOK
<1>8. RegistersOK(reg) /\ DicomOK(dicom)
  BY <1>2 DEF RegistersOK, DicomOK
<1>9. ChipHolds(em, reg, changed)
  <2>1. Overlay!Signal(em.a.JITTER, "VGA_ONLY") = 128
    <3>1. Overlay!Over(8, 0) = 128
      <4>1. 8 \in 0 .. 15 /\ 0 \in Int /\ (0 % 256) \div 16 = 0 /\ 0 % 16 = 0
        OBVIOUS
      <4>2. QED BY <4>1, OverIs
    <3>2. QED BY <1>7, <3>1, SignalBits
  <2>2. 0 % 256 = 0 /\ 128 % 16 = 0 /\ 0 % 16 = 0
    OBVIOUS
  <2>3. QED BY <1>2, <1>7, <2>1, <2>2 DEF ChipHolds
<1>10. PlaceHolds(em, dicom, changed)
  BY <1>2, <1>7 DEF PlaceHolds, Target, t
<1>11. QED BY <1>7, <1>8, <1>9, <1>10 DEF OverlayInv

\* What the chip holds does not depend on settings other than those it is written from.
LEMMA ChipCopied ==
  ASSUME NEW e, NEW f, NEW r, NEW c, NEW more, ChipHolds(e, r, c),
         f.enabled = e.enabled, f.mode = e.mode, f.a = e.a, c \subseteq more
  PROVE  ChipHolds(f, r, more)
BY DEF ChipHolds, Overlay!Signal, Overlay!Key

\* What ends an operation on the chip.
LEMMA ChipKept ==
  ASSUME NEW e, NEW r, NEW c, NEW double \in BOOLEAN, SettingsOK(e), RegistersOK(r),
         reg' = Overlay!em9010_overlay_update(e, r), em' = [e EXCEPT !.double_y = double],
         Overlay!ChipWritten(c, e) \subseteq changed'
  PROVE  /\ SettingsOK(em)' /\ RegistersOK(reg)' /\ ChipHolds(em, reg, changed)'
         /\ em'.double_y = double /\ em'.a = e.a /\ em'.window = e.window
         /\ em'.enabled = e.enabled
         /\ em'.video_mode = e.video_mode /\ em'.zoom = e.zoom
         /\ em'.xres = e.xres /\ em'.yres = e.yres
<1>1. /\ SettingsOK(em)' /\ em'.double_y = double /\ em'.a = e.a /\ em'.window = e.window
      /\ em'.enabled = e.enabled /\ em'.mode = e.mode
      /\ em'.video_mode = e.video_mode /\ em'.zoom = e.zoom
      /\ em'.xres = e.xres /\ em'.yres = e.yres
  BY DEF SettingsOK
<1>2. RegistersOK(reg)' /\ ChipHolds(e, reg', Overlay!ChipWritten(c, e))
  BY ChipUpdated
<1>3. ChipHolds(em', reg', changed')
  BY <1>1, <1>2, ChipCopied
<1>4. QED BY <1>1, <1>2, <1>3

\* The settings when overlay mode is turned on, or its kind changed.
LEMMA Switched ==
  ASSUME NEW mo \in {"RECTANGLE", "OVERLAY"}, SettingsOK(em),
         NEW e, \/ e = [em EXCEPT !.enabled = TRUE, !.mode = mo]
                \/ em.enabled /\ e = [em EXCEPT !.mode = mo]
  PROVE  /\ SettingsOK(e) /\ e.enabled
         /\ e.double_y = em.double_y /\ e.xres = em.xres /\ e.yres = em.yres
         /\ e.a = em.a /\ e.window = em.window
         /\ e.video_mode = em.video_mode /\ e.zoom = em.zoom
BY DEF SettingsOK

\* The settings when overlay mode is turned off.
LEMMA SwitchedOff ==
  ASSUME SettingsOK(em), NEW e, e = [em EXCEPT !.enabled = FALSE, !.mode = "OFF"]
  PROVE  /\ SettingsOK(e) /\ ~e.enabled
         /\ e.a = em.a /\ e.window = em.window
         /\ e.video_mode = em.video_mode /\ e.zoom = em.zoom
BY DEF SettingsOK

\* Overlay mode is turned on.
LEMMA OverlayOnKeeps ==
  ASSUME OverlayInv, NEW double \in BOOLEAN, NEW answers \in BOOLEAN,
         NEW mo \in {"RECTANGLE", "OVERLAY"}, Overlay!OverlayOn(mo, double, answers)
  PROVE  OverlayInv'
<1> USE DEF OverlayInv
<1> DEFINE e == [em EXCEPT !.enabled = TRUE, !.mode = mo]
           d == Overlay!em8300_dicom_enable(e, dicom)
           u == Overlay!em8300_dicom_update(e, d, answers)
<1>1. /\ SettingsOK(e) /\ e.enabled
      /\ e.double_y = em.double_y /\ e.xres = em.xres /\ e.yres = em.yres
      /\ e.a = em.a /\ e.window = em.window
      /\ e.video_mode = em.video_mode /\ e.zoom = em.zoom
  BY Switched
<1>2. /\ dicom' = Overlay!em8300_dicom_update(e, d, answers)
      /\ reg' = Overlay!em9010_overlay_update(e, reg)
      /\ em' = [e EXCEPT !.double_y = double]
      /\ changed' = Overlay!ChipWritten(Overlay!Placed(changed, e, answers), e)
                    \cup Overlay!Moved(em')
  BY DEF Overlay!OverlayOn, Overlay!Updated
<1>3. DicomOK(d) /\ d.tvout.to = "overlay"
  BY <1>1, Enabled
<1> HIDE DEF e, d
<1>4. Overlay!ChipWritten(Overlay!Placed(changed, e, answers), e) \subseteq changed'
      /\ RegistersOK(reg)
  BY <1>2
<1>5. /\ SettingsOK(em)' /\ RegistersOK(reg)' /\ ChipHolds(em, reg, changed)'
      /\ em'.double_y = double /\ em'.a = e.a /\ em'.window = e.window
      /\ em'.enabled = e.enabled
      /\ em'.video_mode = e.video_mode /\ em'.zoom = e.zoom
      /\ em'.xres = e.xres /\ em'.yres = e.yres
  BY ONLY <1>1, <1>2, <1>4, ChipKept, double \in BOOLEAN
<1>6. /\ DicomOK(dicom') /\ dicom'.tvout.to = "overlay"
      /\ answers /\ e.a.XCORR >= 800 =>
           dicom'.frame = Target(e).frame /\ dicom'.visible = Target(e).visible
  <2>1. e.enabled \in BOOLEAN /\ e.a.XCORR \in Int
    BY <1>1 DEF SettingsOK
  <2>2. /\ DicomOK(u) /\ u.tvout.to = d.tvout.to
        /\ answers /\ (e.enabled => e.a.XCORR >= 800) =>
             u.frame = Target(e).frame /\ u.visible = Target(e).visible
    BY ONLY <1>3, <2>1, Shown, answers \in BOOLEAN
  <2> HIDE DEF u
  <2>3. dicom' = u
    BY <1>2 DEF u
  <2>4. QED BY ONLY <1>1, <1>3, <2>2, <2>3
<1>7. "window" \notin Overlay!Placed(changed, e, answers) => answers /\ e.a.XCORR >= 800
  BY <1>1 DEF Overlay!Placed
<1>8. "window" \notin Overlay!Moved(em') => double = em.double_y
  BY <1>5 DEF Overlay!Moved
<1>9. "window" \notin changed' => answers /\ e.a.XCORR >= 800 /\ double = em.double_y
  BY ONLY <1>2, <1>7, <1>8 DEF Overlay!ChipWritten
<1>10. double = em.double_y => Target(em') = Target(e)
  BY <1>1, <1>5, SameTarget
<1>11. PlaceHolds(em, dicom, changed)'
  BY <1>1, <1>5, <1>6, <1>9, <1>10 DEF PlaceHolds
<1>12. QED BY <1>5, <1>6, <1>11

\* The kind of overlay mode is changed.
LEMMA OverlaySwitchKeeps ==
  ASSUME OverlayInv, NEW double \in BOOLEAN, NEW answers \in BOOLEAN,
         NEW mo \in {"RECTANGLE", "OVERLAY"}, Overlay!OverlaySwitch(mo, double)
  PROVE  OverlayInv'
<1> USE DEF OverlayInv
<1> DEFINE e == [em EXCEPT !.mode = mo]
<1>1. em.enabled
  BY DEF Overlay!OverlaySwitch
<1>2. /\ SettingsOK(e) /\ e.enabled
      /\ e.double_y = em.double_y /\ e.xres = em.xres /\ e.yres = em.yres
      /\ e.a = em.a /\ e.window = em.window
      /\ e.video_mode = em.video_mode /\ e.zoom = em.zoom
  BY <1>1, Switched
<1>3. /\ dicom' = dicom
      /\ reg' = Overlay!em9010_overlay_update(e, reg)
      /\ em' = [e EXCEPT !.double_y = double]
      /\ changed' = Overlay!ChipWritten(changed, e) \cup Overlay!Moved(em')
  BY DEF Overlay!OverlaySwitch, Overlay!Updated
<1> HIDE DEF e
<1>4. Overlay!ChipWritten(changed, e) \subseteq changed' /\ RegistersOK(reg)
  BY <1>3
<1>5. /\ SettingsOK(em)' /\ RegistersOK(reg)' /\ ChipHolds(em, reg, changed)'
      /\ em'.double_y = double /\ em'.a = e.a /\ em'.window = e.window
      /\ em'.enabled = e.enabled
      /\ em'.video_mode = e.video_mode /\ em'.zoom = e.zoom
      /\ em'.xres = e.xres /\ em'.yres = e.yres
  BY ONLY <1>2, <1>3, <1>4, ChipKept, double \in BOOLEAN
<1>6. "window" \notin changed' => "window" \notin changed /\ double = em.double_y
  BY <1>2, <1>3, <1>5 DEF Overlay!ChipWritten, Overlay!Moved
<1>7. double = em.double_y => Target(em') = Target(em)
  <2>1. /\ em'.a = em.a /\ em'.window = em.window /\ em'.enabled = em.enabled
        /\ em'.video_mode = em.video_mode /\ em'.zoom = em.zoom
        /\ em'.xres = em.xres /\ em'.yres = em.yres
    BY <1>1, <1>2, <1>5 DEF SettingsOK
  <2>2. QED BY ONLY <1>5, <2>1, SameTarget
<1>8. PlaceHolds(em, dicom, changed)'
  BY <1>1, <1>2, <1>3, <1>5, <1>6, <1>7 DEF PlaceHolds
<1>9. QED BY <1>3, <1>5, <1>8

\* Overlay mode is turned off.
LEMMA OverlayOffKeeps ==
  ASSUME OverlayInv, NEW double \in BOOLEAN, NEW answers \in BOOLEAN,
         Overlay!OverlayOff(double, answers)
  PROVE  OverlayInv'
<1> USE DEF OverlayInv
<1> DEFINE e == [em EXCEPT !.enabled = FALSE, !.mode = "OFF"]
           d == Overlay!em8300_dicom_enable(e, dicom)
           u == Overlay!em8300_dicom_update(e, d, answers)
<1>1. /\ SettingsOK(e) /\ ~e.enabled
      /\ e.a = em.a /\ e.window = em.window
      /\ e.video_mode = em.video_mode /\ e.zoom = em.zoom
  BY SwitchedOff
<1>2. /\ dicom' = Overlay!em8300_dicom_enable(e, u)
      /\ reg' = Overlay!em9010_overlay_update(e, reg)
      /\ em' = [e EXCEPT !.double_y = double]
      /\ changed' = Overlay!ChipWritten(Overlay!Placed(changed, e, answers), e)
  BY DEF Overlay!OverlayOff, Overlay!Updated
<1>3. DicomOK(d)
  BY <1>1, Enabled
<1> HIDE DEF e, d
<1>4. Overlay!ChipWritten(Overlay!Placed(changed, e, answers), e) \subseteq changed'
      /\ RegistersOK(reg)
  BY <1>2
<1>5. /\ SettingsOK(em)' /\ RegistersOK(reg)' /\ ChipHolds(em, reg, changed)'
      /\ em'.double_y = double /\ em'.a = e.a /\ em'.window = e.window
      /\ em'.enabled = e.enabled
      /\ em'.video_mode = e.video_mode /\ em'.zoom = e.zoom
      /\ em'.xres = e.xres /\ em'.yres = e.yres
  BY ONLY <1>1, <1>2, <1>4, ChipKept, double \in BOOLEAN
<1>6. /\ DicomOK(u)
      /\ answers => u.frame = Target(e).frame /\ u.visible = Target(e).visible
  BY <1>1, <1>3, Shown DEF SettingsOK
<1> HIDE DEF u
<1>7. /\ DicomOK(dicom') /\ dicom'.tvout.to = "tv"
      /\ dicom'.frame = u.frame /\ dicom'.visible = u.visible
  BY <1>1, <1>2, <1>6, Enabled
<1>8. "window" \notin changed' => answers
  BY <1>1, <1>2 DEF Overlay!ChipWritten, Overlay!Placed
<1>9. Target(em') = Target(e)
  BY <1>1, <1>5, SameTarget
<1>10. PlaceHolds(em, dicom, changed)'
  BY <1>1, <1>5, <1>6, <1>7, <1>8, <1>9 DEF PlaceHolds
<1>11. QED BY <1>5, <1>7, <1>10

\* A new window: it is shown at once in overlay mode, and the TV picture updated
\* otherwise.
LEMMA WindowKeeps ==
  ASSUME OverlayInv, NEW answers \in BOOLEAN, NEW w \in Windows,
         Overlay!em8300_ioctl_overlay_setwindow(w, answers)
  PROVE  OverlayInv'
<1> USE DEF OverlayInv
<1> DEFINE e == [em EXCEPT !.window = w]
           on == em.enabled \/ answers
<1>1. /\ SettingsOK(e) /\ e.enabled = em.enabled /\ e.mode = em.mode /\ e.a = em.a
  BY DEF SettingsOK
<1>2. /\ em' = e /\ reg' = reg
      /\ changed' = Overlay!Placed(changed, e, on)
      /\ dicom' = IF e.enabled THEN Overlay!Window(e, dicom)
                  ELSE Overlay!em8300_dicom_update(e, dicom, answers)
  <2>1. /\ em' = e /\ reg' = reg
        /\ dicom' = IF em.enabled THEN Overlay!Window(em', dicom)
                    ELSE Overlay!em8300_dicom_update(em', dicom, answers)
        /\ changed' = Overlay!Placed(changed, em', on)
    BY DEF Overlay!em8300_ioctl_overlay_setwindow
  <2>2. e.enabled = em.enabled
    BY <1>1
  <2>3. QED BY ONLY <2>1, <2>2
<1> HIDE DEF e
<1>3. "window" \notin changed' => on /\ (e.enabled => e.a.XCORR >= 800)
  BY <1>2 DEF Overlay!Placed
<1>4. \A x : x # "window" => (x \in changed <=> x \in changed')
  BY <1>2 DEF Overlay!Placed
<1>5. ChipHolds(em, reg, changed)'
  BY <1>1, <1>2, <1>4 DEF ChipHolds, Overlay!Signal, Overlay!Key
<1>6. CASE e.enabled
  <2>1. dicom' = IF e.a.XCORR < 800 THEN dicom
                 ELSE [dicom EXCEPT !.frame = Target(e).frame, !.visible = Target(e).visible]
    BY <1>2, <1>6 DEF Overlay!Window, Target
  <2>2. e.a.XCORR \in Int
    BY <1>1 DEF SettingsOK
  <2>3. /\ DicomOK(dicom') /\ dicom'.tvout = dicom.tvout
        /\ e.a.XCORR >= 800 =>
             dicom'.frame = Target(e).frame /\ dicom'.visible = Target(e).visible
    BY <2>1, <2>2 DEF DicomOK
  <2>4. PlaceHolds(em, dicom, changed)'
    BY <1>1, <1>2, <1>3, <1>6, <2>3 DEF PlaceHolds
  <2>5. QED BY <1>1, <1>2, <1>5, <2>3, <2>4
<1>7. CASE ~e.enabled
  <2>1. /\ DicomOK(dicom') /\ dicom'.tvout.to = dicom.tvout.to
        /\ answers => dicom'.frame = Target(e).frame /\ dicom'.visible = Target(e).visible
    BY <1>1, <1>2, <1>7, Shown DEF SettingsOK
  <2>2. PlaceHolds(em, dicom, changed)'
    BY <1>1, <1>2, <1>3, <1>7, <2>1 DEF PlaceHolds
  <2>3. QED BY <1>1, <1>2, <1>5, <2>1, <2>2
<1>8. QED BY <1>6, <1>7

\* A new resolution of the screen.
LEMMA ScreenKeeps ==
  ASSUME OverlayInv, NEW double \in BOOLEAN, NEW s \in Screens, NEW count1 \in Counts,
         Overlay!em8300_ioctl_overlay_setscreen(s, count1, double)
  PROVE  OverlayInv'
<1> USE DEF OverlayInv
<1> DEFINE e == Overlay!SetRes(em, s, count1)
           r == [reg EXCEPT !.divider = Overlay!loc_2A66E(e.rate, e.xres).divider]
<1>1. /\ SettingsOK(e) /\ e.enabled = em.enabled /\ e.mode = em.mode
      /\ e.window = em.window /\ e.video_mode = em.video_mode /\ e.zoom = em.zoom
      /\ e.a.XOFFSET = em.a.XOFFSET /\ e.a.YOFFSET = em.a.YOFFSET
  BY Scale
<1>2. /\ dicom' = dicom
      /\ reg' = Overlay!em9010_overlay_update(e, r)
      /\ em' = [e EXCEPT !.double_y = double]
      /\ changed' = Overlay!ChipWritten(changed, e)
                    \cup (IF em.enabled THEN Overlay!Moved(em') ELSE {})
  BY DEF Overlay!em8300_ioctl_overlay_setscreen
<1>3. RegistersOK(r)
  BY DEF RegistersOK
<1> HIDE DEF e, r
<1>4. Overlay!ChipWritten(changed, e) \subseteq changed'
  BY <1>2
<1>5. /\ SettingsOK(em)' /\ RegistersOK(reg)' /\ ChipHolds(em, reg, changed)'
      /\ em'.double_y = double /\ em'.a = e.a /\ em'.window = e.window
      /\ em'.enabled = e.enabled
      /\ em'.video_mode = e.video_mode /\ em'.zoom = e.zoom
      /\ em'.xres = e.xres /\ em'.yres = e.yres
  BY ONLY <1>1, <1>2, <1>3, <1>4, ChipKept, double \in BOOLEAN
<1>6. em.enabled /\ "window" \notin changed' =>
         /\ em'.double_y = em.double_y /\ em'.a.XCORR = em.a.XCORR
         /\ em'.xres = em.xres /\ em'.yres = em.yres
  BY ONLY <1>2 DEF Overlay!Moved
<1>7. "window" \notin changed' => "window" \notin changed
  BY ONLY <1>2 DEF Overlay!ChipWritten
<1>8. "window" \notin changed' => Target(em') = Target(em)
  BY <1>1, <1>5, <1>6, SameTarget
<1>9. PlaceHolds(em, dicom, changed)'
  BY <1>1, <1>2, <1>5, <1>7, <1>8 DEF PlaceHolds
<1>10. QED BY <1>2, <1>5, <1>9

\* A new attribute: two of them go to the chip at once, the others with the next update.
LEMMA AttributeKeeps ==
  ASSUME OverlayInv, NEW a \in Attributes, Overlay!em9010_set_attribute(a[1], a[2])
  PROVE  OverlayInv'
<1> USE DEF OverlayInv
<1> DEFINE k == a[1]
           v == a[2]
<1>1. v \in Int
  BY OverlayConstants DEF Overlay!OverlayAssumption
<1>2. /\ em' = [em EXCEPT !.a = [@ EXCEPT ![k] = v]]
      /\ reg' = [reg EXCEPT !.r7 = IF k = "JITTER" THEN Overlay!Jitter(@, v) ELSE @,
                            !.r6 = IF k = "STABILITY" THEN v % 256 ELSE @]
      /\ changed' = changed \cup
           (CASE k \in {"XOFFSET", "YOFFSET", "XCORR"} ->
                   IF em.enabled THEN {"window"} ELSE {}
              [] k \in {"KEYCOLOR_UPPER", "KEYCOLOR_LOWER"} -> {"key"}
              [] k = "JITTER" ->
                   IF (em.a.JITTER % 256) \div 16 = 0 THEN {} ELSE {"signal"}
              [] OTHER -> {})
      /\ dicom' = dicom
  BY DEF Overlay!em9010_set_attribute, Overlay!AttributeWritten
<1> HIDE DEF k, v
<1>3. SettingsOK(em')
  BY <1>1, <1>2 DEF SettingsOK
<1>4. /\ em'.enabled = em.enabled /\ em'.mode = em.mode
      /\ em'.window = em.window /\ em'.video_mode = em.video_mode /\ em'.zoom = em.zoom
      /\ em'.double_y = em.double_y /\ em'.xres = em.xres /\ em'.yres = em.yres
      /\ \A n \in AttributeNames : em'.a[n] = IF n = k THEN v ELSE em.a[n]
  BY <1>2 DEF SettingsOK
<1>5. /\ changed \subseteq changed'
      /\ "window" \notin changed' =>
           (em.enabled => k \notin {"XOFFSET", "YOFFSET", "XCORR"})
      /\ "key" \notin changed' => k \notin {"KEYCOLOR_UPPER", "KEYCOLOR_LOWER"}
      /\ "signal" \notin changed' => (k = "JITTER" => (em.a.JITTER % 256) \div 16 = 0)
  BY <1>2
<1>6. "window" \notin changed' => Target(em') = Target(em)
  BY <1>4, <1>5, SameTarget DEF AttributeNames
<1>7. PlaceHolds(em, dicom, changed)'
  BY <1>2, <1>4, <1>5, <1>6 DEF PlaceHolds
<1>8. /\ DOMAIN reg' = DOMAIN reg
      /\ reg'.r6 = IF k = "STABILITY" THEN v % 256 ELSE reg.r6
      /\ reg'.r7 = IF k = "JITTER" THEN Overlay!Jitter(reg.r7, v) ELSE reg.r7
      /\ reg'.r9 = reg.r9 /\ reg'.r10 = reg.r10 /\ reg'.r12 = reg.r12
      /\ reg'.key = reg.key
  BY <1>2 DEF RegistersOK
<1>9. RegistersOK(reg') /\ reg'.r7 % 16 = em'.a.JITTER % 16
  <2>1. CASE k = "JITTER"
    <3>1. /\ v \in Int /\ reg.r7 \in Nat
      BY <1>1, <2>1 DEF RegistersOK
    <3>2. /\ Overlay!Jitter(reg.r7, v) % 16 = v % 16 /\ Overlay!Jitter(reg.r7, v) \in Nat
      BY ONLY <3>1, Jitters
    <3>3. em'.a.JITTER = v
      BY <1>4, <2>1 DEF AttributeNames
    <3>4. QED BY <1>8, <2>1, <3>2, <3>3 DEF RegistersOK
  <2>2. CASE k # "JITTER"
    BY <1>4, <1>8, <2>2 DEF RegistersOK, ChipHolds, AttributeNames
  <2>3. QED BY <2>1, <2>2
<1>10. "signal" \notin changed' =>
         reg'.r7 = Overlay!Signal(em'.a.JITTER, IF em'.enabled THEN "SIGNAL_WITH_VGA" ELSE "VGA_ONLY")
  <2> SUFFICES ASSUME "signal" \notin changed'
               PROVE  reg'.r7 = Overlay!Signal(em'.a.JITTER, IF em'.enabled THEN "SIGNAL_WITH_VGA" ELSE "VGA_ONLY")
    OBVIOUS
  <2>1. reg.r7 = Overlay!Signal(em.a.JITTER, IF em.enabled THEN "SIGNAL_WITH_VGA" ELSE "VGA_ONLY")
    BY <1>5 DEF ChipHolds
  <2>2. CASE k = "JITTER"
    <3>1. reg'.r7 = Overlay!Jitter(reg.r7, v) /\ em'.a.JITTER = v /\ v \in Int
          /\ em.a.JITTER \in Int /\ (em.a.JITTER % 256) \div 16 = 0
      BY <1>1, <1>4, <1>5, <1>8, <2>2 DEF AttributeNames, SettingsOK
    <3> DEFINE h == IF em.enabled THEN 4 ELSE 8
    <3>2. /\ h \in 0 .. 15
          /\ reg.r7 = Overlay!Over(h, em.a.JITTER)
          /\ Overlay!Signal(em'.a.JITTER, IF em'.enabled THEN "SIGNAL_WITH_VGA" ELSE "VGA_ONLY")
               = Overlay!Over(h, v)
      BY <1>4, <2>1, <3>1, SignalBits
    <3> HIDE DEF h
    <3>3. QED BY <3>1, <3>2, NewJitter
  <2>3. CASE k # "JITTER"
    BY <1>4, <1>8, <2>1, <2>3 DEF Overlay!Signal, AttributeNames
  <2>4. QED BY <2>2, <2>3
<1>11. ChipHolds(em, reg, changed)'
  <2>1. "key" \notin changed' => Overlay!Key(em') = Overlay!Key(em)
    BY <1>4, <1>5 DEF AttributeNames, Overlay!Key
  <2>2. reg'.r6 = em'.a.STABILITY % 256
    BY <1>4, <1>8 DEF AttributeNames, ChipHolds
  <2>3. QED BY <1>4, <1>5, <1>8, <1>9, <1>10, <2>1, <2>2 DEF ChipHolds
<1>12. QED BY <1>2, <1>3, <1>7, <1>9, <1>11

\* A new signal mode.
LEMMA SignalKeeps ==
  ASSUME OverlayInv, NEW s \in {"SIGNAL_ONLY", "SIGNAL_WITH_VGA", "VGA_ONLY"},
         Overlay!em9010_overlay_set_signalmode(s)
  PROVE  OverlayInv'
<1> USE DEF OverlayInv
<1> DEFINE r7 == Overlay!Signal(em.a.JITTER, s)
<1>1. /\ reg' = [reg EXCEPT !.r7 = r7] /\ em' = em /\ dicom' = dicom
      /\ changed' = changed \cup {"signal"}
  BY DEF Overlay!em9010_overlay_set_signalmode
<1>2. r7 \in Nat /\ r7 % 16 = em.a.JITTER % 16
  BY Signals DEF SettingsOK
<1> HIDE DEF r7
<1>3. RegistersOK(reg') /\ ChipHolds(em, reg, changed)'
  BY <1>1, <1>2 DEF RegistersOK, ChipHolds
<1>4. PlaceHolds(em, dicom, changed)'
  BY <1>1 DEF PlaceHolds
<1>5. QED BY <1>1, <1>3, <1>4

\* A new TV mode, aspect ratio or zoom.
LEMMA PictureKeeps ==
  ASSUME OverlayInv, NEW e, NEW d, NEW answers \in BOOLEAN,
         SettingsOK(e), e.enabled = em.enabled, e.mode = em.mode,
         e.a = em.a, DicomOK(d), d.tvout.to = dicom.tvout.to,
         Overlay!SetPicture(e, d, answers)
  PROVE  OverlayInv'
<1> USE DEF OverlayInv
<1>1. /\ em' = e /\ dicom' = Overlay!em8300_dicom_update(e, d, answers)
      /\ changed' = Overlay!Placed(changed, e, answers) /\ reg' = reg
  BY DEF Overlay!SetPicture
<1>2. "window" \notin changed' => answers /\ (e.enabled => e.a.XCORR >= 800)
  BY <1>1 DEF Overlay!Placed
<1>3. \A x : x # "window" => (x \in changed <=> x \in changed')
  BY <1>1 DEF Overlay!Placed
<1>4. ChipHolds(em, reg, changed)'
  BY <1>1, <1>3 DEF ChipHolds, Overlay!Signal, Overlay!Key
<1>5. e.enabled \in BOOLEAN /\ e.a.XCORR \in Int
  BY DEF SettingsOK
<1>6. /\ DicomOK(dicom') /\ dicom'.tvout.to = d.tvout.to
      /\ answers /\ (e.enabled => e.a.XCORR >= 800) =>
           dicom'.frame = Target(e).frame /\ dicom'.visible = Target(e).visible
  BY <1>1, <1>5, Shown
<1>7. PlaceHolds(em, dicom, changed)'
  BY <1>1, <1>2, <1>6 DEF PlaceHolds
<1>8. QED BY <1>1, <1>4, <1>6, <1>7

\* Every operation on the overlay keeps the invariant.
LEMMA OverlayStep == OverlayInv /\ Overlay!Next => OverlayInv'
<1> SUFFICES ASSUME OverlayInv,
                    NEW double \in BOOLEAN, NEW answers \in BOOLEAN,
                    \/ \E mo \in {"RECTANGLE", "OVERLAY"} :
                         \/ Overlay!OverlayOn(mo, double, answers)
                         \/ Overlay!OverlaySwitch(mo, double)
                    \/ Overlay!OverlayOff(double, answers)
                    \/ \E w \in Windows : Overlay!em8300_ioctl_overlay_setwindow(w, answers)
                    \/ \E s \in Screens, c \in Counts :
                         Overlay!em8300_ioctl_overlay_setscreen(s, c, double)
                    \/ \E a \in Attributes : Overlay!em9010_set_attribute(a[1], a[2])
                    \/ \E s \in {"SIGNAL_ONLY", "SIGNAL_WITH_VGA", "VGA_ONLY"} :
                         Overlay!em9010_overlay_set_signalmode(s)
                    \/ \E m \in DOMAIN Overlay!tvmodematrix :
                         Overlay!em8300_ioctl_setvideomode(m, answers)
                    \/ \E r \in {"4:3", "16:9"} :
                         Overlay!em8300_ioctl_setaspectratio(r, answers)
                    \/ \E z \in Zooms : Overlay!store_zoom(z, answers)
             PROVE  OverlayInv'
  BY DEF Overlay!Next
<1>1. ASSUME NEW m \in DOMAIN Overlay!tvmodematrix,
             Overlay!em8300_ioctl_setvideomode(m, answers)
      PROVE  OverlayInv'
  <2> DEFINE e == [em EXCEPT !.video_mode = m]
             d == Overlay!em8300_dicom_enable(e, dicom)
  <2>1. Overlay!SetPicture(e, d, answers)
    BY <1>1 DEF Overlay!em8300_ioctl_setvideomode
  <2>2. SettingsOK(e) /\ e.enabled = em.enabled /\ e.mode = em.mode /\ e.a = em.a
    BY DEF OverlayInv, SettingsOK
  <2>3. DicomOK(d) /\ d.tvout.to = dicom.tvout.to
    <3>1. DicomOK(dicom) /\ dicom.tvout.to = IF em.enabled THEN "overlay" ELSE "tv"
      BY DEF OverlayInv, PlaceHolds
    <3>2. DicomOK(d) /\ d.tvout.to = IF e.enabled THEN "overlay" ELSE "tv"
      BY ONLY <3>1, Enabled DEF d
    <3>3. QED BY <2>2, <3>1, <3>2
  <2> HIDE DEF e, d
  <2>4. QED BY ONLY OverlayInv, <2>1, <2>2, <2>3, PictureKeeps, answers \in BOOLEAN
<1>2. ASSUME NEW r, Overlay!em8300_ioctl_setaspectratio(r, answers)
      PROVE  OverlayInv'
  <2> DEFINE e == [em EXCEPT !.aspect = r]
  <2>1. Overlay!SetPicture(e, dicom, answers)
    BY <1>2 DEF Overlay!em8300_ioctl_setaspectratio
  <2>2. SettingsOK(e) /\ e.enabled = em.enabled /\ e.mode = em.mode /\ e.a = em.a
    BY DEF OverlayInv, SettingsOK
  <2>3. DicomOK(dicom)
    BY DEF OverlayInv
  <2> HIDE DEF e
  <2>4. QED BY ONLY OverlayInv, <2>1, <2>2, <2>3, PictureKeeps, answers \in BOOLEAN
<1>3. ASSUME NEW z, Overlay!store_zoom(z, answers)
      PROVE  OverlayInv'
  <2> DEFINE e == [em EXCEPT !.zoom = z]
  <2>1. Overlay!SetPicture(e, dicom, answers)
    BY <1>3 DEF Overlay!store_zoom
  <2>2. SettingsOK(e) /\ e.enabled = em.enabled /\ e.mode = em.mode /\ e.a = em.a
    BY DEF OverlayInv, SettingsOK
  <2>3. DicomOK(dicom)
    BY DEF OverlayInv
  <2> HIDE DEF e
  <2>4. QED BY ONLY OverlayInv, <2>1, <2>2, <2>3, PictureKeeps, answers \in BOOLEAN
<1>4. QED
  BY <1>1, <1>2, <1>3, OverlayOnKeeps, OverlaySwitchKeeps, OverlayOffKeeps, WindowKeeps,
     ScreenKeeps, AttributeKeeps, SignalKeeps

\* The overlay part of a step of the whole.
LEMMA OverlayPart == part = "overlay" /\ [Next]_vars => [Overlay!Next]_overlayVars /\ part' = part
<1> SUFFICES ASSUME part = "overlay", [Next]_vars
             PROVE  (Overlay!Next \/ UNCHANGED overlayVars) /\ part' = part
  OBVIOUS
<1>1. CASE Next
  BY <1>1 DEF Next
<1>2. CASE UNCHANGED vars
  BY <1>2 DEF vars, overlayVars, shared, overlay
<1>3. QED
  BY <1>1, <1>2

\* The invariant of the overlay.
LEMMA OverlayHolds == Spec => [](part = "overlay" => OverlayInv)
<1>1. Init => (part = "overlay" => OverlayInv)
  BY OverlayStarts DEF Init
<1>2. (part = "overlay" => OverlayInv) /\ [Next]_vars => (part = "overlay" => OverlayInv)'
  <2> SUFFICES ASSUME part = "overlay" => OverlayInv, [Next]_vars, part' = "overlay"
               PROVE  OverlayInv'
    OBVIOUS
  <2>1. part' = part
    BY DEF Next, vars
  <2>2. Overlay!Next \/ UNCHANGED overlayVars
    BY <2>1, OverlayPart
  <2>3. CASE UNCHANGED overlayVars
    BY <2>1, <2>3
    DEF overlayVars, OverlayInv, ChipHolds, PlaceHolds, SettingsOK, RegistersOK, DicomOK
  <2>4. QED BY <2>1, <2>2, <2>3, OverlayStep
<1>3. QED BY <1>1, <1>2, PTL DEF Spec

\* The chip and the display controller follow the settings, with the exceptions that
\* `changed` records, for any windows, screens and counts and any values of the
\* attributes: as many bits of them as a register has.
THEOREM ChipFollowsSettings == Spec => []ChipFollows
<1>1. (part = "overlay" => OverlayInv) => ChipFollows
  BY DEF OverlayInv, ChipFollows, Overlay!ChipFollows, ChipHolds, PlaceHolds, Target
<1>2. QED BY <1>1, OverlayHolds, PTL

-------------------------------------------------------------------------------
(* Where the overlay puts the picture. *)

\* Division by a number that is not fixed: what tells the quotient from other numbers.
LEMMA Quotients ==
  ASSUME NEW n \in Nat \ {0}, NEW x \in Nat, NEW q, q = x \div n
  PROVE  q \in Nat /\ n * q <= x /\ x < n * q + n
OBVIOUS

\* A larger number has a larger quotient, and two quotients lose more than one.
LEMMA QuotientsRise ==
  ASSUME NEW n \in Nat \ {0}, NEW x \in Nat, NEW y \in Nat
  PROVE  /\ x <= y => x \div n <= y \div n
         /\ (x \div n) + (y \div n) <= (x + y) \div n
<1> DEFINE a == x \div n
           b == y \div n
           s == (x + y) \div n
<1>1. /\ a \in Nat /\ n * a <= x /\ x < n * a + n
      /\ b \in Nat /\ n * b <= y /\ y < n * b + n
      /\ s \in Nat /\ n * s <= x + y /\ x + y < n * s + n
  <2>1. x + y \in Nat
    OBVIOUS
  <2>2. QED BY <2>1, Quotients
<1> HIDE DEF a, b, s
<1>2. \A k \in Int : k >= 1 => n * k >= n
  OBVIOUS
<1>3. x <= y => a <= b
  <2> SUFFICES ASSUME x <= y, a > b PROVE FALSE
    BY <1>1
  <2>1. n * (a - b) >= n /\ n * (a - b) = n * a - n * b
    BY <1>1, <1>2
  <2>2. QED BY <1>1, <2>1
<1>4. a + b <= s
  <2> SUFFICES ASSUME a + b > s PROVE FALSE
    BY <1>1
  <2>1. n * (a + b - s) >= n /\ n * (a + b - s) = n * a + n * b - n * s
    BY <1>1, <1>2
  <2>2. QED BY <1>1, <2>1
<1>5. QED BY <1>3, <1>4 DEF a, b, s

\* A distance in the coordinates of the card, at scale n.
Scaled(v, n) == Overlay!Quot(v * 1000, n)

\* It is rounded toward zero, on either side of it.
LEMMA ScaledIs ==
  ASSUME NEW n \in Nat \ {0}, NEW v \in Nat
  PROVE  /\ Scaled(v, n) = (v * 1000) \div n /\ Scaled(v, n) \in Nat
         /\ Scaled(-v, n) = -Scaled(v, n)
<1> DEFINE x == v * 1000
           q == x \div n
<1>1. x \in Nat /\ (-v) * 1000 = -x /\ -(-x) = x
  OBVIOUS
<1>2. q \in Nat
  BY <1>1, Quotients
<1>3. Scaled(v, n) = q
  BY <1>1 DEF Scaled, Overlay!Quot
<1>4. Scaled(-v, n) = -q
  <2>1. CASE x = 0
    BY <1>1, <2>1 DEF Scaled, Overlay!Quot
  <2>2. CASE x > 0
    BY <1>1, <2>2 DEF Scaled, Overlay!Quot
  <2>3. QED BY <1>1, <2>1, <2>2
<1>5. QED BY <1>2, <1>3, <1>4

\* A longer distance is longer at any scale, and two lose more than their sum.
LEMMA ScaledRises ==
  ASSUME NEW n \in Nat \ {0}
  PROVE  /\ \A v \in Nat, w \in Nat : v <= w => Scaled(v, n) <= Scaled(w, n)
         /\ \A v \in Nat, w \in Nat : Scaled(v, n) + Scaled(w, n) <= Scaled(v + w, n)
<1> SUFFICES ASSUME NEW v \in Nat, NEW w \in Nat
             PROVE  /\ v <= w => Scaled(v, n) <= Scaled(w, n)
                    /\ Scaled(v, n) + Scaled(w, n) <= Scaled(v + w, n)
  OBVIOUS
<1>1. /\ Scaled(v, n) = (v * 1000) \div n /\ Scaled(w, n) = (w * 1000) \div n
      /\ Scaled(v + w, n) = (v * 1000 + w * 1000) \div n
  <2>1. v + w \in Nat /\ (v + w) * 1000 = v * 1000 + w * 1000
    OBVIOUS
  <2>2. Scaled(v + w, n) = ((v + w) * 1000) \div n
    BY ONLY <2>1, n \in Nat \ {0}, ScaledIs
  <2>3. Scaled(v, n) = (v * 1000) \div n /\ Scaled(w, n) = (w * 1000) \div n
    BY ScaledIs
  <2>4. QED BY ONLY <2>1, <2>2, <2>3
<1>2. v * 1000 \in Nat /\ w * 1000 \in Nat /\ (v <= w => v * 1000 <= w * 1000)
  OBVIOUS
<1> DEFINE x == v * 1000
           y == w * 1000
<1> HIDE DEF x, y
<1>3. /\ x <= y => x \div n <= y \div n
      /\ (x \div n) + (y \div n) <= (x + y) \div n
  BY ONLY <1>2, n \in Nat \ {0}, QuotientsRise DEF x, y
<1>4. QED BY ONLY <1>1, <1>2, <1>3 DEF x, y

\* The same for places left of the screen.
LEMMA ScaledInts ==
  ASSUME NEW n \in Nat \ {0}
  PROVE  /\ \A v \in Int : Scaled(v, n) \in Int /\ (v >= 0 => Scaled(v, n) >= 0)
         /\ \A v \in Int, w \in Int : v <= w => Scaled(v, n) <= Scaled(w, n)
         /\ \A v \in Int, w \in Int : v <= 0 /\ v + w >= 0
              => Scaled(v + w, n) <= Scaled(v, n) + Scaled(w, n)
<1>1. \A v \in Nat : Scaled(v, n) \in Nat /\ Scaled(-v, n) = -Scaled(v, n)
  BY ScaledIs
<1>2. \A v \in Int : v < 0 => -v \in Nat /\ -(-v) = v
  OBVIOUS
<1>3. \A v \in Int : v < 0 => Scaled(v, n) \in Int /\ Scaled(v, n) = -Scaled(-v, n) /\ Scaled(v, n) <= 0
  BY <1>1, <1>2
<1>4. \A v \in Int : Scaled(v, n) \in Int /\ (v >= 0 => Scaled(v, n) >= 0)
  BY <1>1, <1>3
<1>5. ASSUME NEW v \in Int, NEW w \in Int, v <= w
      PROVE  Scaled(v, n) <= Scaled(w, n)
  <2>1. CASE v >= 0
    BY <1>5, <2>1, ScaledRises
  <2>2. CASE v < 0 /\ w >= 0
    BY <1>3, <1>4, <2>2
  <2>3. CASE w < 0
    <3>1. Scaled(-w, n) <= Scaled(-v, n)
      BY <1>5, <2>3, ScaledRises
    <3>2. QED BY <1>3, <1>4, <1>5, <2>3, <3>1
  <2>4. QED BY <1>5, <2>1, <2>2, <2>3
<1>6. ASSUME NEW v \in Int, NEW w \in Int, v <= 0, v + w >= 0
      PROVE  Scaled(v + w, n) <= Scaled(v, n) + Scaled(w, n)
  <2>1. v + w \in Nat /\ -v \in Nat /\ (v + w) + (-v) = w /\ -(-v) = v
    BY <1>6
  <2>2. Scaled(v + w, n) + Scaled(-v, n) <= Scaled(w, n)
    BY <2>1, ScaledRises
  <2>3. Scaled(v, n) = -Scaled(-v, n)
    BY <1>1, <2>1
  <2>4. QED BY <1>4, <2>1, <2>2, <2>3
<1>7. QED BY <1>4, <1>5, <1>6

\* The picture of a TV mode at every zoom.
LEMMA ZoomFits ==
  ASSUME NEW l \in {576, 480}, NEW z \in 1 .. 100, NEW x \in Int, NEW y \in Int
  PROVE  LET left == x + 2 * (((100 - z) * 720 + 200) \div 400)
             top == y + ((100 - z) * l + 100) \div 200
             right == left + ((z * 720 + 50) \div 100) - 1
             bottom == top + ((z * l + 50) \div 100) - 1
         IN  /\ left >= x /\ right <= x + 719 /\ top >= y /\ bottom <= y + l - 1
             /\ left <= right /\ top <= bottom
             /\ (top + bottom) - (y + y + l - 1) \in -1 .. 1
             /\ (left + right) - (x + x + 719) \in -2 .. 2
<1>1. CASE l = 576
  BY <1>1
<1>2. CASE l = 480
  BY <1>2
<1>3. QED BY <1>1, <1>2

\* The picture of a TV mode, whose first pixel is at x and first line at y.
LEMMA TvRectIs ==
  ASSUME NEW m, NEW l, NEW x, NEW y, Overlay!tvmodematrix[m] = <<l, 720, y, x>>, NEW z
  PROVE  LET left == x + 2 * (((100 - z) * 720 + 200) \div 400)
             top == y + ((100 - z) * l + 100) \div 200
         IN  Overlay!TvRect(m, z) =
               [left |-> left, top |-> top,
                right |-> left + ((z * 720 + 50) \div 100) - 1,
                bottom |-> top + ((z * l + 50) \div 100) - 1]
BY DEF Overlay!TvRect, Overlay!Rect

\* All TV modes have 720 pixels, and 576 or 480 lines.
LEMMA TvModes ==
  \A m \in DOMAIN Overlay!tvmodematrix :
    \E l \in {576, 480}, x \in Int, y \in Int : Overlay!tvmodematrix[m] = <<l, 720, y, x>>
BY DEF Overlay!tvmodematrix

\* The same, for a divisor and a number that are not named yet.
LEMMA QuotientsAre ==
  \A n \in Nat \ {0}, x \in Nat :
     x \div n \in Nat /\ n * (x \div n) <= x /\ x < n * (x \div n) + n
BY Quotients

\* The rates that the chip's counters can give, and the heights that the ioctl takes.
LineRates == {k \in Nat : k <= 82500}
Heights == {k \in Nat : k <= 2000}

\* The rate of the lines, whatever the chip has counted, is one of these.
LEMMA RateFits ==
  ASSUME NEW count1 \in Nat, NEW last \in LineRates, NEW yres \in Heights
  PROVE  LET c == Overlay!loc_2bcfe(count1, last, yres)
         IN  c.last \in LineRates /\ c.rate \in LineRates
<1> DEFINE top == 82500
           n == count1 + 2
           x == 165000
           l0 == x \div n
           c == Overlay!loc_2bcfe(count1, last, yres)
           l == IF l0 \in last - 1 .. last + 1 THEN last ELSE l0
           far == l \notin 100 .. 1000 /\ yres # 0
           y == yres * 62
           h == 100
           guess == y \div h
<1>1. c = [last |-> l, rate |-> IF far THEN guess ELSE l]
  BY DEF Overlay!loc_2bcfe
<1>0. last \in Nat /\ last <= top /\ yres \in Nat /\ y \in Nat /\ y <= 124000
  BY DEF LineRates, Heights
<1> HIDE DEF c, far, y
<1>h. h \in Nat \ {0}
  OBVIOUS
<1> HIDE DEF h
<1>2. guess \in Nat /\ h * guess <= y
  <2>1. y \in Nat
    BY <1>0
  <2>2. QED BY ONLY <1>h, <2>1, QuotientsAre
<1> HIDE DEF guess
<1>3. n \in Nat \ {0} /\ n >= 2 /\ x \in Nat /\ x <= 2 * top
  OBVIOUS
<1> HIDE DEF n, x
<1>4. l0 \in Nat /\ n * l0 <= x
  <2>1. n \in Nat \ {0} /\ x \in Nat
    BY ONLY <1>3
  <2>2. QED BY ONLY <2>1, QuotientsAre
<1> HIDE DEF l0
<1>5. n * l0 >= 2 * l0
  BY ONLY <1>3, <1>4
<1>6. guess <= top
  BY ONLY <1>0, <1>2 DEF top, h
<1>7. l0 <= top
  BY ONLY <1>3, <1>4, <1>5 DEF top
<1> HIDE DEF top
<1>8. l \in Nat /\ l <= top
  BY ONLY <1>0, <1>4, <1>7 DEF l
<1> HIDE DEF l
<1>9. c.last \in Nat /\ c.last <= top /\ c.rate \in Nat /\ c.rate <= top
  BY ONLY <1>1, <1>2, <1>6, <1>8
<1>10. QED BY ONLY <1>9 DEF top, c, LineRates

\* The scale for any rate, and the divider, which fits its 13 bits.
LEMMA DividerFits ==
  ASSUME NEW rate \in LineRates, NEW xres
  PROVE  LET r == Overlay!loc_2A66E(rate, xres)
         IN  /\ r.xcorr \in Int /\ r.xcorr >= 800
             /\ (Overlay!Pixels(xres) > 0 => r.divider < 2^13)
<1> DEFINE r == Overlay!loc_2A66E(rate, xres)
           l6 == Overlay!Pixels(xres)
           ten == 10
           l7 == rate \div ten
           big == 70000
           fast == l6 * l7 >= big
           l4 == IF fast THEN (l6 * l7 * 1000) \div 70000 ELSE 1000
           l8 == IF fast THEN big \div l7 ELSE l6
           l9 == IF fast THEN 70000 ELSE l6 * l7
           double == IF l9 > 30000 THEN 0 ELSE 1
           l3 == l8 * 2^double - 2
           capped == IF l3 > \hfff THEN \hfff ELSE l3
           xcorr == IF l4 \in \h352 .. \hdac THEN l4 ELSE \h5dc
           v == IF capped < 0 THEN 2^16 + capped ELSE capped + double * \h1000
<1>1. r = [xcorr |-> xcorr, divider |-> v]
  BY DEF Overlay!loc_2A66E
<1> HIDE DEF r
<1>2. l6 \in Nat /\ (l6 > 0 => l6 >= 880)
  BY DEF Overlay!Pixels
<1> HIDE DEF l6
<1>3. ten \in Nat \ {0} /\ big \in Nat
  OBVIOUS
<1>4. l7 \in Nat /\ l7 <= 8250
  <2>1. rate \in Nat /\ rate <= 82500
    BY DEF LineRates
  <2>2. QED BY <2>1
<1> HIDE DEF ten, l7
<1>5. xcorr \in Int /\ xcorr >= 800
  <2> HIDE DEF l4
  <2>1. QED OBVIOUS
<1> HIDE DEF l4, xcorr
<1>6. double \in {0, 1} /\ (fast => double = 0)
  OBVIOUS
<1>7. fast => l8 \in Nat /\ l8 >= 2
  <2> SUFFICES ASSUME fast PROVE l8 \in Nat /\ l8 >= 2
    OBVIOUS
  <2>1. l8 = big \div l7
    OBVIOUS
  <2>2. l7 # 0
    BY <1>2 DEF big
  <2>3. l7 \in Nat \ {0}
    BY ONLY <1>4, <2>2
  <2> HIDE DEF l8, big, fast
  <2>4. l8 \in Nat /\ big < l7 * l8 + l7
    BY ONLY <1>3, <2>1, <2>3, QuotientsAre
  <2>5. l8 # 0 /\ l8 # 1
    BY ONLY <1>4, <2>4 DEF big
  <2>6. QED BY ONLY <2>4, <2>5
<1>8. ~fast => l8 = l6
  OBVIOUS
<1>9. 2^0 = 1 /\ 2^1 = 2 /\ 2^13 = 8192
  OBVIOUS
<1> HIDE DEF l8, l9, double, fast
<1>10. l6 > 0 => l8 \in Nat /\ l8 >= 2
  BY ONLY <1>2, <1>7, <1>8
<1>11. l6 > 0 => l3 \in Int /\ l3 >= 0
  <2>1. CASE double = 0
    <3>1. l3 = l8 * 1 - 2
      BY ONLY <1>9, <2>1 DEF l3
    <3> HIDE DEF l3
    <3>2. QED BY ONLY <1>10, <3>1
  <2>2. CASE double = 1
    <3>1. l3 = l8 * 2 - 2
      BY ONLY <1>9, <2>2 DEF l3
    <3> HIDE DEF l3
    <3>2. QED BY ONLY <1>10, <3>1
  <2>3. QED BY ONLY <1>6, <2>1, <2>2
<1> HIDE DEF l3
<1>12. l6 > 0 => v < 8192
  <2> SUFFICES ASSUME l6 > 0 PROVE v < 8192
    OBVIOUS
  <2>1. capped \in Int /\ capped >= 0 /\ capped <= 4095
    BY ONLY <1>11, l6 > 0 DEF capped
  <2> HIDE DEF capped
  <2>2. v = capped + double * 4096
    BY ONLY <2>1 DEF v
  <2> HIDE DEF v
  <2>3. CASE double = 0
    BY ONLY <2>1, <2>2, <2>3
  <2>4. CASE double = 1
    BY ONLY <2>1, <2>2, <2>4
  <2>5. QED BY ONLY <1>6, <2>3, <2>4
<1> HIDE DEF v, capped
<1>13. QED BY <1>1, <1>5, <1>9, <1>12 DEF r, l6

\* The columns of a window that touches the screen, the part on the screen from xv.
LEMMA ColumnsFit ==
  ASSUME NEW n \in Nat \ {0}, NEW x \in Int, NEW w \in Int, NEW xres \in Nat,
         x < xres, x + w > 0
  PROVE  LET xv == IF x < 0 THEN 0 ELSE x
             wv == IF x < 0 THEN w + x ELSE w
             right == IF xv + wv > xres THEN xres - xv ELSE wv
         IN  /\ Scaled(xv, n) >= 0 /\ Scaled(xv, n) >= Scaled(x, n)
             /\ Scaled(xv, n) + Scaled(right, n) <= Scaled(x, n) + Scaled(w, n)
             /\ Scaled(xv, n) + Scaled(right, n) <= Scaled(xres, n)
<1> DEFINE xv == IF x < 0 THEN 0 ELSE x
           wv == IF x < 0 THEN w + x ELSE w
           right == IF xv + wv > xres THEN xres - xv ELSE wv
           S(v) == Scaled(v, n)
<1>1. /\ \A v \in Int : S(v) \in Int /\ (v >= 0 => S(v) >= 0)
      /\ \A v \in Int, u \in Int : v <= u => S(v) <= S(u)
      /\ \A v \in Int, u \in Int : v <= 0 /\ v + u >= 0 => S(v + u) <= S(v) + S(u)
  BY ONLY n \in Nat \ {0}, ScaledInts DEF S
<1>2. \A v \in Nat, u \in Nat : S(v) + S(u) <= S(v + u)
  BY ONLY n \in Nat \ {0}, ScaledRises DEF S
<1>3. S(0) = 0
  <2>1. 0 \in Nat /\ 0 * 1000 = 0
    OBVIOUS
  <2>2. S(0) = (0 * 1000) \div n
    BY <2>1, ScaledIs DEF S
  <2>3. 0 \div n = 0
    OBVIOUS
  <2>4. QED BY ONLY <2>1, <2>2, <2>3
<1> HIDE DEF S
<1>4. /\ xv \in Nat /\ x <= xv /\ xv <= xres /\ right \in Int
      /\ right <= wv /\ xv + right <= xres
  OBVIOUS
<1>5. S(xv) >= 0 /\ S(xv) >= S(x)
  BY <1>1, <1>4
<1>6. S(xv) + S(right) <= S(x) + S(w)
  <2>1. CASE x >= 0
    <3>1. xv = x /\ right <= w
      BY <1>4, <2>1
    <3> HIDE DEF xv, right
    <3>2. S(right) <= S(w)
      BY ONLY <1>1, <1>4, <3>1, w \in Int
    <3>3. QED BY ONLY <1>1, <1>4, <3>1, <3>2, w \in Int, x \in Int
  <2>2. CASE x < 0
    <3>1. xv = 0 /\ right <= x + w /\ x <= 0 /\ x + w >= 0 /\ x + w \in Int
      BY <1>4, <2>2
    <3> HIDE DEF xv, right
    <3>2. S(right) <= S(x + w)
      BY ONLY <1>1, <1>4, <3>1
    <3>3. S(x + w) <= S(x) + S(w)
      BY ONLY <1>1, <3>1, w \in Int, x \in Int
    <3>4. S(right) \in Int /\ S(x + w) \in Int /\ S(x) \in Int /\ S(w) \in Int
      BY ONLY <1>1, <1>4, <3>1, w \in Int, x \in Int
    <3>5. QED BY ONLY <1>3, <3>1, <3>2, <3>3, <3>4
  <2>3. QED BY <2>1, <2>2
<1>7. S(xv) + S(right) <= S(xres)
  <2> HIDE DEF xv, right, wv
  <2>0. xres \in Int /\ xv \in Int /\ xv + right \in Int
    BY <1>4
  <2>1. CASE right >= 0
    <3>1. xv \in Nat /\ right \in Nat /\ right \in Int /\ xv + right <= xres
      BY ONLY <1>4, <2>1
    <3>2. S(xv) + S(right) <= S(xv + right)
      BY ONLY <1>2, <3>1
    <3>3. S(xv + right) <= S(xres)
      BY ONLY <1>1, <2>0, <3>1
    <3>4. /\ S(right) \in Int /\ S(xv) \in Int /\ S(xres) \in Int
          /\ S(xv + right) \in Int
      BY ONLY <1>1, <2>0, <3>1
    <3>5. QED BY ONLY <3>2, <3>3, <3>4
  <2>2. CASE right < 0
    <3>1. 0 \in Int /\ right \in Int /\ right <= 0 /\ xv <= xres
      BY ONLY <1>4, <2>2
    <3>2. S(right) <= S(0)
      BY ONLY <1>1, <3>1
    <3>3. S(xv) <= S(xres)
      BY ONLY <1>1, <2>0, <3>1
    <3>4. S(right) \in Int /\ S(xv) \in Int /\ S(xres) \in Int
      BY ONLY <1>1, <2>0, <3>1
    <3>5. QED BY ONLY <1>3, <3>2, <3>3, <3>4
  <2>3. QED BY <1>4, <2>1, <2>2
<1>8. QED BY ONLY <1>5, <1>6, <1>7 DEF S

\* The lines, which are not scaled.
LEMMA LinesFit ==
  ASSUME NEW y \in Int, NEW height \in Int, NEW yres \in Nat, y < yres, y + height > 0
  PROVE  LET yv == IF y < 0 THEN 0 ELSE y
             hv == IF y < 0 THEN height + y ELSE height
             down == IF y + height > yres THEN yres - y ELSE hv
             both == y < 0 /\ y + height > yres
         IN  /\ yv >= 0 /\ yv >= y /\ yv \in Int /\ down \in Int
             /\ ~both => yv + down <= y + height /\ yv + down <= yres
             /\ both => yv + down = yres - y
OBVIOUS

\* Where sub_4288c places a window: its columns and lines.
LEMMA WindowIs ==
  ASSUME NEW e, NEW w, NEW n \in Nat \ {0}, e.a.XCORR = n
  PROVE  LET h(v) == IF e.double_y THEN v \div 2 ELSE v
             x == w[1]   width == w[3]   y == h(w[2])   height == h(w[4])
             xv == IF x < 0 THEN 0 ELSE x
             wv == IF x < 0 THEN width + x ELSE width
             right == IF xv + wv > e.xres THEN e.xres - xv ELSE wv
             yv == IF y < 0 THEN 0 ELSE y
             hv == IF y < 0 THEN height + y ELSE height
             down == IF y + height > e.yres THEN e.yres - y ELSE hv
             s == Overlay!sub_4288c(w, e)
             xo == e.a.XOFFSET   yo == h(e.a.YOFFSET)
         IN  /\ s.frame.left = xo + Scaled(x, n)
             /\ s.frame.right = xo + Scaled(x, n) + Scaled(width, n) - 1
             /\ s.frame.top = yo + y /\ s.frame.bottom = yo + y + height - 1
             /\ s.visible.left = xo + Scaled(xv, n)
             /\ s.visible.right = xo + Scaled(xv, n) + Scaled(right, n) - 1
             /\ s.visible.top = yo + yv /\ s.visible.bottom = yo + yv + down - 1
BY DEF Overlay!sub_4288c, Overlay!Rect, Scaled

\* The picture of the TV is well placed in every TV mode.
LEMMA TvFitting ==
  ASSUME NEW m \in DOMAIN Overlay!tvmodematrix, NEW z \in 1 .. 100
  PROVE  LET t == Overlay!TvRect(m, z)   full == Overlay!TvRect(m, 100)
         IN  /\ Overlay!Within(t, full) /\ t.left <= t.right /\ t.top <= t.bottom
             /\ (t.top + t.bottom) - (full.top + full.bottom) \in -1 .. 1
             /\ (t.left + t.right) - (full.left + full.right) \in -2 .. 2
<1>1. PICK l \in {576, 480}, x \in Int, y \in Int :
         Overlay!tvmodematrix[m] = <<l, 720, y, x>>
  BY TvModes
<1> DEFINE t == Overlay!TvRect(m, z)
           full == Overlay!TvRect(m, 100)
           left == x + 2 * (((100 - z) * 720 + 200) \div 400)
           top == y + ((100 - z) * l + 100) \div 200
           right == left + ((z * 720 + 50) \div 100) - 1
           bottom == top + ((z * l + 50) \div 100) - 1
<1>2. t = [left |-> left, top |-> top, right |-> right, bottom |-> bottom]
  BY <1>1, TvRectIs
<1>3. full = [left |-> x, top |-> y, right |-> x + 719, bottom |-> y + l - 1]
  BY <1>1 DEF Overlay!TvRect, Overlay!Rect
<1>4. /\ left >= x /\ right <= x + 719 /\ top >= y /\ bottom <= y + l - 1
      /\ left <= right /\ top <= bottom
      /\ (top + bottom) - (y + y + l - 1) \in -1 .. 1
      /\ (left + right) - (x + x + 719) \in -2 .. 2
  BY ZoomFits
<1>5. l \in Int /\ left \in Int /\ top \in Int /\ right \in Int /\ bottom \in Int
  OBVIOUS
<1> HIDE DEF left, top, right, bottom, t, full
<1>6. QED BY ONLY <1>2, <1>3, <1>4, <1>5 DEF Overlay!Within, t, full

\* The settings that place the picture.
PictureOK(e) ==
  /\ e.video_mode \in DOMAIN Overlay!tvmodematrix
  /\ e.xres \in Nat /\ e.yres \in Nat /\ e.last \in LineRates
  /\ e.double_y \in BOOLEAN
  /\ e.a.XOFFSET \in Int /\ e.a.YOFFSET \in Int

\* Any window is placed as it should be on any screen.
LEMMA WindowsFit ==
  ASSUME OverlayConstants, SettingsOK(em), PictureOK(em)
  PROVE  Overlay!WindowFits
<1> SUFFICES ASSUME em.a.XCORR >= 800, NEW w \in Windows
             PROVE
      LET s == Overlay!sub_4288c(w, em)
          h(v) == IF em.double_y THEN v \div 2 ELSE v
          y == h(w[2])   down == y + h(w[4])
          both == y < 0 /\ down > em.yres
      IN  (w[1] < em.xres /\ y < em.yres /\ w[1] + w[3] > 0 /\ down > 0) =>
             /\ s.visible.left >= em.a.XOFFSET /\ s.visible.left >= s.frame.left
             /\ s.visible.right <= s.frame.right + 1
             /\ s.visible.right
                  < em.a.XOFFSET + Overlay!Quot(em.xres * 1000, em.a.XCORR) + 1
             /\ s.visible.top >= h(em.a.YOFFSET) /\ s.visible.top >= s.frame.top
             /\ ~both => /\ s.visible.bottom <= s.frame.bottom
                         /\ s.visible.bottom < h(em.a.YOFFSET) + em.yres
             /\ both => s.visible.bottom = h(em.a.YOFFSET) + em.yres - y - 1
  BY DEF Overlay!WindowFits
<1> DEFINE n == em.a.XCORR
           s == Overlay!sub_4288c(w, em)
           h(v) == IF em.double_y THEN v \div 2 ELSE v
           x == w[1]   width == w[3]   y == h(w[2])   height == h(w[4])
           xv == IF x < 0 THEN 0 ELSE x
           wv == IF x < 0 THEN width + x ELSE width
           right == IF xv + wv > em.xres THEN em.xres - xv ELSE wv
           yv == IF y < 0 THEN 0 ELSE y
           hv == IF y < 0 THEN height + y ELSE height
           down == IF y + height > em.yres THEN em.yres - y ELSE hv
           both == y < 0 /\ y + height > em.yres
           xo == em.a.XOFFSET   yo == h(em.a.YOFFSET)
<1> SUFFICES ASSUME x < em.xres, y < em.yres, x + width > 0, y + height > 0
             PROVE /\ s.visible.left >= xo /\ s.visible.left >= s.frame.left
                   /\ s.visible.right <= s.frame.right + 1
                   /\ s.visible.right < xo + Scaled(em.xres, n) + 1
                   /\ s.visible.top >= yo /\ s.visible.top >= s.frame.top
                   /\ ~both => /\ s.visible.bottom <= s.frame.bottom
                               /\ s.visible.bottom < yo + em.yres
                   /\ both => s.visible.bottom = yo + em.yres - y - 1
  BY DEF Scaled
<1>1. n \in Nat \ {0}
  BY DEF SettingsOK
<1>2. /\ s.frame.left = xo + Scaled(x, n)
      /\ s.frame.right = xo + Scaled(x, n) + Scaled(width, n) - 1
      /\ s.frame.top = yo + y /\ s.frame.bottom = yo + y + height - 1
      /\ s.visible.left = xo + Scaled(xv, n)
      /\ s.visible.right = xo + Scaled(xv, n) + Scaled(right, n) - 1
      /\ s.visible.top = yo + yv /\ s.visible.bottom = yo + yv + down - 1
  BY <1>1, WindowIs
<1>3. /\ \A i \in 1 .. 4 : w[i] \in Int
      /\ em.xres \in Nat /\ em.yres \in Nat /\ xo \in Int /\ em.a.YOFFSET \in Int
  BY DEF OverlayConstants, Overlay!OverlayAssumption, PictureOK
<1>4. \A v \in Int : h(v) \in Int
  OBVIOUS
<1> HIDE DEF n, s, h
<1>5. x \in Int /\ width \in Int /\ y \in Int /\ height \in Int /\ yo \in Int
  BY <1>3, <1>4
<1> HIDE DEF x, width, y, height, xo, yo
<1>6. /\ Scaled(xv, n) >= 0 /\ Scaled(xv, n) >= Scaled(x, n)
      /\ Scaled(xv, n) + Scaled(right, n) <= Scaled(x, n) + Scaled(width, n)
      /\ Scaled(xv, n) + Scaled(right, n) <= Scaled(em.xres, n)
  BY <1>1, <1>3, <1>5, ColumnsFit
<1>7. /\ yv >= 0 /\ yv >= y /\ yv \in Int /\ down \in Int
      /\ ~both => yv + down <= y + height /\ yv + down <= em.yres
      /\ both => yv + down = em.yres - y
  BY <1>3, <1>5, LinesFit
<1>8. xv \in Int /\ right \in Int /\ em.xres \in Int
  BY <1>3, <1>5
<1> HIDE DEF xv, wv, right, yv, hv, down
<1>9. /\ Scaled(x, n) \in Int /\ Scaled(width, n) \in Int /\ Scaled(xv, n) \in Int
      /\ Scaled(right, n) \in Int /\ Scaled(em.xres, n) \in Int
  BY ONLY <1>1, <1>5, <1>8, ScaledInts
<1>10. /\ s.visible.left >= xo /\ s.visible.left >= s.frame.left
       /\ s.visible.right <= s.frame.right + 1
       /\ s.visible.right < xo + Scaled(em.xres, n) + 1
  BY ONLY <1>2, <1>3, <1>6, <1>9
<1>11. s.visible.top >= yo /\ s.visible.top >= s.frame.top
  BY ONLY <1>2, <1>5, <1>7
<1>12. ~both => /\ s.visible.bottom <= s.frame.bottom
                /\ s.visible.bottom < yo + em.yres
  <2> HIDE DEF both
  <2>1. QED BY ONLY <1>2, <1>3, <1>5, <1>7
<1>13. both => s.visible.bottom = yo + em.yres - y - 1
  <2> HIDE DEF both
  <2>1. QED BY ONLY <1>2, <1>3, <1>5, <1>7
<1>14. QED BY ONLY <1>10, <1>11, <1>12, <1>13

\* A resolution that the ioctl takes.
LEMMA TakenIs ==
  ASSUME NEW s, Overlay!Taken(s)
  PROVE  s[1] \in Nat /\ s[2] \in Heights
<1> DEFINE x == s[1]
           y == s[2]
<1>1. x \in 0 .. 2000 /\ y \in 0 .. 2000
  BY DEF Overlay!Taken
<1> HIDE DEF x, y
<1>2. x \in Nat /\ y \in Heights
  BY ONLY <1>1 DEF Heights
<1>3. QED BY ONLY <1>2 DEF x, y

\* Every screen that the ioctl accepts has a scale.
LEMMA ScalesFit ==
  ASSUME OverlayConstants, PictureOK(em)
  PROVE  Overlay!ScaleFits
<1> SUFFICES ASSUME NEW s \in Screens, NEW c \in Counts, Overlay!Taken(s)
             PROVE  LET r == Overlay!loc_2A66E(Overlay!loc_2bcfe(c, em.last, s[2]).rate, s[1])
                    IN  /\ r.xcorr >= 800
                        /\ (Overlay!Pixels(s[1]) > 0 => r.divider < 2^13)
  BY DEF Overlay!ScaleFits
<1> DEFINE last == em.last
           x == s[1]
           y == s[2]
           rate == Overlay!loc_2bcfe(c, last, y).rate
<1>1. c \in Nat /\ last \in LineRates
  BY DEF OverlayConstants, Overlay!OverlayAssumption, PictureOK
<1>2. y \in Heights
  BY TakenIs
<1> HIDE DEF last, x, y
<1>3. rate \in LineRates
  BY ONLY <1>1, <1>2, RateFits
<1> HIDE DEF rate
<1>4. LET r == Overlay!loc_2A66E(rate, x)
      IN  r.xcorr >= 800 /\ (Overlay!Pixels(x) > 0 => r.divider < 2^13)
  BY ONLY <1>3, DividerFits
<1>5. QED BY ONLY <1>4 DEF rate, last, x, y

\* A new resolution leaves settings that place the picture.
LEMMA ResolutionOK ==
  ASSUME NEW e, NEW s, NEW count1 \in Nat, SettingsOK(e), PictureOK(e),
         s[1] \in Nat, s[2] \in Heights
  PROVE  PictureOK(Overlay!SetRes(e, s, count1))
<1> DEFINE last == e.last
           y == s[2]
           c == Overlay!loc_2bcfe(count1, last, y)
           x == Overlay!loc_2A66E(c.rate, s[1]).xcorr
           f == Overlay!SetRes(e, s, count1)
<1>1. last \in LineRates /\ y \in Heights
  BY DEF PictureOK
<1>2. f = [e EXCEPT !.xres = s[1], !.yres = y, !.last = c.last, !.rate = c.rate,
                    !.a.XCORR = x]
  BY DEF Overlay!SetRes
<1> HIDE DEF last, y, x, f
<1>3. c.last \in LineRates
  BY ONLY <1>1, RateFits, count1 \in Nat
<1> HIDE DEF c
<1>4. /\ f.video_mode = e.video_mode /\ f.double_y = e.double_y
      /\ f.xres = s[1] /\ f.yres = y /\ f.last = c.last
      /\ f.a.XOFFSET = e.a.XOFFSET /\ f.a.YOFFSET = e.a.YOFFSET
  BY <1>2 DEF SettingsOK, AttributeNames
<1>5. y \in Nat
  BY <1>1 DEF Heights
<1>6. PictureOK(f)
  BY <1>3, <1>4, <1>5 DEF PictureOK
<1>7. QED BY <1>6 DEF f

\* em9010_init leaves such settings.
LEMMA PictureStarts == OverlayConstants /\ Overlay!Init => PictureOK(em)
<1> SUFFICES ASSUME OverlayConstants, Overlay!Init PROVE PictureOK(em)
  OBVIOUS
<1> DEFINE a == [XOFFSET |-> 225, YOFFSET |-> 43, XCORR |-> 1000, JITTER |-> 0,
                 STABILITY |-> 0, KEYCOLOR_UPPER |-> 0, KEYCOLOR_LOWER |-> 0]
           e == [video_mode |-> "PAL", zoom |-> 100, aspect |-> "4:3",
                 enabled |-> FALSE, mode |-> "OFF", window |-> <<0, 0, 720, 480>>,
                 xres |-> 0, yres |-> 0, last |-> 2000, rate |-> 0,
                 double_y |-> FALSE, a |-> a]
           s == <<1280, 1024>>
<1>1. PICK count1 \in Counts, double \in BOOLEAN :
         em = [Overlay!SetRes(e, s, count1) EXCEPT !.double_y = double]
  BY DEF Overlay!Init
<1>2. count1 \in Nat
  BY DEF OverlayConstants, Overlay!OverlayAssumption
<1>3. SettingsOK(e)
  BY DEF SettingsOK, AttributeNames
<1>4. PictureOK(e)
  BY DEF PictureOK, LineRates, Overlay!tvmodematrix
<1>5. s[1] \in Nat /\ s[2] \in Heights
  BY DEF Heights
<1> DEFINE f == Overlay!SetRes(e, s, count1)
<1>6. DOMAIN f = DOMAIN e
  BY DEF Overlay!SetRes
<1>7. PictureOK(f)
  <2> HIDE DEF e, s
  <2>1. QED BY ONLY <1>2, <1>3, <1>4, <1>5, ResolutionOK DEF f
<1> HIDE DEF e, f
<1>8. em = [f EXCEPT !.double_y = double]
  BY <1>1 DEF f
<1>9. QED BY <1>3, <1>6, <1>7, <1>8 DEF PictureOK, SettingsOK

\* Every operation leaves such settings.
LEMMA PictureSteps ==
  ASSUME OverlayConstants, SettingsOK(em), PictureOK(em), Overlay!Next
  PROVE  PictureOK(em)'
<1> SUFFICES ASSUME NEW double \in BOOLEAN, NEW answers \in BOOLEAN,
       \/ \E mo \in {"RECTANGLE", "OVERLAY"} :
            Overlay!OverlayOn(mo, double, answers) \/ Overlay!OverlaySwitch(mo, double)
       \/ Overlay!OverlayOff(double, answers)
       \/ \E w \in Windows : Overlay!em8300_ioctl_overlay_setwindow(w, answers)
       \/ \E s \in Screens, c \in Counts :
            Overlay!em8300_ioctl_overlay_setscreen(s, c, double)
       \/ \E a \in Attributes : Overlay!em9010_set_attribute(a[1], a[2])
       \/ \E s \in {"SIGNAL_ONLY", "SIGNAL_WITH_VGA", "VGA_ONLY"} :
            Overlay!em9010_overlay_set_signalmode(s)
       \/ \E m \in DOMAIN Overlay!tvmodematrix :
            Overlay!em8300_ioctl_setvideomode(m, answers)
       \/ \E r \in {"4:3", "16:9"} : Overlay!em8300_ioctl_setaspectratio(r, answers)
       \/ \E z \in Zooms : Overlay!store_zoom(z, answers)
             PROVE  PictureOK(em)'
  BY DEF Overlay!Next
<1>1. ASSUME NEW mo, Overlay!OverlayOn(mo, double, answers) PROVE PictureOK(em)'
  BY <1>1 DEF Overlay!OverlayOn, Overlay!Updated, PictureOK, SettingsOK
<1>2. ASSUME NEW mo, Overlay!OverlaySwitch(mo, double) PROVE PictureOK(em)'
  BY <1>2 DEF Overlay!OverlaySwitch, Overlay!Updated, PictureOK, SettingsOK
<1>3. ASSUME Overlay!OverlayOff(double, answers) PROVE PictureOK(em)'
  BY <1>3 DEF Overlay!OverlayOff, Overlay!Updated, PictureOK, SettingsOK
<1>4. ASSUME NEW w, Overlay!em8300_ioctl_overlay_setwindow(w, answers)
      PROVE  PictureOK(em)'
  <2>1. em' = [em EXCEPT !.window = w]
    BY <1>4 DEF Overlay!em8300_ioctl_overlay_setwindow
  <2>2. QED BY <2>1 DEF PictureOK, SettingsOK
<1>5. ASSUME NEW s \in Screens, NEW c \in Counts,
             Overlay!em8300_ioctl_overlay_setscreen(s, c, double)
      PROVE  PictureOK(em)'
  <2> DEFINE f == Overlay!SetRes(em, s, c)
  <2>1. c \in Nat
    BY DEF OverlayConstants, Overlay!OverlayAssumption
  <2>2. Overlay!Taken(s) /\ em' = [f EXCEPT !.double_y = double]
    BY <1>5 DEF Overlay!em8300_ioctl_overlay_setscreen
  <2>3. s[1] \in Nat /\ s[2] \in Heights
    BY ONLY <2>2, TakenIs
  <2>4. PictureOK(f)
    BY <2>1, <2>3, ResolutionOK
  <2>5. DOMAIN f = DOMAIN em
    BY DEF Overlay!SetRes
  <2> HIDE DEF f
  <2>6. QED BY <2>2, <2>4, <2>5 DEF PictureOK, SettingsOK
<1>6. ASSUME NEW a \in Attributes, Overlay!em9010_set_attribute(a[1], a[2])
      PROVE  PictureOK(em)'
  <2> DEFINE i == a[1]
             v == a[2]
  <2>1. v \in Int
    BY DEF OverlayConstants, Overlay!OverlayAssumption
  <2>2. em' = [em EXCEPT !.a = [em.a EXCEPT ![i] = v]]
    BY <1>6 DEF Overlay!em9010_set_attribute
  <2> HIDE DEF i, v
  <2>3. QED BY <2>1, <2>2 DEF PictureOK, SettingsOK, AttributeNames
<1>7. ASSUME NEW s, Overlay!em9010_overlay_set_signalmode(s) PROVE PictureOK(em)'
  BY <1>7 DEF Overlay!em9010_overlay_set_signalmode, PictureOK
<1>8. ASSUME NEW m \in DOMAIN Overlay!tvmodematrix,
             Overlay!em8300_ioctl_setvideomode(m, answers)
      PROVE  PictureOK(em)'
  <2>1. em' = [em EXCEPT !.video_mode = m]
    BY <1>8 DEF Overlay!em8300_ioctl_setvideomode, Overlay!SetPicture
  <2>2. QED BY <2>1 DEF PictureOK, SettingsOK
<1>9. ASSUME NEW r, Overlay!em8300_ioctl_setaspectratio(r, answers)
      PROVE  PictureOK(em)'
  <2>1. em' = [em EXCEPT !.aspect = r]
    BY <1>9 DEF Overlay!em8300_ioctl_setaspectratio, Overlay!SetPicture
  <2>2. QED BY <2>1 DEF PictureOK, SettingsOK
<1>10. ASSUME NEW z, Overlay!store_zoom(z, answers) PROVE PictureOK(em)'
  <2>1. em' = [em EXCEPT !.zoom = z]
    BY <1>10 DEF Overlay!store_zoom, Overlay!SetPicture
  <2>2. QED BY <2>1 DEF PictureOK, SettingsOK
<1>11. QED
  BY <1>1, <1>2, <1>3, <1>4, <1>5, <1>6, <1>7, <1>8, <1>9, <1>10

\* The picture lies on the screen and in its window, and every resolution has a scale
\* that it can be placed with, for any windows, screens, counts and attributes.
THEOREM PicturesFit == Spec => []PictureFits
<1>1. Init => (part = "overlay" => PictureOK(em))
  BY PictureStarts, OverlayConstants DEF Init
<1>2. (part = "overlay" => PictureOK(em)) /\ (part = "overlay" => OverlayInv) /\ [Next]_vars
      => (part = "overlay" => PictureOK(em))'
  <2> SUFFICES ASSUME part = "overlay" => PictureOK(em), part = "overlay" => OverlayInv,
                      [Next]_vars, part' = "overlay"
               PROVE  PictureOK(em)'
    OBVIOUS
  <2>1. part' = part
    BY DEF Next, vars
  <2>2. Overlay!Next \/ UNCHANGED overlayVars
    BY <2>1, OverlayPart
  <2>3. CASE UNCHANGED overlayVars
    BY <2>1, <2>3 DEF overlayVars, PictureOK
  <2>4. SettingsOK(em)
    BY <2>1 DEF OverlayInv
  <2>5. QED BY <2>1, <2>2, <2>3, <2>4, PictureSteps, OverlayConstants
<1>3. (part = "overlay" => PictureOK(em)) /\ (part = "overlay" => OverlayInv)
      => PictureFits
  <2> SUFFICES ASSUME PictureOK(em), SettingsOK(em) PROVE Overlay!PictureFits
    BY DEF PictureFits, OverlayInv
  <2>1. Overlay!WindowFits /\ Overlay!ScaleFits
    BY OverlayConstants, WindowsFit, ScalesFit
  <2>2. Overlay!TvFits
    <3>1. em.video_mode \in DOMAIN Overlay!tvmodematrix
      BY DEF PictureOK
    <3>2. QED BY ONLY <3>1, TvFitting DEF Overlay!TvFits
  <2>3. QED BY <2>1, <2>2 DEF Overlay!PictureFits
<1>4. QED BY <1>1, <1>2, <1>3, OverlayHolds, PTL DEF Spec

-------------------------------------------------------------------------------
(* The calibration of the overlay. *)

\* The variables of the calibration.
calibrateVars == <<em, ov, file, at, seen, before, runs>>

\* What they hold.
Attribs == [xoffset : Int, yoffset : Int, xcorr : Int, stability : Int]

DriverSettings == [a : Attribs, r6 : Int, enabled : BOOLEAN,
                   playmode : {"STOPPED", "FRAMEBUF"}, default : Defaults,
                   double_y : BOOLEAN]
Files == [state : {"none", "empty", "whole"}, ov : Attribs]
Places == [program : {"none", "autocal", "dxr3view"},
           call : {"none", "read", "begin", "yoffset", "xoffset", "xcorr", "colors",
                   "view", "adjust", "write", "fill"},
           ended : {"none", "killed", "unsaved", "done", "failed", "viewed"}]

CalibrateTypes ==
  /\ em \in DriverSettings /\ ov \in Attribs /\ before \in Attribs /\ file \in Files
  /\ at \in Places /\ (at.program = "none" <=> at.call = "none")
  /\ seen \in Attribs

\* What the search for each field found puts the picture where the sensor saw it.
LineFound(e) ==
  seen.yoffset - (IF e.double_y THEN 2 * Calibrate!Top(e, 0, e.a.yoffset) + 1
                  ELSE Calibrate!Top(e, 0, e.a.yoffset)) \in -1 .. 2
PixelFound(x) == x - seen.xoffset \in 0 .. 1
ScaleFound(c) == c - seen.xcorr \in {-2, 2}

\* The fields that have been searched when the running program makes its next call.
Searched ==
  CASE at.call = "xoffset" -> {"yoffset"}
    [] at.call = "xcorr" -> {"yoffset", "xoffset"}
    [] at.call = "colors" -> {"yoffset", "xoffset", "xcorr"}
    [] OTHER -> {}

\* Of a calibration under way, each field is what was read or what was found, and
\* the driver has what was found.
Halfway ==
  at.call \in {"yoffset", "xoffset", "xcorr", "colors"} =>
    /\ em.enabled /\ ov.stability = before.stability
    /\ \A f \in Searched : ov[f] = em.a[f]
    /\ \A f \in {"xoffset", "xcorr"} \ Searched : ov[f] = before[f]
    /\ "yoffset" \in Searched => LineFound(em)
    /\ "xoffset" \in Searched => PixelFound(ov.xoffset)
    /\ "xcorr" \in Searched => ScaleFound(ov.xcorr)

\* What CalibrationKept says, of the values in o.
Done(o) ==
  /\ \A f \in {"xoffset", "yoffset", "xcorr"} : em.a[f] = o[f]
  /\ ~em.enabled /\ em.r6 = em.a.stability % 256
  /\ LineFound(em) /\ PixelFound(o.xoffset) /\ ScaleFound(o.xcorr)
Failed(o) ==
  /\ em.enabled /\ o.stability = before.stability
  /\ o.xoffset = before.xoffset \/ PixelFound(o.xoffset)
  /\ o.xcorr = before.xcorr \/ ScaleFound(o.xcorr)
Viewed(o) == ~em.enabled /\ em.a = o

Ended(o) ==
  /\ at.ended \in {"done", "failed", "viewed"}
  /\ at.ended = "done" => Done(o)
  /\ at.ended = "failed" => Failed(o)
  /\ at.ended = "viewed" => Viewed(o)

\* What holds before each call of a program, and after the last.
CalibrateInv ==
  /\ CalibrateTypes
  /\ at.call = "read" =>
       /\ ov = Calibrate!NewOverlay
       /\ before = IF file.state = "whole" THEN file.ov ELSE Calibrate!NewOverlay
  /\ at.call = "begin" => ov = before
  /\ Halfway
  /\ at.call = "adjust" => em.a = ov
  /\ at.call \in {"write", "fill"} => Ended(ov)
  /\ at.call = "none" /\ at.ended \in {"done", "failed", "viewed"} =>
       file.state = "whole" /\ Ended(file.ov)
  /\ at.call = "none" /\ at.ended = "unsaved" =>
       (~em.enabled => \A f \in {"xoffset", "yoffset", "xcorr"} : em.a[f] = ov[f])

\* While a program runs, and if it could not open the file, the file holds what it
\* held when the program began, unless it has been emptied.
FileInv ==
  at.call # "none" \/ at.ended = "unsaved" =>
    (file.state = "whole" => file.ov = before)

\* What the constants of the calibration are.
LEMMA CalibrateNumbers ==
  /\ \A d \in Defaults : d \in Int /\ d > 0
  /\ \A i \in HitsY : i \in 0 .. 59
  /\ \A i \in HitsX : i \in 0 .. 219
  /\ \A i \in HitsC : i \in Int
  /\ Spins \subseteq Int
BY CalibrateConstants DEF Calibrate!CalibrateAssumption

\* It holds when the driver is loaded.
LEMMA CalibrateStarts == Calibrate!Init => CalibrateInv
<1> SUFFICES ASSUME Calibrate!Init PROVE CalibrateInv
  OBVIOUS
<1>1. Calibrate!NewOverlay \in Attribs
  BY DEF Calibrate!NewOverlay, Attribs
<1>2. em \in DriverSettings
  <2>1. PICK d \in Defaults, double \in BOOLEAN :
          em = [a |-> [xoffset |-> 225, yoffset |-> 43, xcorr |-> d, stability |-> 0],
                r6 |-> 0, enabled |-> FALSE, playmode |-> "STOPPED",
                default |-> d, double_y |-> double]
    BY DEF Calibrate!Init
  <2> DEFINE b == [xoffset |-> 225, yoffset |-> 43, xcorr |-> d, stability |-> 0]
  <2>2. b \in Attribs
    BY CalibrateNumbers DEF Attribs
  <2> HIDE DEF b
  <2>3. \A on \in BOOLEAN :
          [a |-> b, r6 |-> 0, enabled |-> on, playmode |-> "STOPPED",
           default |-> d, double_y |-> double] \in DriverSettings
    BY <2>2 DEF DriverSettings
  <2>4. FALSE \in BOOLEAN
    OBVIOUS
  <2>5. QED BY Zenon, <2>1, <2>3, <2>4 DEF b
<1>3. seen \in Attribs
  BY DEF Calibrate!Init, Calibrate!Fields, Attribs
<1>4. file \in Files
  BY <1>1 DEF Calibrate!Init, Files
<1>5. at.program = "none" /\ at.call = "none" /\ at.ended = "none" /\ at \in Places
  BY DEF Calibrate!Init, Places
<1>6. CalibrateTypes
  BY <1>1, <1>2, <1>3, <1>4, <1>5 DEF Calibrate!Init, CalibrateTypes
<1>7. QED BY <1>5, <1>6 DEF CalibrateInv, Halfway

\* What each search ends with, one outcome for each try and one for a failure.
LEMMA LineOutcomes ==
  ASSUME NEW o \in Calibrate!em9010_calibrate_yoffset(em)
  PROVE  \/ \E i \in HitsY :
              /\ o.em = [Calibrate!LineSearch(em) EXCEPT
                           !.a.yoffset = Calibrate!Half(em, 4 + i - 2)]
              /\ o.seen = Calibrate!Top(em, Calibrate!Placed(i), 4) /\ o.ok
         \/ o.em = Calibrate!LineSearch(em) /\ o.seen = 0 /\ ~o.ok
<1> DEFINE s == Calibrate!LineSearch(em)
           t(i) == [s EXCEPT !.a.yoffset = Calibrate!Half(em, 4 + i - 2)]
           u(i) == Calibrate!Top(em, Calibrate!Placed(i), 4)
           F(i) == [em |-> t(i), seen |-> u(i), ok |-> TRUE]
           z == [em |-> s, seen |-> 0, ok |-> FALSE]
<1>1. o \in {F(i) : i \in HitsY} \cup {z}
  BY Zenon DEF Calibrate!em9010_calibrate_yoffset
<1> HIDE DEF s, t, u
<1>2. /\ \A i : F(i).em = t(i) /\ F(i).seen = u(i) /\ F(i).ok
      /\ z.em = s /\ z.seen = 0 /\ ~z.ok
  BY Zenon
<1> HIDE DEF F, z
<1>3. \/ \E i \in HitsY : o.em = t(i) /\ o.seen = u(i) /\ o.ok
      \/ o.em = s /\ o.seen = 0 /\ ~o.ok
  BY <1>1, <1>2
<1>4. QED BY <1>3 DEF s, t, u

\* The same for the pixel.
LEMMA PixelOutcomes ==
  ASSUME NEW o \in Calibrate!em9010_calibrate_xoffset(em)
  PROVE  LET s == Calibrate!Searching(em, 100, em.a.yoffset, 1000)
         IN  \/ \E i \in HitsX : /\ o.em = [s EXCEPT !.a.xoffset = 100 + i]
                                 /\ o.seen = 100 + Calibrate!Placed(i) /\ o.ok
             \/ o.em = s /\ o.seen = 0 /\ ~o.ok
<1> DEFINE s == Calibrate!Searching(em, 100, em.a.yoffset, 1000)
           t(i) == [s EXCEPT !.a.xoffset = 100 + i]
           u(i) == 100 + Calibrate!Placed(i)
           F(i) == [em |-> t(i), seen |-> u(i), ok |-> TRUE]
           z == [em |-> s, seen |-> 0, ok |-> FALSE]
<1>1. o \in {F(i) : i \in HitsX} \cup {z}
  BY Zenon DEF Calibrate!em9010_calibrate_xoffset
<1> HIDE DEF s, t, u
<1>2. /\ \A i : F(i).em = t(i) /\ F(i).seen = u(i) /\ F(i).ok
      /\ z.em = s /\ z.seen = 0 /\ ~z.ok
  BY Zenon
<1> HIDE DEF F, z
<1>3. \/ \E i \in HitsX : o.em = t(i) /\ o.seen = u(i) /\ o.ok
      \/ o.em = s /\ o.seen = 0 /\ ~o.ok
  BY <1>1, <1>2
<1>4. QED BY <1>3 DEF s, t, u

\* The same for the scale, whose tries may run out without a failure.
LEMMA ScaleOutcomes ==
  ASSUME NEW o \in Calibrate!em9010_calibrate_xcorrection(em)
  PROVE  LET s(c) == Calibrate!Searching(em, em.a.xoffset, em.a.yoffset, c)
             Tried(i) == IF i = -100 THEN em.default ELSE Calibrate!Scale(em, i - 1)
             margin == IF em.default > 1500 THEN 2 ELSE -2
         IN  \/ \E i \in HitsC \cup {150} : /\ o.em = s(Tried(i) + margin)
                                            /\ o.seen = Tried(i) /\ o.ok
             \/ \E i \in HitsC : o.em = s(Tried(i)) /\ o.seen = 0 /\ ~o.ok
<1> DEFINE s(c) == Calibrate!Searching(em, em.a.xoffset, em.a.yoffset, c)
           Tried(i) == IF i = -100 THEN em.default ELSE Calibrate!Scale(em, i - 1)
           margin == IF em.default > 1500 THEN 2 ELSE -2
           F(i) == [em |-> s(Tried(i) + margin), seen |-> Tried(i), ok |-> TRUE]
           G(i) == [em |-> s(Tried(i)), seen |-> 0, ok |-> FALSE]
<1>1. o \in {F(i) : i \in HitsC \cup {150}} \cup {G(i) : i \in HitsC}
  BY Zenon DEF Calibrate!em9010_calibrate_xcorrection
<1> HIDE DEF s, Tried, margin
<1>2. \A i : /\ F(i).em = s(Tried(i) + margin) /\ F(i).seen = Tried(i) /\ F(i).ok
             /\ G(i).em = s(Tried(i)) /\ G(i).seen = 0 /\ ~G(i).ok
  BY Zenon
<1> HIDE DEF F, G
<1>3. \/ \E i \in HitsC \cup {150} : /\ o.em = s(Tried(i) + margin)
                                     /\ o.seen = Tried(i) /\ o.ok
      \/ \E i \in HitsC : o.em = s(Tried(i)) /\ o.seen = 0 /\ ~o.ok
  BY <1>1, <1>2
<1>4. QED BY <1>3 DEF s, Tried, margin

\* Settings that a search may leave.
LeftBySearch(e) == /\ e \in DriverSettings /\ e.enabled = em.enabled /\ e.double_y = em.double_y
                   /\ e.a.stability = em.a.stability

\* One field of the attributes is set.
LEMMA FieldSet ==
  ASSUME NEW e, LeftBySearch(e), NEW v \in Int
  PROVE  /\ LET g == [e EXCEPT !.a.xoffset = v]
            IN  /\ LeftBySearch(g) /\ g.a.xoffset = v
                /\ g.a.yoffset = e.a.yoffset /\ g.a.xcorr = e.a.xcorr
         /\ LET g == [e EXCEPT !.a.yoffset = v]
            IN  /\ LeftBySearch(g) /\ g.a.yoffset = v
                /\ g.a.xoffset = e.a.xoffset /\ g.a.xcorr = e.a.xcorr
         /\ LET g == [e EXCEPT !.a.xcorr = v]
            IN  /\ LeftBySearch(g) /\ g.a.xcorr = v
                /\ g.a.xoffset = e.a.xoffset /\ g.a.yoffset = e.a.yoffset
<1>1. e.a \in Attribs /\ e \in DriverSettings
  BY DEF LeftBySearch, DriverSettings
<1>2. ASSUME NEW b \in Attribs, b.stability = e.a.stability
      PROVE  LeftBySearch([e EXCEPT !.a = b]) /\ [e EXCEPT !.a = b].a = b
  BY <1>2 DEF LeftBySearch, DriverSettings
<1>3. LET b == [e.a EXCEPT !.xoffset = v]
      IN  /\ b \in Attribs /\ b.stability = e.a.stability /\ b.xoffset = v
          /\ b.yoffset = e.a.yoffset /\ b.xcorr = e.a.xcorr
  BY <1>1 DEF Attribs
<1>4. LET b == [e.a EXCEPT !.yoffset = v]
      IN  /\ b \in Attribs /\ b.stability = e.a.stability /\ b.yoffset = v
          /\ b.xoffset = e.a.xoffset /\ b.xcorr = e.a.xcorr
  BY <1>1 DEF Attribs
<1>5. LET b == [e.a EXCEPT !.xcorr = v]
      IN  /\ b \in Attribs /\ b.stability = e.a.stability /\ b.xcorr = v
          /\ b.xoffset = e.a.xoffset /\ b.yoffset = e.a.yoffset
  BY <1>1 DEF Attribs
<1>6. QED BY <1>2, <1>3, <1>4, <1>5

\* Where a search begins.
LEMMA SearchBegins ==
  ASSUME CalibrateTypes, NEW x \in Int, NEW y \in Int, NEW c \in Int
  PROVE  LET e == Calibrate!Searching(em, x, y, c)
         IN  LeftBySearch(e) /\ e.a.xoffset = x /\ e.a.yoffset = y /\ e.a.xcorr = c
<1> DEFINE e1 == [em EXCEPT !.a.xoffset = x]
           e2 == [e1 EXCEPT !.a.yoffset = y]
           e3 == [e2 EXCEPT !.a.xcorr = c]
<1>1. LeftBySearch(em)
  BY DEF LeftBySearch, CalibrateTypes, DriverSettings
<1>2. LeftBySearch(e1) /\ e1.a.xoffset = x
  BY ONLY <1>1, x \in Int, FieldSet
<1> HIDE DEF e1
<1>3. LeftBySearch(e2) /\ e2.a.xoffset = x /\ e2.a.yoffset = y
  BY ONLY <1>2, y \in Int, FieldSet
<1> HIDE DEF e2
<1>4. LeftBySearch(e3) /\ e3.a.xoffset = x /\ e3.a.yoffset = y /\ e3.a.xcorr = c
  BY ONLY <1>3, c \in Int, FieldSet
<1>5. e3 = Calibrate!Searching(em, x, y, c)
  BY Zenon DEF e1, e2, Calibrate!Searching
<1> HIDE DEF e3
<1>6. QED BY ONLY <1>4, <1>5

\* Where the search for the line begins.
LEMMA LineBegins ==
  ASSUME CalibrateTypes
  PROVE  LeftBySearch(Calibrate!LineSearch(em))
<1> DEFINE s == Calibrate!Searching(em, 100000 \div em.default, 4, em.default)
           t == [s EXCEPT !.r6 = 0, !.playmode = "FRAMEBUF"]
<1>1. em.default \in Int /\ em.default > 0
  <2>1. em.default \in Defaults
    BY DEF CalibrateTypes, DriverSettings
  <2>2. QED BY <2>1, CalibrateNumbers
<1>2. 100000 \div em.default \in Int
  BY ONLY <1>1
<1>3. LeftBySearch(s)
  BY <1>1, <1>2, SearchBegins
<1> HIDE DEF s
<1>4. LeftBySearch(t)
  <2>1. /\ s \in DriverSettings /\ s.enabled = em.enabled /\ s.double_y = em.double_y
        /\ s.a.stability = em.a.stability
    BY <1>3 DEF LeftBySearch
  <2> DEFINE r == [s EXCEPT !.r6 = 0]
  <2>2. r \in DriverSettings /\ r.enabled = s.enabled /\ r.double_y = s.double_y /\ r.a = s.a
    BY ONLY <2>1 DEF DriverSettings
  <2> HIDE DEF r
  <2>3. LET q == [r EXCEPT !.playmode = "FRAMEBUF"]
        IN  q \in DriverSettings /\ q.enabled = r.enabled /\ q.double_y = r.double_y /\ q.a = r.a
    BY ONLY <2>2 DEF DriverSettings
  <2>4. t = [r EXCEPT !.playmode = "FRAMEBUF"]
    BY DEF r
  <2> HIDE DEF t
  <2>5. QED BY <2>1, <2>2, <2>3, <2>4 DEF LeftBySearch
<1>5. Calibrate!LineSearch(em) = t
  BY DEF Calibrate!LineSearch, s
<1> HIDE DEF t
<1>6. QED BY ONLY <1>4, <1>5

\* Of a search that succeeds, what it leaves; of one that fails too.
LEMMA LineSearched ==
  ASSUME CalibrateTypes, NEW o \in Calibrate!em9010_calibrate_yoffset(em)
  PROVE  /\ LeftBySearch(o.em) /\ o.seen \in Int
         /\ o.ok => o.seen - (IF em.double_y
                              THEN 2 * Calibrate!Top(em, 0, o.em.a.yoffset) + 1
                              ELSE Calibrate!Top(em, 0, o.em.a.yoffset)) \in -1 .. 2
<1> DEFINE s == Calibrate!LineSearch(em)
           y(i) == Calibrate!Half(em, 4 + i - 2)
           t(i) == [s EXCEPT !.a.yoffset = y(i)]
           u(i) == Calibrate!Top(em, Calibrate!Placed(i), 4)
<1>1. LeftBySearch(s)
  BY LineBegins
<1>2. \A i \in HitsY :
        /\ y(i) \in Int /\ u(i) \in Int
        /\ u(i) - (IF em.double_y THEN 2 * Calibrate!Top(em, 0, y(i)) + 1
                   ELSE Calibrate!Top(em, 0, y(i))) \in -1 .. 2
  <2>1. em.double_y \in BOOLEAN
    BY DEF CalibrateTypes, DriverSettings
  <2>2. TAKE i \in HitsY
  <2>3. i \in 0 .. 59
    BY CalibrateNumbers
  <2>4. CASE em.double_y
    BY ONLY <2>3, <2>4 DEF Calibrate!Top, Calibrate!Half, Calibrate!Placed
  <2>5. CASE ~em.double_y
    BY ONLY <2>3, <2>5 DEF Calibrate!Top, Calibrate!Half, Calibrate!Placed
  <2>6. QED BY ONLY <2>1, <2>4, <2>5
<1> HIDE DEF s, y, u
<1>3. \A i \in HitsY : LeftBySearch(t(i)) /\ t(i).a.yoffset = y(i)
  <2>1. TAKE i \in HitsY
  <2>2. y(i) \in Int
    BY <1>2
  <2>3. QED BY ONLY <1>1, <2>2, FieldSet
<1>4. \/ \E i \in HitsY : o.em = t(i) /\ o.seen = u(i) /\ o.ok
      \/ o.em = s /\ o.seen = 0 /\ ~o.ok
  BY ONLY LineOutcomes, o \in Calibrate!em9010_calibrate_yoffset(em) DEF s, y, u
<1> HIDE DEF t
<1>5. CASE o.em = s /\ o.seen = 0 /\ ~o.ok
  BY ONLY <1>1, <1>5
<1>6. ASSUME NEW i \in HitsY, o.em = t(i), o.seen = u(i), o.ok
      PROVE  /\ LeftBySearch(o.em) /\ o.seen \in Int
             /\ o.seen - (IF em.double_y
                          THEN 2 * Calibrate!Top(em, 0, o.em.a.yoffset) + 1
                          ELSE Calibrate!Top(em, 0, o.em.a.yoffset)) \in -1 .. 2
  BY ONLY <1>2, <1>3, <1>6
<1>7. QED BY ONLY <1>4, <1>5, <1>6

\* The same for the pixel.
LEMMA PixelSearched ==
  ASSUME CalibrateTypes, NEW o \in Calibrate!em9010_calibrate_xoffset(em)
  PROVE  /\ LeftBySearch(o.em) /\ o.seen \in Int
         /\ o.em.a.yoffset = em.a.yoffset
         /\ o.ok => o.em.a.xoffset - o.seen \in 0 .. 1
<1> DEFINE s == Calibrate!Searching(em, 100, em.a.yoffset, 1000)
           t(i) == [s EXCEPT !.a.xoffset = 100 + i]
           u(i) == 100 + Calibrate!Placed(i)
<1>1. LeftBySearch(s) /\ s.a.yoffset = em.a.yoffset
  <2> DEFINE x == 100
             y == em.a.yoffset
             c == 1000
  <2>1. x \in Int /\ y \in Int /\ c \in Int
    BY DEF CalibrateTypes, DriverSettings, Attribs
  <2> HIDE DEF x, y, c
  <2>2. LET e == Calibrate!Searching(em, x, y, c)
        IN  LeftBySearch(e) /\ e.a.yoffset = y
    BY ONLY CalibrateTypes, <2>1, SearchBegins
  <2>3. QED BY <2>2 DEF x, y, c
<1>2. \A i \in HitsX : 100 + i \in Int /\ u(i) \in Int /\ (100 + i) - u(i) \in 0 .. 1
  BY ONLY CalibrateNumbers DEF Calibrate!Placed
<1> HIDE DEF s, u
<1>3. \A i \in HitsX : /\ LeftBySearch(t(i)) /\ t(i).a.yoffset = em.a.yoffset
                       /\ t(i).a.xoffset = 100 + i
  BY ONLY <1>1, <1>2, FieldSet
<1>4. \/ \E i \in HitsX : o.em = t(i) /\ o.seen = u(i) /\ o.ok
      \/ o.em = s /\ o.seen = 0 /\ ~o.ok
  BY ONLY PixelOutcomes, o \in Calibrate!em9010_calibrate_xoffset(em) DEF s, u
<1> HIDE DEF t
<1>5. CASE o.em = s /\ o.seen = 0 /\ ~o.ok
  BY ONLY <1>1, <1>5
<1>6. ASSUME NEW i \in HitsX, o.em = t(i), o.seen = u(i), o.ok
      PROVE  /\ LeftBySearch(o.em) /\ o.seen \in Int /\ o.em.a.yoffset = em.a.yoffset
             /\ o.em.a.xoffset - o.seen \in 0 .. 1
  BY ONLY <1>2, <1>3, <1>6
<1>7. QED BY ONLY <1>4, <1>5, <1>6

\* The same for the scale.
LEMMA ScaleSearched ==
  ASSUME CalibrateTypes, NEW o \in Calibrate!em9010_calibrate_xcorrection(em)
  PROVE  /\ LeftBySearch(o.em) /\ o.seen \in Int
         /\ o.em.a.yoffset = em.a.yoffset /\ o.em.a.xoffset = em.a.xoffset
         /\ o.ok => o.em.a.xcorr - o.seen \in {-2, 2}
<1> DEFINE s(c) == Calibrate!Searching(em, em.a.xoffset, em.a.yoffset, c)
           Tried(i) == IF i = -100 THEN em.default ELSE Calibrate!Scale(em, i - 1)
           margin == IF em.default > 1500 THEN 2 ELSE -2
<1>1. \A c \in Int : /\ LeftBySearch(s(c))
                     /\ s(c).a.yoffset = em.a.yoffset /\ s(c).a.xoffset = em.a.xoffset
                     /\ s(c).a.xcorr = c
  <2>1. em.a.xoffset \in Int /\ em.a.yoffset \in Int
    BY DEF CalibrateTypes, DriverSettings, Attribs
  <2>2. QED BY ONLY CalibrateTypes, <2>1, SearchBegins
<1>2. \/ \E i \in HitsC \cup {150} : /\ o.em = s(Tried(i) + margin)
                                     /\ o.seen = Tried(i) /\ o.ok
      \/ \E i \in HitsC : o.em = s(Tried(i)) /\ o.seen = 0 /\ ~o.ok
  BY ScaleOutcomes
<1>3. \A i \in HitsC \cup {150} : /\ Tried(i) \in Int /\ Tried(i) + margin \in Int
                                  /\ (Tried(i) + margin) - Tried(i) \in {-2, 2}
  <2>1. em.default \in Int
    BY CalibrateNumbers DEF CalibrateTypes, DriverSettings
  <2>2. \A i \in HitsC \cup {150} : i \in Int
    BY CalibrateNumbers
  <2>3. QED BY ONLY <2>1, <2>2 DEF Calibrate!Scale
<1> HIDE DEF s, Tried, margin
<1>4. ASSUME NEW i \in HitsC, o.em = s(Tried(i)), o.seen = 0, ~o.ok
      PROVE  /\ LeftBySearch(o.em) /\ o.seen \in Int
             /\ o.em.a.yoffset = em.a.yoffset /\ o.em.a.xoffset = em.a.xoffset
  BY ONLY <1>1, <1>3, <1>4
<1>5. ASSUME NEW i \in HitsC \cup {150}, o.em = s(Tried(i) + margin), o.seen = Tried(i), o.ok
      PROVE  /\ LeftBySearch(o.em) /\ o.seen \in Int
             /\ o.em.a.yoffset = em.a.yoffset /\ o.em.a.xoffset = em.a.xoffset
             /\ o.em.a.xcorr - o.seen \in {-2, 2}
  BY ONLY <1>1, <1>3, <1>5
<1>6. QED BY ONLY <1>2, <1>4, <1>5

\* What the ioctls leave.
LEMMA ModeSet ==
  ASSUME NEW e \in DriverSettings, NEW on \in BOOLEAN
  PROVE  LET g == Calibrate!SetMode(e, on)
         IN  /\ g \in DriverSettings /\ g.enabled = on /\ g.a = e.a
             /\ g.double_y = e.double_y /\ g.r6 = e.a.stability % 256
<1> DEFINE r == e.a.stability % 256
<1>1. r \in Int
  BY DEF DriverSettings, Attribs
<1>2. Calibrate!SetMode(e, on) = [[e EXCEPT !.enabled = on] EXCEPT !.r6 = r]
  BY DEF Calibrate!SetMode
<1> HIDE DEF r
<1>3. LET g == [[e EXCEPT !.enabled = on] EXCEPT !.r6 = r]
      IN  /\ g \in DriverSettings /\ g.enabled = on /\ g.a = e.a
          /\ g.double_y = e.double_y /\ g.r6 = r
  BY <1>1 DEF DriverSettings
<1>4. QED BY <1>2, <1>3 DEF r

\* What a new resolution leaves.
LEMMA ScreenSet ==
  ASSUME NEW e \in DriverSettings
  PROVE  LET g == Calibrate!SetScreen(e)
         IN  g \in DriverSettings /\ g.enabled = e.enabled
<1> DEFINE c == e.default
           b == [e.a EXCEPT !.xcorr = c]
           r == e.a.stability % 256
<1>1. c \in Int
  BY CalibrateNumbers DEF DriverSettings
<1>2. e.a \in Attribs
  BY DEF DriverSettings
<1>3. b \in Attribs /\ r \in Int
  <2> HIDE DEF c
  <2>1. QED BY <1>1, <1>2 DEF Attribs
<1>4. Calibrate!SetScreen(e) = [[e EXCEPT !.a = b] EXCEPT !.r6 = r]
  BY DEF Calibrate!SetScreen
<1> HIDE DEF b, r
<1>5. [[e EXCEPT !.a = b] EXCEPT !.r6 = r] \in DriverSettings
      /\ [[e EXCEPT !.a = b] EXCEPT !.r6 = r].enabled = e.enabled
  BY <1>3 DEF DriverSettings
<1>6. QED BY <1>4, <1>5

\* What setting all the attributes leaves.
LEMMA AttributesSet ==
  ASSUME NEW e \in DriverSettings, NEW b \in Attribs
  PROVE  LET g == [e EXCEPT !.a = b, !.r6 = b.stability % 256]
         IN  g \in DriverSettings /\ g.a = b /\ g.enabled = e.enabled
<1> DEFINE r == b.stability % 256
<1>1. r \in Int
  BY DEF Attribs
<1> HIDE DEF r
<1>2. LET g == [[e EXCEPT !.a = b] EXCEPT !.r6 = r]
      IN  g \in DriverSettings /\ g.a = b /\ g.enabled = e.enabled
  BY <1>1 DEF DriverSettings
<1>3. QED BY <1>2 DEF r

\* Where the program goes.
LEMMA Goes ==
  ASSUME CalibrateTypes, NEW p \in {"autocal", "dxr3view"},
         NEW c \in {"read", "begin", "yoffset", "xoffset", "xcorr", "colors",
                    "view", "adjust", "write", "fill"},
         Calibrate!Goto(p, c)
  PROVE  /\ at' \in Places /\ (at'.program = "none" <=> at'.call = "none")
         /\ at'.call = c /\ at'.ended = at.ended
BY DEF CalibrateTypes, Places, Calibrate!Goto

\* A program that has ended.
LEMMA Ends ==
  ASSUME CalibrateTypes, NEW how \in {"none", "killed", "unsaved", "done", "failed", "viewed"},
         Calibrate!End(how)
  PROVE  /\ at' \in Places /\ (at'.program = "none" <=> at'.call = "none")
         /\ at'.call = "none" /\ at'.ended = how
BY DEF Places, Calibrate!End

\* A program that makes a call runs.
LEMMA Running ==
  ASSUME CalibrateTypes, NEW c, c # "none", Calibrate!In(c)
  PROVE  at.call = c /\ at.program \in {"autocal", "dxr3view"}
BY DEF CalibrateTypes, Places, Calibrate!In

\* A program starts.
LEMMA StartKeeps ==
  ASSUME CalibrateInv, NEW program \in {"autocal", "dxr3view"}, Calibrate!Start(program)
  PROVE  CalibrateInv'
<1>1. CalibrateTypes
  BY DEF CalibrateInv
<1>2. /\ em' = Calibrate!SetScreen(em) /\ ov' = Calibrate!NewOverlay
      /\ before' = IF file.state = "whole" THEN file.ov ELSE Calibrate!NewOverlay
      /\ Calibrate!Goto(program, "read") /\ file' = file /\ seen' = seen
  BY DEF Calibrate!Start
<1>3. /\ at' \in Places /\ (at'.program = "none" <=> at'.call = "none")
      /\ at'.call = "read"
  BY <1>1, <1>2, Goes
<1>4. Calibrate!NewOverlay \in Attribs
  BY DEF Calibrate!NewOverlay, Attribs
<1>5. em' \in DriverSettings
  BY <1>1, <1>2, ScreenSet DEF CalibrateTypes
<1>6. CalibrateTypes'
  BY <1>1, <1>2, <1>3, <1>4, <1>5 DEF CalibrateTypes, Files
<1>7. QED BY <1>2, <1>3, <1>6 DEF CalibrateInv, Halfway

\* It reads the saved state.
LEMMA ReadStateKeeps ==
  ASSUME CalibrateInv, Calibrate!ReadState
  PROVE  CalibrateInv'
<1>1. CalibrateTypes /\ at.call = "read" /\ at.program \in {"autocal", "dxr3view"}
  BY Running DEF CalibrateInv, Calibrate!ReadState
<1>2. /\ ov' = IF file.state = "whole" THEN file.ov ELSE ov
      /\ em' = IF file.state = "none" THEN em
               ELSE [em EXCEPT !.a = ov', !.r6 = ov'.stability % 256]
      /\ Calibrate!Goto(at.program, IF at.program = "autocal" THEN "begin" ELSE "view")
      /\ file' = file /\ seen' = seen /\ before' = before
  BY DEF Calibrate!ReadState
<1>3. /\ at' \in Places /\ (at'.program = "none" <=> at'.call = "none")
      /\ at'.call \in {"begin", "view"}
  BY <1>1, <1>2, Goes
<1>4. ov' \in Attribs /\ ov' = before
  BY <1>1, <1>2 DEF CalibrateInv, CalibrateTypes, Files
<1>5. em' \in DriverSettings
  BY <1>1, <1>2, <1>4, AttributesSet DEF CalibrateTypes
<1>6. CalibrateTypes'
  BY <1>1, <1>2, <1>3, <1>4, <1>5 DEF CalibrateTypes
<1>7. QED BY <1>2, <1>3, <1>4, <1>6 DEF CalibrateInv, Halfway

\* A calibration begins.
LEMMA BeginKeeps ==
  ASSUME CalibrateInv, Calibrate!Begin
  PROVE  CalibrateInv'
<1>1. CalibrateTypes /\ at.call = "begin"
  BY Running DEF CalibrateInv, Calibrate!Begin
<1>2. /\ em' = Calibrate!SetScreen(Calibrate!SetMode(em, TRUE))
      /\ Calibrate!Goto("autocal", "yoffset")
      /\ ov' = ov /\ file' = file /\ seen' = seen /\ before' = before
  BY DEF Calibrate!Begin
<1>3. /\ at' \in Places /\ (at'.program = "none" <=> at'.call = "none")
      /\ at'.call = "yoffset"
  BY <1>1, <1>2, Goes
<1>4. em' \in DriverSettings /\ em'.enabled
  <2> DEFINE on == TRUE
             g == Calibrate!SetMode(em, on)
  <2>1. on \in BOOLEAN /\ on
    OBVIOUS
  <2>2. em \in DriverSettings
    BY <1>1 DEF CalibrateTypes
  <2>3. em' = Calibrate!SetScreen(g)
    BY <1>2
  <2> HIDE DEF on
  <2>4. g \in DriverSettings /\ g.enabled = on
    BY ONLY <2>1, <2>2, ModeSet
  <2> HIDE DEF g
  <2>5. QED BY ONLY <2>1, <2>3, <2>4, ScreenSet
<1>5. CalibrateTypes'
  BY <1>1, <1>2, <1>3, <1>4 DEF CalibrateTypes
<1>6. ov' = before'
  BY <1>1, <1>2 DEF CalibrateInv
<1>7. Halfway'
  BY <1>3, <1>4, <1>6 DEF Halfway, Searched
<1>8. QED BY <1>3, <1>5, <1>7 DEF CalibrateInv

\* The outcome of one search.
LEMMA CalibrateEnds ==
  ASSUME CalibrateInv,
         NEW field \in {"yoffset", "xoffset", "xcorr"},
         NEW next \in {"xoffset", "xcorr", "colors"}, NEW outcomes,
         NEW o \in outcomes, LeftBySearch(o.em), o.seen \in Int,
         em' = o.em, ov' = IF o.ok THEN [ov EXCEPT ![field] = o.em.a[field]] ELSE ov,
         seen' = [seen EXCEPT ![field] = IF o.ok THEN o.seen ELSE @],
         at' = [program |-> "autocal", call |-> IF o.ok THEN next ELSE "write",
                ended |-> IF o.ok THEN at.ended ELSE "failed"],
         file' = file, before' = before
  PROVE  /\ CalibrateTypes' /\ em'.enabled = em.enabled /\ em'.double_y = em.double_y
         /\ at'.call = IF o.ok THEN next ELSE "write"
         /\ ~o.ok => ov' = ov /\ seen' = seen /\ at'.ended = "failed"
         /\ o.ok => /\ ov'[field] = em'.a[field] /\ seen'[field] = o.seen
                    /\ \A f \in {"xoffset", "yoffset", "xcorr", "stability"} \ {field} :
                         ov'[f] = ov[f] /\ seen'[f] = seen[f]
<1>1. /\ CalibrateTypes /\ ov \in Attribs /\ seen \in Attribs /\ em' \in DriverSettings
      /\ at.ended \in {"none", "killed", "unsaved", "done", "failed", "viewed"}
      /\ file' \in Files /\ before' \in Attribs
  BY DEF CalibrateInv, CalibrateTypes, LeftBySearch, Places
<1>2. o.em.a[field] \in Int
  BY DEF LeftBySearch, DriverSettings, Attribs
<1>3. at' \in Places /\ (at'.program = "none" <=> at'.call = "none")
      /\ at'.call = (IF o.ok THEN next ELSE "write")
      /\ (~o.ok => at'.ended = "failed")
  BY <1>1 DEF Places
<1>4. CASE o.ok
  <2> DEFINE v == o.em.a[field]
             w == o.seen
  <2>1. ov' = [ov EXCEPT ![field] = v] /\ seen' = [seen EXCEPT ![field] = w]
    BY <1>4
  <2>2. v \in Int /\ w \in Int
    BY <1>2
  <2> HIDE DEF v, w
  <2>3. /\ ov' \in Attribs /\ seen' \in Attribs /\ ov'[field] = v /\ seen'[field] = w
        /\ \A f \in {"xoffset", "yoffset", "xcorr", "stability"} \ {field} :
             ov'[f] = ov[f] /\ seen'[f] = seen[f]
    BY ONLY <1>1, <2>1, <2>2, field \in {"yoffset", "xoffset", "xcorr"} DEF Attribs
  <2>4. CalibrateTypes'
    BY <1>1, <1>3, <2>3 DEF CalibrateTypes
  <2>5. QED BY <1>3, <1>4, <2>3, <2>4 DEF LeftBySearch, v, w
<1>5. CASE ~o.ok
  <2>1. ov' = ov /\ seen' = seen
    <3>1. ov' = ov
      BY <1>5
    <3>2. seen' = [seen EXCEPT ![field] = seen[field]]
      BY <1>5
    <3>3. QED BY <1>1, <3>1, <3>2 DEF Attribs
  <2>2. CalibrateTypes'
    BY <1>1, <1>3, <2>1 DEF CalibrateTypes
  <2>3. QED BY <1>3, <1>5, <2>1, <2>2 DEF LeftBySearch
<1>6. QED BY <1>4, <1>5

\* The search for the line: a failure leaves what was read.
LEMMA LineKeeps ==
  ASSUME CalibrateInv,
         Calibrate!Calibrate("yoffset", Calibrate!em9010_calibrate_yoffset(em), "xoffset")
  PROVE  CalibrateInv'
<1>1. CalibrateTypes /\ at.call = "yoffset"
  BY Running DEF CalibrateInv, Calibrate!Calibrate
<1>2. PICK o \in Calibrate!em9010_calibrate_yoffset(em) :
        /\ em' = o.em /\ ov' = IF o.ok THEN [ov EXCEPT !["yoffset"] = o.em.a["yoffset"]] ELSE ov
        /\ seen' = [seen EXCEPT !["yoffset"] = IF o.ok THEN o.seen ELSE @]
        /\ at' = [program |-> "autocal", call |-> IF o.ok THEN "xoffset" ELSE "write",
                  ended |-> IF o.ok THEN at.ended ELSE "failed"]
        /\ file' = file /\ before' = before
  BY DEF Calibrate!Calibrate
<1>3. /\ LeftBySearch(o.em) /\ o.seen \in Int
      /\ o.ok => o.seen - (IF em.double_y
                           THEN 2 * Calibrate!Top(em, 0, o.em.a.yoffset) + 1
                           ELSE Calibrate!Top(em, 0, o.em.a.yoffset)) \in -1 .. 2
  BY <1>1, LineSearched
<1>4. /\ CalibrateTypes' /\ em'.enabled = em.enabled /\ em'.double_y = em.double_y
      /\ at'.call = IF o.ok THEN "xoffset" ELSE "write"
      /\ ~o.ok => ov' = ov /\ seen' = seen /\ at'.ended = "failed"
      /\ o.ok => /\ ov'["yoffset"] = em'.a["yoffset"] /\ seen'["yoffset"] = o.seen
                 /\ \A f \in {"xoffset", "yoffset", "xcorr", "stability"} \ {"yoffset"} :
                      ov'[f] = ov[f] /\ seen'[f] = seen[f]
  BY ONLY CalibrateInv, <1>2, <1>3, CalibrateEnds
<1>5. /\ em.enabled /\ ov.stability = before.stability
      /\ ov.xoffset = before.xoffset /\ ov.xcorr = before.xcorr
  BY <1>1 DEF CalibrateInv, Halfway, Searched
<1>6. CASE o.ok
  <2>1. LineFound(em)'
    BY <1>2, <1>3, <1>4, <1>6 DEF LineFound, Calibrate!Top, Calibrate!Half
  <2>2. Halfway'
    BY <1>2, <1>4, <1>5, <1>6, <2>1 DEF Halfway, Searched
  <2>3. QED BY <1>4, <1>6, <2>2 DEF CalibrateInv
<1>7. CASE ~o.ok
  <2>1. Failed(ov)'
    BY <1>2, <1>4, <1>5, <1>7 DEF Failed
  <2>2. QED BY <1>4, <1>7, <2>1 DEF CalibrateInv, Halfway, Ended
<1>8. QED BY <1>6, <1>7

\* The search for the pixel.
LEMMA PixelKeeps ==
  ASSUME CalibrateInv,
         Calibrate!Calibrate("xoffset", Calibrate!em9010_calibrate_xoffset(em), "xcorr")
  PROVE  CalibrateInv'
<1>1. CalibrateTypes /\ at.call = "xoffset"
  BY Running DEF CalibrateInv, Calibrate!Calibrate
<1>2. PICK o \in Calibrate!em9010_calibrate_xoffset(em) :
        /\ em' = o.em /\ ov' = IF o.ok THEN [ov EXCEPT !["xoffset"] = o.em.a["xoffset"]] ELSE ov
        /\ seen' = [seen EXCEPT !["xoffset"] = IF o.ok THEN o.seen ELSE @]
        /\ at' = [program |-> "autocal", call |-> IF o.ok THEN "xcorr" ELSE "write",
                  ended |-> IF o.ok THEN at.ended ELSE "failed"]
        /\ file' = file /\ before' = before
  BY DEF Calibrate!Calibrate
<1>3. /\ LeftBySearch(o.em) /\ o.seen \in Int
      /\ o.em.a.yoffset = em.a.yoffset
      /\ o.ok => o.em.a.xoffset - o.seen \in 0 .. 1
  BY <1>1, PixelSearched
<1>4. /\ CalibrateTypes' /\ em'.enabled = em.enabled /\ em'.double_y = em.double_y
      /\ at'.call = IF o.ok THEN "xcorr" ELSE "write"
      /\ ~o.ok => ov' = ov /\ seen' = seen /\ at'.ended = "failed"
      /\ o.ok => /\ ov'["xoffset"] = em'.a["xoffset"] /\ seen'["xoffset"] = o.seen
                 /\ \A f \in {"xoffset", "yoffset", "xcorr", "stability"} \ {"xoffset"} :
                      ov'[f] = ov[f] /\ seen'[f] = seen[f]
  BY ONLY CalibrateInv, <1>2, <1>3, CalibrateEnds
<1>5. /\ em.enabled /\ ov.stability = before.stability /\ ov.yoffset = em.a.yoffset
      /\ ov.xoffset = before.xoffset /\ ov.xcorr = before.xcorr /\ LineFound(em)
  BY <1>1 DEF CalibrateInv, Halfway, Searched
<1>6. CASE o.ok
  <2>1. LineFound(em)'
    BY <1>2, <1>3, <1>4, <1>5, <1>6 DEF LineFound, Calibrate!Top, Calibrate!Half
  <2>2. PixelFound(ov.xoffset)'
    BY <1>2, <1>3, <1>4, <1>6 DEF PixelFound
  <2>3. Halfway'
    BY <1>2, <1>3, <1>4, <1>5, <1>6, <2>1, <2>2 DEF Halfway, Searched
  <2>4. QED BY <1>4, <1>6, <2>3 DEF CalibrateInv
<1>7. CASE ~o.ok
  <2>1. Failed(ov)'
    BY <1>2, <1>4, <1>5, <1>7 DEF Failed
  <2>2. QED BY <1>4, <1>7, <2>1 DEF CalibrateInv, Halfway, Ended
<1>8. QED BY <1>6, <1>7

\* The search for the scale.
LEMMA ScaleKeeps ==
  ASSUME CalibrateInv,
         Calibrate!Calibrate("xcorr", Calibrate!em9010_calibrate_xcorrection(em), "colors")
  PROVE  CalibrateInv'
<1>1. CalibrateTypes /\ at.call = "xcorr"
  BY Running DEF CalibrateInv, Calibrate!Calibrate
<1>2. PICK o \in Calibrate!em9010_calibrate_xcorrection(em) :
        /\ em' = o.em /\ ov' = IF o.ok THEN [ov EXCEPT !["xcorr"] = o.em.a["xcorr"]] ELSE ov
        /\ seen' = [seen EXCEPT !["xcorr"] = IF o.ok THEN o.seen ELSE @]
        /\ at' = [program |-> "autocal", call |-> IF o.ok THEN "colors" ELSE "write",
                  ended |-> IF o.ok THEN at.ended ELSE "failed"]
        /\ file' = file /\ before' = before
  BY DEF Calibrate!Calibrate
<1>3. /\ LeftBySearch(o.em) /\ o.seen \in Int
      /\ o.em.a.yoffset = em.a.yoffset /\ o.em.a.xoffset = em.a.xoffset
      /\ o.ok => o.em.a.xcorr - o.seen \in {-2, 2}
  BY <1>1, ScaleSearched
<1>4. /\ CalibrateTypes' /\ em'.enabled = em.enabled /\ em'.double_y = em.double_y
      /\ at'.call = IF o.ok THEN "colors" ELSE "write"
      /\ ~o.ok => ov' = ov /\ seen' = seen /\ at'.ended = "failed"
      /\ o.ok => /\ ov'["xcorr"] = em'.a["xcorr"] /\ seen'["xcorr"] = o.seen
                 /\ \A f \in {"xoffset", "yoffset", "xcorr", "stability"} \ {"xcorr"} :
                      ov'[f] = ov[f] /\ seen'[f] = seen[f]
  BY ONLY CalibrateInv, <1>2, <1>3, CalibrateEnds
<1>5. /\ em.enabled /\ ov.stability = before.stability /\ ov.yoffset = em.a.yoffset
      /\ ov.xoffset = em.a.xoffset /\ ov.xcorr = before.xcorr
      /\ LineFound(em) /\ PixelFound(ov.xoffset)
  BY <1>1 DEF CalibrateInv, Halfway, Searched
<1>6. CASE o.ok
  <2>1. LineFound(em)'
    BY <1>2, <1>3, <1>4, <1>5, <1>6 DEF LineFound, Calibrate!Top, Calibrate!Half
  <2>2. PixelFound(ov.xoffset)' /\ ScaleFound(ov.xcorr)'
    BY <1>2, <1>3, <1>4, <1>5, <1>6 DEF PixelFound, ScaleFound
  <2>3. Halfway'
    BY <1>2, <1>3, <1>4, <1>5, <1>6, <2>1, <2>2 DEF Halfway, Searched
  <2>4. QED BY <1>4, <1>6, <2>3 DEF CalibrateInv
<1>7. CASE ~o.ok
  <2>1. Failed(ov)'
    BY <1>2, <1>4, <1>5, <1>7 DEF Failed, PixelFound
  <2>2. QED BY <1>4, <1>7, <2>1 DEF CalibrateInv, Halfway, Ended
<1>8. QED BY <1>6, <1>7

\* The key colours: after them the overlay is off, unless one failed.
LEMMA CalibrateColorsKeeps ==
  ASSUME CalibrateInv, Calibrate!CalibrateColors
  PROVE  CalibrateInv'
<1>1. CalibrateTypes /\ at.call = "colors" /\ at.program \in {"autocal", "dxr3view"}
  BY Running DEF CalibrateInv, Calibrate!CalibrateColors
<1>2. /\ em.enabled /\ ov.stability = before.stability
      /\ \A f \in {"yoffset", "xoffset", "xcorr"} : ov[f] = em.a[f]
      /\ LineFound(em) /\ PixelFound(ov.xoffset) /\ ScaleFound(ov.xcorr)
  BY <1>1 DEF CalibrateInv, Halfway, Searched
<1>3. ov' = ov /\ file' = file /\ seen' = seen /\ before' = before
  BY DEF Calibrate!CalibrateColors
<1>4. ASSUME NEW how \in {"done", "failed"}, em' \in DriverSettings,
             at' = [at EXCEPT !.call = "write", !.ended = how]
      PROVE  CalibrateTypes' /\ at'.call = "write" /\ at'.ended = how
  BY <1>1, <1>3, <1>4 DEF CalibrateTypes, Places
<1>5. ASSUME em' = Calibrate!SetMode(em, FALSE),
             at' = [at EXCEPT !.call = "write", !.ended = "done"]
      PROVE  CalibrateInv'
  <2> DEFINE on == FALSE
  <2>1. on \in BOOLEAN /\ ~on
    OBVIOUS
  <2>2. em' = Calibrate!SetMode(em, on)
    BY <1>5
  <2> HIDE DEF on
  <2>3. em \in DriverSettings
    BY <1>1 DEF CalibrateTypes
  <2>4. /\ em' \in DriverSettings /\ ~em'.enabled /\ em'.a = em.a
        /\ em'.double_y = em.double_y /\ em'.r6 = em'.a.stability % 256
    BY ONLY <2>1, <2>2, <2>3, ModeSet
  <2>5. CalibrateTypes' /\ at'.call = "write" /\ at'.ended = "done"
    BY <1>4, <1>5, <2>4
  <2>6. Done(ov)'
    BY <1>2, <1>3, <2>4
    DEF Done, LineFound, PixelFound, ScaleFound, Calibrate!Top, Calibrate!Half
  <2>7. QED BY <2>5, <2>6 DEF CalibrateInv, Halfway, Ended
<1>6. ASSUME em' = em, at' = [at EXCEPT !.call = "write", !.ended = "failed"]
      PROVE  CalibrateInv'
  <2>1. CalibrateTypes' /\ at'.call = "write" /\ at'.ended = "failed"
    BY <1>1, <1>4, <1>6 DEF CalibrateTypes
  <2>2. Failed(ov)'
    BY <1>2, <1>3, <1>6 DEF Failed, PixelFound, ScaleFound
  <2>3. QED BY <2>1, <2>2 DEF CalibrateInv, Halfway, Ended
<1>7. QED BY <1>5, <1>6 DEF Calibrate!CalibrateColors

\* dxr3view shows what was read.
LEMMA ViewKeeps ==
  ASSUME CalibrateInv, Calibrate!View
  PROVE  CalibrateInv'
<1>1. CalibrateTypes /\ at.call = "view" /\ at.program \in {"autocal", "dxr3view"}
  BY Running DEF CalibrateInv, Calibrate!View
<1>2. /\ em' = [Calibrate!SetMode(em, TRUE) EXCEPT !.a = ov, !.r6 = ov.stability % 256]
      /\ Calibrate!Goto("dxr3view", "adjust")
      /\ ov' = ov /\ file' = file /\ seen' = seen /\ before' = before
  BY DEF Calibrate!View
<1>3. /\ at' \in Places /\ (at'.program = "none" <=> at'.call = "none")
      /\ at'.call = "adjust"
  BY <1>1, <1>2, Goes
<1>4. em' \in DriverSettings /\ em'.a = ov
  <2> DEFINE on == TRUE
             g == Calibrate!SetMode(em, on)
  <2>1. on \in BOOLEAN
    OBVIOUS
  <2>2. em \in DriverSettings /\ ov \in Attribs
    BY <1>1 DEF CalibrateTypes
  <2>3. em' = [g EXCEPT !.a = ov, !.r6 = ov.stability % 256]
    BY Zenon, <1>2
  <2> HIDE DEF on
  <2>4. g \in DriverSettings
    BY ONLY <2>1, <2>2, ModeSet
  <2> HIDE DEF g
  <2>5. QED BY ONLY <2>2, <2>3, <2>4, AttributesSet
<1>5. CalibrateTypes'
  BY <1>1, <1>2, <1>3, <1>4 DEF CalibrateTypes
<1>6. QED BY <1>2, <1>3, <1>4, <1>5 DEF CalibrateInv, Halfway

\* The user sets a value.
LEMMA AdjustKeeps ==
  ASSUME CalibrateInv, Calibrate!Adjust
  PROVE  CalibrateInv'
<1>1. CalibrateTypes /\ at.call = "adjust"
  BY Running DEF CalibrateInv, Calibrate!Adjust
<1>2. /\ \E f \in Calibrate!Fields, v \in Spins : ov' = [ov EXCEPT ![f] = v]
      /\ em' = [em EXCEPT !.a = ov', !.r6 = ov'.stability % 256]
      /\ file' = file /\ at' = at /\ seen' = seen /\ before' = before
  BY DEF Calibrate!Adjust
<1>3. em \in DriverSettings /\ ov' \in Attribs
  BY <1>1, <1>2, CalibrateNumbers DEF CalibrateTypes, Attribs, Calibrate!Fields
<1>4. em' \in DriverSettings /\ em'.a = ov'
  BY ONLY <1>2, <1>3, AttributesSet
<1>5. CalibrateTypes'
  BY <1>1, <1>2, <1>3, <1>4 DEF CalibrateTypes
<1>6. QED BY <1>1, <1>2, <1>4, <1>5 DEF CalibrateInv, Halfway

\* dxr3view ends.
LEMMA LeaveKeeps ==
  ASSUME CalibrateInv, Calibrate!Leave
  PROVE  CalibrateInv'
<1>1. CalibrateTypes /\ at.call = "adjust" /\ at.program \in {"autocal", "dxr3view"}
  BY Running DEF CalibrateInv, Calibrate!Leave
<1>2. /\ em' = Calibrate!SetMode(em, FALSE)
      /\ at' = [at EXCEPT !.call = "write", !.ended = "viewed"]
      /\ ov' = ov /\ file' = file /\ seen' = seen /\ before' = before
  BY DEF Calibrate!Leave
<1>3. em.a = ov
  BY <1>1 DEF CalibrateInv
<1>4. em' \in DriverSettings /\ ~em'.enabled /\ em'.a = em.a
  <2> DEFINE on == FALSE
  <2>1. on \in BOOLEAN /\ ~on
    OBVIOUS
  <2>2. em' = Calibrate!SetMode(em, on)
    BY <1>2
  <2> HIDE DEF on
  <2>3. em \in DriverSettings
    BY <1>1 DEF CalibrateTypes
  <2>4. QED BY ONLY <2>1, <2>2, <2>3, ModeSet
<1>5. CalibrateTypes' /\ at'.call = "write" /\ at'.ended = "viewed"
  BY <1>1, <1>2, <1>4 DEF CalibrateTypes, Places
<1>6. Viewed(ov)'
  BY <1>2, <1>3, <1>4 DEF Viewed
<1>7. QED BY <1>5, <1>6 DEF CalibrateInv, Halfway, Ended

\* The saved state cannot be opened.
LEMMA OpenFailsKeeps ==
  ASSUME CalibrateInv, Calibrate!OpenFails
  PROVE  CalibrateInv'
<1>1. CalibrateTypes /\ at.call = "write"
  BY Running DEF CalibrateInv, Calibrate!OpenFails
<1>2. /\ Calibrate!End("unsaved")
      /\ em' = em /\ ov' = ov /\ file' = file /\ seen' = seen /\ before' = before
  BY DEF Calibrate!OpenFails
<1>3. /\ at' \in Places /\ (at'.program = "none" <=> at'.call = "none")
      /\ at'.call = "none" /\ at'.ended = "unsaved"
  BY <1>1, <1>2, Ends
<1>4. CalibrateTypes'
  BY <1>1, <1>2, <1>3 DEF CalibrateTypes
<1>5. ~em.enabled => \A f \in {"xoffset", "yoffset", "xcorr"} : em.a[f] = ov[f]
  BY <1>1 DEF CalibrateInv, Ended, Done, Failed, Viewed
<1>6. QED BY <1>2, <1>3, <1>4, <1>5 DEF CalibrateInv, Halfway

\* The saved state is emptied.
LEMMA TruncateKeeps ==
  ASSUME CalibrateInv, Calibrate!Truncate
  PROVE  CalibrateInv'
<1>1. CalibrateTypes /\ at.call = "write" /\ at.program \in {"autocal", "dxr3view"}
  BY Running DEF CalibrateInv, Calibrate!Truncate
<1>2. /\ file' = [file EXCEPT !.state = "empty"] /\ Calibrate!Goto(at.program, "fill")
      /\ em' = em /\ ov' = ov /\ seen' = seen /\ before' = before
  BY DEF Calibrate!Truncate
<1>3. /\ at' \in Places /\ (at'.program = "none" <=> at'.call = "none")
      /\ at'.call = "fill" /\ at'.ended = at.ended
  BY <1>1, <1>2, Goes
<1>4. CalibrateTypes'
  BY <1>1, <1>2, <1>3 DEF CalibrateTypes, Files
<1>5. Ended(ov)'
  BY <1>1, <1>2, <1>3
  DEF CalibrateInv, Ended, Done, Failed, Viewed, LineFound, PixelFound, ScaleFound,
      Calibrate!Top, Calibrate!Half
<1>6. QED BY <1>3, <1>4, <1>5 DEF CalibrateInv, Halfway

\* It is written.
LEMMA FillKeeps ==
  ASSUME CalibrateInv, Calibrate!Fill
  PROVE  CalibrateInv'
<1>1. CalibrateTypes /\ at.call = "fill" /\ at.program \in {"autocal", "dxr3view"}
  BY Running DEF CalibrateInv, Calibrate!Fill
<1>2. /\ file' = [state |-> "whole", ov |-> ov] /\ Calibrate!End(at.ended)
      /\ em' = em /\ ov' = ov /\ seen' = seen /\ before' = before
  BY DEF Calibrate!Fill
<1>3. at.ended \in {"none", "killed", "unsaved", "done", "failed", "viewed"}
  BY <1>1 DEF CalibrateTypes, Places
<1>4. /\ at' \in Places /\ (at'.program = "none" <=> at'.call = "none")
      /\ at'.call = "none" /\ at'.ended = at.ended
  BY <1>1, <1>2, <1>3, Ends
<1>5. CalibrateTypes' /\ file'.state = "whole" /\ file'.ov = ov
  BY <1>1, <1>2, <1>4 DEF CalibrateTypes, Files
<1>6. Ended(file.ov)'
  BY <1>1, <1>2, <1>4, <1>5
  DEF CalibrateInv, Ended, Done, Failed, Viewed, LineFound, PixelFound, ScaleFound,
      Calibrate!Top, Calibrate!Half
<1>7. at'.ended # "unsaved"
  BY <1>6 DEF Ended
<1>8. QED BY <1>4, <1>5, <1>6, <1>7 DEF CalibrateInv, Halfway

\* A kill: nothing is said of what it leaves.
LEMMA KillKeeps ==
  ASSUME CalibrateInv, Calibrate!Kill
  PROVE  CalibrateInv'
<1>1. CalibrateTypes /\ Calibrate!End("killed")
      /\ em' = em /\ ov' = ov /\ file' = file /\ seen' = seen /\ before' = before
  BY DEF CalibrateInv, Calibrate!Kill
<1>2. /\ at' \in Places /\ (at'.program = "none" <=> at'.call = "none")
      /\ at'.call = "none" /\ at'.ended = "killed"
  BY <1>1, Ends
<1>3. CalibrateTypes'
  BY <1>1, <1>2 DEF CalibrateTypes
<1>4. QED BY <1>2, <1>3 DEF CalibrateInv, Halfway

\* Every call of a program keeps the invariant.
LEMMA CalibrateStep == CalibrateInv /\ Calibrate!Next => CalibrateInv'
BY StartKeeps, ReadStateKeeps, BeginKeeps, LineKeeps, PixelKeeps, ScaleKeeps,
   CalibrateColorsKeeps, ViewKeeps, AdjustKeeps, LeaveKeeps, OpenFailsKeeps, TruncateKeeps,
   FillKeeps, KillKeeps
DEF Calibrate!Next

\* No call but the start and the last one moves the file or what it held.
LEMMA FileStep == CalibrateInv /\ FileInv /\ Calibrate!Next => FileInv'
<1> SUFFICES ASSUME CalibrateInv, FileInv, Calibrate!Next PROVE FileInv'
  OBVIOUS
<1>1. ASSUME NEW program \in {"autocal", "dxr3view"}, Calibrate!Start(program)
      PROVE  FileInv'
  BY <1>1 DEF Calibrate!Start, FileInv
<1>2. ASSUME NEW c \in {"read", "begin", "yoffset", "xoffset", "xcorr", "colors", "view",
                         "adjust", "write"},
             Calibrate!In(c), file' = file, before' = before
      PROVE  FileInv'
  BY <1>2 DEF Calibrate!In, FileInv
<1>3. ASSUME NEW c \in {"yoffset", "xoffset", "xcorr"}, NEW outcomes, NEW next,
             Calibrate!Calibrate(c, outcomes, next)
      PROVE  FileInv'
  <2>1. Calibrate!In(c) /\ file' = file /\ before' = before
    BY <1>3 DEF Calibrate!Calibrate
  <2>2. QED BY <1>2, <2>1
<1>4. CASE Calibrate!ReadState
  BY <1>2, <1>4 DEF Calibrate!ReadState
<1>5. CASE Calibrate!Begin
  BY <1>2, <1>5 DEF Calibrate!Begin
<1>6. CASE Calibrate!CalibrateColors
  BY <1>2, <1>6 DEF Calibrate!CalibrateColors
<1>7. CASE Calibrate!View \/ Calibrate!Adjust \/ Calibrate!Leave \/ Calibrate!OpenFails
  BY <1>2, <1>7 DEF Calibrate!View, Calibrate!Adjust, Calibrate!Leave, Calibrate!OpenFails
<1>8. CASE Calibrate!Truncate
  <2>1. file' = [file EXCEPT !.state = "empty"] /\ file \in Files
    BY <1>8 DEF Calibrate!Truncate, CalibrateInv, CalibrateTypes
  <2>2. file'.state # "whole"
    BY <2>1 DEF Files
  <2>3. QED BY <2>2 DEF FileInv
<1>9. CASE Calibrate!Fill
  <2>1. at.call = "fill" /\ at'.call = "none" /\ at'.ended = at.ended
    BY <1>9 DEF Calibrate!Fill, Calibrate!In, Calibrate!End
  <2>2. at.ended # "unsaved"
    BY <2>1 DEF CalibrateInv, Ended
  <2>3. QED BY <2>1, <2>2 DEF FileInv
<1>10. CASE Calibrate!Kill
  <2>1. at'.call = "none" /\ at'.ended = "killed"
    BY <1>10 DEF Calibrate!Kill, Calibrate!End
  <2>2. QED BY <2>1 DEF FileInv
<1>11. QED
  BY <1>1, <1>3, <1>4, <1>5, <1>6, <1>7, <1>8, <1>9, <1>10 DEF Calibrate!Next

\* The calibration part of a step of the whole.
LEMMA CalibratePart ==
  part = "calibrate" /\ [Next]_vars => [Calibrate!Next]_calibrateVars /\ part' = part
<1> SUFFICES ASSUME part = "calibrate", [Next]_vars
             PROVE  (Calibrate!Next \/ UNCHANGED calibrateVars) /\ part' = part
  OBVIOUS
<1>1. CASE Next
  BY <1>1 DEF Next
<1>2. CASE UNCHANGED vars
  BY <1>2 DEF vars, calibrateVars, shared, calibrate
<1>3. QED
  BY <1>1, <1>2

\* What a calibration found is kept, in the driver and in the file, for any places
\* where the sensor may see the picture, any scales and any settings of the user.
THEOREM CalibrationIsKept == Spec => []CalibrationKept
<1> DEFINE I == CalibrateInv /\ FileInv
<1>1. Init => (part = "calibrate" => I)
  <2>1. Calibrate!Init => FileInv
    BY DEF Calibrate!Init, FileInv
  <2>2. QED BY <2>1, CalibrateStarts DEF Init
<1>2. (part = "calibrate" => I) /\ [Next]_vars
      => (part = "calibrate" => I)'
  <2> SUFFICES ASSUME part = "calibrate" => I, [Next]_vars, part' = "calibrate"
               PROVE  I'
    OBVIOUS
  <2>1. part' = part
    BY DEF Next, vars
  <2>2. Calibrate!Next \/ UNCHANGED calibrateVars
    BY <2>1, CalibratePart
  <2>3. CASE UNCHANGED calibrateVars
    BY <2>1, <2>3
    DEF calibrateVars, CalibrateInv, CalibrateTypes, Halfway, Searched, Ended, Done, Failed,
        Viewed, LineFound, PixelFound, ScaleFound, Calibrate!Top, Calibrate!Half, FileInv
  <2>4. QED BY <2>1, <2>2, <2>3, CalibrateStep, FileStep
<1>3. (part = "calibrate" => I) => CalibrationKept
  <2> SUFFICES ASSUME I PROVE Calibrate!CalibrationKept
    BY DEF CalibrationKept
  <2>1. at.program = "none" => at.call = "none"
    BY DEF CalibrateInv, CalibrateTypes
  <2>2. QED BY <2>1
    DEF CalibrateInv, Ended, Done, Failed, Viewed, LineFound, PixelFound, ScaleFound,
        Calibrate!CalibrationKept, Calibrate!Fields, FileInv
<1>4. QED BY <1>1, <1>2, <1>3, PTL DEF Spec

-------------------------------------------------------------------------------
(* The encoder. *)

\* The variables of the encoder.
encoderVars == <<chip, conf, mode, enable, param, regs>>

\* Bytes, and the chips, registers, modes and tables of the ADV717x driver.
Byte == 0 .. 255
Adv == {"ADV7170", "ADV7175A"}
RegisterNames == {"MR0", "MR1", "TR0", "TR1", "MR2", "MR3", "MR4"}
AdvModes == Encoder!PalModes \cup {"NTSC"}
AdvRegisters(c) == IF c = "ADV7170" THEN 0 .. 26 ELSE 0 .. 18
AdvTables(c) == [AdvModes -> [AdvRegisters(c) -> Byte]]

\* Table u is t but for the bits in W, a set of register, bit and value.
Changes(t, u, W) ==
  /\ \A w \in W : Encoder!Bit(u[w[1]], w[2]) = w[3]
  /\ \A r \in DOMAIN t, b \in 0 .. 7 :
       (\A w \in W : w[1] # r \/ w[2] # b) => Encoder!Bit(u[r], b) = Encoder!Bit(t[r], b)

\* The powers of two of SetReg and Bit.
LEMMA Powers ==
  /\ 2^0 = 1 /\ 2^1 = 2 /\ 2^2 = 4 /\ 2^3 = 8
  /\ 2^4 = 16 /\ 2^5 = 32 /\ 2^6 = 64 /\ 2^7 = 128
OBVIOUS

\* The number with these bits, the lowest first, and the bits of a byte.
Number(a, b, c, d, e, f, g, h) ==
  a + 2 * b + 4 * c + 8 * d + 16 * e + 32 * f + 64 * g + 128 * h

\* A number made of eight bits has those bits.
LEMMA NumberBits ==
  ASSUME NEW a \in 0 .. 1, NEW b \in 0 .. 1, NEW c \in 0 .. 1, NEW d \in 0 .. 1,
         NEW e \in 0 .. 1, NEW f \in 0 .. 1, NEW g \in 0 .. 1, NEW h \in 0 .. 1
  PROVE  LET v == Number(a, b, c, d, e, f, g, h)
         IN  /\ v \in Byte
             /\ Encoder!Bit(v, 0) = a /\ Encoder!Bit(v, 1) = b
             /\ Encoder!Bit(v, 2) = c /\ Encoder!Bit(v, 3) = d
             /\ Encoder!Bit(v, 4) = e /\ Encoder!Bit(v, 5) = f
             /\ Encoder!Bit(v, 6) = g /\ Encoder!Bit(v, 7) = h
<1> DEFINE v == Number(a, b, c, d, e, f, g, h)
           v1 == b + 2 * c + 4 * d + 8 * e + 16 * f + 32 * g + 64 * h
           v2 == c + 2 * d + 4 * e + 8 * f + 16 * g + 32 * h
           v3 == d + 2 * e + 4 * f + 8 * g + 16 * h
           v4 == e + 2 * f + 4 * g + 8 * h
           v5 == f + 2 * g + 4 * h
           v6 == g + 2 * h
<1>1. v \in Byte /\ v = 2 * v1 + a
  BY DEF Number, Byte
<1>2. /\ v1 = 2 * v2 + b /\ v2 = 2 * v3 + c /\ v3 = 2 * v4 + d
      /\ v4 = 2 * v5 + e /\ v5 = 2 * v6 + f /\ v6 = 2 * h + g
      /\ v1 \in Nat /\ v2 \in Nat /\ v3 \in Nat /\ v4 \in Nat /\ v5 \in Nat /\ v6 \in Nat
  OBVIOUS
<1> HIDE DEF v, v1, v2, v3, v4, v5, v6
<1>3. /\ v \div 1 = v /\ v \div 2 = v1 /\ v \div 4 = v2 /\ v \div 8 = v3
      /\ v \div 16 = v4 /\ v \div 32 = v5 /\ v \div 64 = v6 /\ v \div 128 = h
  BY <1>1, <1>2
<1>4. /\ v % 2 = a /\ v1 % 2 = b /\ v2 % 2 = c /\ v3 % 2 = d /\ v4 % 2 = e
      /\ v5 % 2 = f /\ v6 % 2 = g /\ h % 2 = h
  BY <1>1, <1>2
<1>5. QED BY <1>1, <1>3, <1>4, Powers DEF Encoder!Bit, v

\* A byte is the number made of its bits.
LEMMA ByteBits ==
  ASSUME NEW v \in Byte
  PROVE  /\ v = Number(Encoder!Bit(v, 0), Encoder!Bit(v, 1), Encoder!Bit(v, 2),
                       Encoder!Bit(v, 3), Encoder!Bit(v, 4), Encoder!Bit(v, 5),
                       Encoder!Bit(v, 6), Encoder!Bit(v, 7))
         /\ \A b \in 0 .. 7 : Encoder!Bit(v, b) \in 0 .. 1
<1> DEFINE B(n) == (v \div n) % 2
           D(n) == v \div n
<1>1. /\ Encoder!Bit(v, 0) = B(1) /\ Encoder!Bit(v, 1) = B(2) /\ Encoder!Bit(v, 2) = B(4)
      /\ Encoder!Bit(v, 3) = B(8) /\ Encoder!Bit(v, 4) = B(16) /\ Encoder!Bit(v, 5) = B(32)
      /\ Encoder!Bit(v, 6) = B(64) /\ Encoder!Bit(v, 7) = B(128)
  BY Powers DEF Encoder!Bit
<1>2. \A n \in {1, 2, 4, 8, 16, 32, 64, 128} : B(n) \in 0 .. 1 /\ D(n) \in Int
  BY DEF Byte
<1>3. /\ v = 2 * D(2) + B(1) /\ D(2) = 2 * D(4) + B(2)
      /\ D(4) = 2 * D(8) + B(4) /\ D(8) = 2 * D(16) + B(8)
      /\ D(16) = 2 * D(32) + B(16) /\ D(32) = 2 * D(64) + B(32)
      /\ D(64) = 2 * D(128) + B(64) /\ D(128) = B(128)
  BY DEF Byte
<1> HIDE DEF B, D
<1>4. v = Number(B(1), B(2), B(4), B(8), B(16), B(32), B(64), B(128))
  <2>1. /\ B(1) \in Int /\ B(2) \in Int /\ B(4) \in Int /\ B(8) \in Int
        /\ B(16) \in Int /\ B(32) \in Int /\ B(64) \in Int /\ B(128) \in Int
    BY <1>2
  <2>2. /\ v \in Int /\ D(2) \in Int /\ D(4) \in Int /\ D(8) \in Int
        /\ D(16) \in Int /\ D(32) \in Int /\ D(64) \in Int
    BY <1>2 DEF Byte
  <2>3. \A p, q, r, s, t, y, z \in Int :
          2 * (2 * (2 * (2 * (2 * (2 * (2 * z + y) + t) + s) + r) + q) + p)
            = 2 * p + 4 * q + 8 * r + 16 * s + 32 * t + 64 * y + 128 * z
    OBVIOUS
  <2>4. v = 2 * (2 * (2 * (2 * (2 * (2 * (2 * B(128) + B(64)) + B(32)) + B(16)) + B(8))
                   + B(4)) + B(2)) + B(1)
    BY ONLY <1>3
  <2>5. QED BY ONLY <2>1, <2>3, <2>4 DEF Number
<1>5. \A b \in 0 .. 7 : b \in {0, 1, 2, 3, 4, 5, 6, 7}
  OBVIOUS
<1>6. QED BY <1>1, <1>2, <1>4, <1>5

\* SET_REG sets one bit of a byte.
LEMMA BitSet ==
  ASSUME NEW v \in Byte, NEW x \in 0 .. 1, NEW n \in 0 .. 7
  PROVE  LET w == Encoder!SetReg(v, n, x)
         IN  /\ w \in Byte
             /\ \A k \in 0 .. 7 : Encoder!Bit(w, k) = IF k = n THEN x ELSE Encoder!Bit(v, k)
<1> DEFINE B(k) == Encoder!Bit(v, k)
           w == Encoder!SetReg(v, n, x)
           C(k) == IF k = n THEN x ELSE B(k)
<1>1. \A k \in 0 .. 7 : B(k) \in 0 .. 1
  BY ByteBits
<1>2. v = Number(B(0), B(1), B(2), B(3), B(4), B(5), B(6), B(7))
  BY ByteBits
<1>3. w = v + (x - B(n)) * 2^n
  BY DEF Encoder!SetReg
<1>4. \A k \in 0 .. 7 : k \in {0, 1, 2, 3, 4, 5, 6, 7}
  OBVIOUS
<1> HIDE DEF B, w
<1>5. w = Number(C(0), C(1), C(2), C(3), C(4), C(5), C(6), C(7))
  <2>1. n \in {0, 1, 2, 3, 4, 5, 6, 7}
    BY <1>4
  <2>2. CASE n = 0
    BY <1>1, <1>2, <1>3, <2>2, Powers DEF Number
  <2>3. CASE n = 1
    BY <1>1, <1>2, <1>3, <2>3, Powers DEF Number
  <2>4. CASE n = 2
    BY <1>1, <1>2, <1>3, <2>4, Powers DEF Number
  <2>5. CASE n = 3
    BY <1>1, <1>2, <1>3, <2>5, Powers DEF Number
  <2>6. CASE n = 4
    BY <1>1, <1>2, <1>3, <2>6, Powers DEF Number
  <2>7. CASE n = 5
    BY <1>1, <1>2, <1>3, <2>7, Powers DEF Number
  <2>8. CASE n = 6
    BY <1>1, <1>2, <1>3, <2>8, Powers DEF Number
  <2>9. CASE n = 7
    BY <1>1, <1>2, <1>3, <2>9, Powers DEF Number
  <2>10. QED
    BY <2>1, <2>2, <2>3, <2>4, <2>5, <2>6, <2>7, <2>8, <2>9
<1>6. \A k \in 0 .. 7 : C(k) \in 0 .. 1
  BY <1>1
<1> HIDE DEF C
<1>7. /\ w \in Byte
      /\ Encoder!Bit(w, 0) = C(0) /\ Encoder!Bit(w, 1) = C(1) /\ Encoder!Bit(w, 2) = C(2)
      /\ Encoder!Bit(w, 3) = C(3) /\ Encoder!Bit(w, 4) = C(4) /\ Encoder!Bit(w, 5) = C(5)
      /\ Encoder!Bit(w, 6) = C(6) /\ Encoder!Bit(w, 7) = C(7)
  BY <1>5, <1>6, NumberBits
<1>8. QED BY <1>4, <1>7 DEF w, B, C

\* The tables of the source.
LEMMA TableOK ==
  ASSUME NEW n \in Nat, NEW l, l = n - 1, NEW s \in Seq(Byte)
  PROVE  Encoder!Table(n, s) \in [0 .. l -> Byte]
<1>1. 0 \in Byte
  BY DEF Byte
<1>2. \A i \in 0 .. n - 1 : i < Len(s) => s[i + 1] \in Byte
  BY ElementOfSeq, LenProperties
<1>3. QED BY <1>1, <1>2 DEF Encoder!Table

\* The tables of the ADV7170, and those of the ADV7175A.
LEMMA Tables7170 ==
  /\ Encoder!PAL_config_7170 \in [0 .. 26 -> Byte]
  /\ Encoder!NTSC_config_7170 \in [0 .. 26 -> Byte]
<1>1. \A s \in Seq(Byte) : Encoder!Table(27, s) \in [0 .. 26 -> Byte]
  <2>1. 27 \in Nat /\ 26 = 27 - 1
    OBVIOUS
  <2>2. QED BY ONLY <2>1, TableOK
<1>2. <<\h05, 0, \h02, 0, 0, 0, 0, \h0d, \h77, \hcb, \h8a, \h09, \h2a>> \in Seq(Byte)
  BY DEF Byte
<1>3. <<\h10, \h06, \h08, 0, 0, 0, 0, \h0d, \h77, \h16, \h7c, \hf0, \h21>> \in Seq(Byte)
  BY DEF Byte
<1>4. QED BY <1>1, <1>2, <1>3 DEF Encoder!PAL_config_7170, Encoder!NTSC_config_7170

LEMMA Tables7175 ==
  /\ Encoder!PAL_M_config_7175 \in [0 .. 18 -> Byte]
  /\ Encoder!PAL_config_7175 \in [0 .. 18 -> Byte]
  /\ Encoder!PAL60_config_7175 \in [0 .. 18 -> Byte]
  /\ Encoder!NTSC_config_7175 \in [0 .. 18 -> Byte]
<1>1. \A s \in Seq(Byte) : Encoder!Table(19, s) \in [0 .. 18 -> Byte]
  <2>1. 19 \in Nat /\ 18 = 19 - 1
    OBVIOUS
  <2>2. QED BY ONLY <2>1, TableOK
<1>2. <<\h06, \h00, \ha3, \hef, \he6, \h21, 0, \h0d,
        0, 0, 0, 0, \h70, \h73, 0, 0, 0, 0, \h42>> \in Seq(Byte)
  BY DEF Byte
<1>3. <<\h01, \h06, \hcb, \h8a, \h09, \h2a, 0, \h0d,
        0, 0, 0, 0, \h73, \h08, 0, 0, 0, 0, \h42>> \in Seq(Byte)
  BY DEF Byte
<1>4. <<\h12, \h00, \hcb, \h8a, \h09, \h2a, 0, \h0d,
        0, 0, 0, 0, \h73, \h08, 0, 0, 0, 0, \h42>> \in Seq(Byte)
  BY DEF Byte
<1>5. <<\h04, \h00, \h16, \h7c, \hf0, \h21, 0, \h0d,
        0, 0, 0, 0, \h77, \h00, 0, 0, 0, 0, \h42>> \in Seq(Byte)
  BY DEF Byte
<1>6. QED BY <1>1, <1>2, <1>3, <1>4, <1>5
  DEF Encoder!PAL_M_config_7175, Encoder!PAL_config_7175, Encoder!PAL60_config_7175,
      Encoder!NTSC_config_7175

\* Every mode of a chip has a table of bytes.
LEMMA TablesOK == \A c \in Adv : Encoder!Tables(c) \in AdvTables(c)
<1>1. Encoder!adv7170_setup \in AdvTables("ADV7170")
  BY Tables7170 DEF Encoder!adv7170_setup, AdvTables, AdvModes, AdvRegisters
<1>2. Encoder!adv7175a_setup \in AdvTables("ADV7175A")
  <2>1. \A m \in AdvModes : m \in {"PAL", "PAL_M", "PAL60", "NTSC"}
    BY DEF AdvModes, Encoder!PalModes
  <2>2. AdvTables("ADV7175A") = [AdvModes -> [0 .. 18 -> Byte]]
    BY DEF AdvTables, AdvRegisters
  <2>3. QED BY <2>1, <2>2, Tables7175 DEF Encoder!adv7175a_setup, AdvModes
<1>3. QED BY <1>1, <1>2 DEF Adv, Encoder!Tables

\* One bit of one register, in the tables of some modes.
LEMMA RegisterOK ==
  ASSUME NEW c \in Adv, NEW r \in RegisterNames, r = "MR4" => c = "ADV7170"
  PROVE  Encoder!Reg(c, r) \in AdvRegisters(c)
BY DEF Adv, RegisterNames, Encoder!Reg, AdvRegisters

\* An assignment changes its bit and no other.
LEMMA Assigned ==
  ASSUME NEW c \in Adv, NEW t \in [AdvRegisters(c) -> Byte], NEW r \in RegisterNames,
         r = "MR4" => c = "ADV7170", NEW b \in 0 .. 7, NEW x \in 0 .. 1
  PROVE  LET u == Encoder!Assign(t, c, r, b, x)
         IN  u \in [AdvRegisters(c) -> Byte] /\ Changes(t, u, {<<Encoder!Reg(c, r), b, x>>})
<1> DEFINE k == Encoder!Reg(c, r)
           u == Encoder!Assign(t, c, r, b, x)
           R == AdvRegisters(c)
           v == t[k]
           w == Encoder!SetReg(v, b, x)
<1>1. k \in R
  BY RegisterOK
<1>2. u = [t EXCEPT ![k] = w]
  BY DEF Encoder!Assign
<1> HIDE DEF k, u, R
<1>3. t \in [R -> Byte] /\ v \in Byte
  BY <1>1 DEF R
<1>4. /\ w \in Byte
      /\ \A i \in 0 .. 7 : Encoder!Bit(w, i) = IF i = b THEN x ELSE Encoder!Bit(v, i)
  BY <1>3, BitSet
<1> HIDE DEF w
<1>5. u \in [R -> Byte] /\ u[k] = w /\ \A i \in R : i # k => u[i] = t[i]
  BY <1>1, <1>2, <1>3, <1>4
<1>6. Changes(t, u, {<<k, b, x>>})
  BY <1>3, <1>4, <1>5 DEF Changes
<1>7. QED BY <1>5, <1>6 DEF R, u, k

\* One change after others.
LEMMA ChangesThen ==
  ASSUME NEW t, NEW u, NEW z, NEW V, NEW w, DOMAIN u = DOMAIN t,
         Changes(t, u, V), Changes(u, z, {w}),
         w[1] \in DOMAIN t, \A v \in V : v[1] \in DOMAIN t /\ v[2] \in 0 .. 7,
         \A v \in V : v[1] # w[1] \/ v[2] # w[2]
  PROVE  Changes(t, z, V \cup {w})
BY DEF Changes

\* The same bit changed again.
LEMMA ChangesAgain ==
  ASSUME NEW t, NEW u, NEW z, NEW k, NEW b, NEW x, NEW y, DOMAIN u = DOMAIN t,
         Changes(t, u, {<<k, b, x>>}), Changes(u, z, {<<k, b, y>>})
  PROVE  Changes(t, z, {<<k, b, y>>})
BY DEF Changes

\* What a table is after an assignment that follows others.
Changed(c, t, u, W) ==
  /\ u \in [AdvRegisters(c) -> Byte] /\ Changes(t, u, W)
  /\ \A w \in W : w[1] \in AdvRegisters(c) /\ w[2] \in 0 .. 7

\* One more assignment, of a bit that has not been assigned before.
LEMMA ChangedThen ==
  ASSUME NEW c \in Adv, NEW t \in [AdvRegisters(c) -> Byte], NEW u, NEW W, Changed(c, t, u, W),
         NEW r \in RegisterNames, r = "MR4" => c = "ADV7170", NEW k, k = Encoder!Reg(c, r),
         NEW b \in 0 .. 7, NEW x \in 0 .. 1, \A v \in W : v[1] # k \/ v[2] # b
  PROVE  Changed(c, t, Encoder!Assign(u, c, r, b, x), W \cup {<<k, b, x>>})
<1> DEFINE z == Encoder!Assign(u, c, r, b, x)
           w == <<k, b, x>>
<1>1. /\ u \in [AdvRegisters(c) -> Byte] /\ Changes(t, u, W)
      /\ \A v \in W : v[1] \in AdvRegisters(c) /\ v[2] \in 0 .. 7
  BY DEF Changed
<1>2. k \in AdvRegisters(c)
  BY RegisterOK
<1>3. z \in [AdvRegisters(c) -> Byte] /\ Changes(u, z, {w})
  BY <1>1, Assigned
<1>4. DOMAIN u = AdvRegisters(c) /\ DOMAIN t = AdvRegisters(c)
  BY <1>1
<1>5. w[1] = k /\ w[2] = b
  OBVIOUS
<1> HIDE DEF z, w
<1>6. \A v \in W : v[1] # w[1] \/ v[2] # w[2]
  BY <1>5
<1>7. Changes(t, z, W \cup {w})
  BY <1>1, <1>2, <1>3, <1>4, <1>5, <1>6, ChangesThen
<1>8. Changed(c, t, z, W \cup {w})
  BY <1>1, <1>2, <1>3, <1>5, <1>7 DEF Changed
<1>9. QED BY <1>8 DEF z, w

\* The bits that the output mode owns in each chip.
BarTriples(v) == {<<1, 7, v>>}
PortTriples(v) == {<<7, 6, v>>}
ModeTriples(c, i) ==
  IF c = "ADV7175A"
  THEN {<<0, 6, i[1]>>, <<13, 6, i[2]>>, <<18, 7, i[3]>>, <<0, 5, i[5]>>, <<1, 0, i[4]>>,
        <<1, 6, i[6]>>, <<1, 5, i[7]>>, <<1, 3, i[8]>>, <<1, 4, i[9]>>}
  ELSE {<<4, 0, i[1]>>, <<4, 1, i[2]>>, <<3, 3, i[3]>>, <<4, 2, i[5]>>, <<1, 0, i[4]>>,
        <<1, 6, i[6]>>, <<1, 5, i[7]>>, <<1, 3, i[8]>>, <<1, 4, i[9]>>}

\* The table of a mode after all the assignments of an output mode.
Outputs(c, u, i) ==
  LET A(z, r, b, n) == Encoder!Assign(z, c, r, b, i[n])
  IN  IF c = "ADV7175A"
      THEN A(A(A(A(A(A(A(A(A(u, "MR0", 6, 1), "MR2", 6, 2), "MR3", 7, 3), "MR0", 5, 5),
             "MR1", 0, 4), "MR1", 6, 6), "MR1", 5, 7), "MR1", 3, 8), "MR1", 4, 9)
      ELSE A(A(A(A(A(A(A(A(A(u, "MR4", 0, 1), "MR4", 1, 2), "MR3", 3, 3), "MR4", 2, 5),
             "MR1", 0, 4), "MR1", 6, 6), "MR1", 5, 7), "MR1", 3, 8), "MR1", 4, 9)

\* What mode_info holds is one bit each.
LEMMA ModeBits ==
  \A out \in DOMAIN Encoder!mode_info, i \in 1 .. 9 : Encoder!mode_info[out][i] \in 0 .. 1
BY DEF Encoder!mode_info

\* The assignments of an output mode, after that of the colour bars.
LEMMA Outputs7175A ==
  ASSUME NEW t \in [AdvRegisters("ADV7175A") -> Byte], NEW u, NEW y,
         Changed("ADV7175A", t, u, BarTriples(y)), NEW i, \A n \in 1 .. 9 : i[n] \in 0 .. 1
  PROVE  Changed("ADV7175A", t, Outputs("ADV7175A", u, i),
                 BarTriples(y) \cup ModeTriples("ADV7175A", i))
<1> DEFINE c == "ADV7175A"
           u0 == u
           W0 == BarTriples(y)
           u1 == Encoder!Assign(u0, c, "MR0", 6, i[1])
           W1 == W0 \cup {<<0, 6, i[1]>>}
           u2 == Encoder!Assign(u1, c, "MR2", 6, i[2])
           W2 == W1 \cup {<<13, 6, i[2]>>}
           u3 == Encoder!Assign(u2, c, "MR3", 7, i[3])
           W3 == W2 \cup {<<18, 7, i[3]>>}
           u4 == Encoder!Assign(u3, c, "MR0", 5, i[5])
           W4 == W3 \cup {<<0, 5, i[5]>>}
           u5 == Encoder!Assign(u4, c, "MR1", 0, i[4])
           W5 == W4 \cup {<<1, 0, i[4]>>}
           u6 == Encoder!Assign(u5, c, "MR1", 6, i[6])
           W6 == W5 \cup {<<1, 6, i[6]>>}
           u7 == Encoder!Assign(u6, c, "MR1", 5, i[7])
           W7 == W6 \cup {<<1, 5, i[7]>>}
           u8 == Encoder!Assign(u7, c, "MR1", 3, i[8])
           W8 == W7 \cup {<<1, 3, i[8]>>}
           u9 == Encoder!Assign(u8, c, "MR1", 4, i[9])
           W9 == W8 \cup {<<1, 4, i[9]>>}
<1>1. c \in Adv
  BY DEF Adv
<1>2. /\ c = "ADV7175A"
      /\ Encoder!Reg(c, "MR0") = 0 /\ Encoder!Reg(c, "MR1") = 1
      /\ Encoder!Reg(c, "MR2") = 13 /\ Encoder!Reg(c, "MR3") = 18
  BY DEF Encoder!Reg
<1>3. \A n \in {1, 2, 3, 4, 5, 6, 7, 8, 9} : i[n] \in 0 .. 1
  OBVIOUS
<1>4. Changed(c, t, u0, W0) /\ t \in [AdvRegisters(c) -> Byte]
  OBVIOUS
<1> HIDE DEF c, u0
<1>5. Changed(c, t, u1, W1)
  <2> DEFINE k == 0
             b == 6
  <2>1. \A v \in W0 : v[1] # k \/ v[2] # b
    BY DEF BarTriples
  <2> HIDE DEF W0
  <2>2. /\ "MR0" \in RegisterNames /\ ("MR0" = "MR4" => c = "ADV7170")
        /\ k = Encoder!Reg(c, "MR0") /\ b \in 0 .. 7 /\ i[1] \in 0 .. 1
    BY <1>2, <1>3 DEF RegisterNames
  <2> HIDE DEF k, b
  <2>3. Changed(c, t, Encoder!Assign(u0, c, "MR0", b, i[1]), W0 \cup {<<k, b, i[1]>>})
    BY ONLY <1>1, <1>4, <2>1, <2>2, ChangedThen
  <2>4. QED BY <2>3 DEF k, b
<1> HIDE DEF u1
<1>6. Changed(c, t, u2, W2)
  <2> DEFINE k == 13
             b == 6
  <2>1. \A v \in W1 : v[1] # k \/ v[2] # b
    BY DEF BarTriples
  <2> HIDE DEF W1
  <2>2. /\ "MR2" \in RegisterNames /\ ("MR2" = "MR4" => c = "ADV7170")
        /\ k = Encoder!Reg(c, "MR2") /\ b \in 0 .. 7 /\ i[2] \in 0 .. 1
    BY <1>2, <1>3 DEF RegisterNames
  <2> HIDE DEF k, b
  <2>3. Changed(c, t, Encoder!Assign(u1, c, "MR2", b, i[2]), W1 \cup {<<k, b, i[2]>>})
    BY ONLY <1>1, <1>4, <1>5, <2>1, <2>2, ChangedThen
  <2>4. QED BY <2>3 DEF k, b
<1> HIDE DEF u2
<1>7. Changed(c, t, u3, W3)
  <2> DEFINE k == 18
             b == 7
  <2>1. \A v \in W2 : v[1] # k \/ v[2] # b
    BY DEF BarTriples
  <2> HIDE DEF W2
  <2>2. /\ "MR3" \in RegisterNames /\ ("MR3" = "MR4" => c = "ADV7170")
        /\ k = Encoder!Reg(c, "MR3") /\ b \in 0 .. 7 /\ i[3] \in 0 .. 1
    BY <1>2, <1>3 DEF RegisterNames
  <2> HIDE DEF k, b
  <2>3. Changed(c, t, Encoder!Assign(u2, c, "MR3", b, i[3]), W2 \cup {<<k, b, i[3]>>})
    BY ONLY <1>1, <1>4, <1>6, <2>1, <2>2, ChangedThen
  <2>4. QED BY <2>3 DEF k, b
<1> HIDE DEF u3
<1>8. Changed(c, t, u4, W4)
  <2> DEFINE k == 0
             b == 5
  <2>1. \A v \in W3 : v[1] # k \/ v[2] # b
    BY DEF BarTriples
  <2> HIDE DEF W3
  <2>2. /\ "MR0" \in RegisterNames /\ ("MR0" = "MR4" => c = "ADV7170")
        /\ k = Encoder!Reg(c, "MR0") /\ b \in 0 .. 7 /\ i[5] \in 0 .. 1
    BY <1>2, <1>3 DEF RegisterNames
  <2> HIDE DEF k, b
  <2>3. Changed(c, t, Encoder!Assign(u3, c, "MR0", b, i[5]), W3 \cup {<<k, b, i[5]>>})
    BY ONLY <1>1, <1>4, <1>7, <2>1, <2>2, ChangedThen
  <2>4. QED BY <2>3 DEF k, b
<1> HIDE DEF u4
<1>9. Changed(c, t, u5, W5)
  <2> DEFINE k == 1
             b == 0
  <2>1. \A v \in W4 : v[1] # k \/ v[2] # b
    BY DEF BarTriples
  <2> HIDE DEF W4
  <2>2. /\ "MR1" \in RegisterNames /\ ("MR1" = "MR4" => c = "ADV7170")
        /\ k = Encoder!Reg(c, "MR1") /\ b \in 0 .. 7 /\ i[4] \in 0 .. 1
    BY <1>2, <1>3 DEF RegisterNames
  <2> HIDE DEF k, b
  <2>3. Changed(c, t, Encoder!Assign(u4, c, "MR1", b, i[4]), W4 \cup {<<k, b, i[4]>>})
    BY ONLY <1>1, <1>4, <1>8, <2>1, <2>2, ChangedThen
  <2>4. QED BY <2>3 DEF k, b
<1> HIDE DEF u5
<1>10. Changed(c, t, u6, W6)
  <2> DEFINE k == 1
             b == 6
  <2>1. \A v \in W5 : v[1] # k \/ v[2] # b
    BY DEF BarTriples
  <2> HIDE DEF W5
  <2>2. /\ "MR1" \in RegisterNames /\ ("MR1" = "MR4" => c = "ADV7170")
        /\ k = Encoder!Reg(c, "MR1") /\ b \in 0 .. 7 /\ i[6] \in 0 .. 1
    BY <1>2, <1>3 DEF RegisterNames
  <2> HIDE DEF k, b
  <2>3. Changed(c, t, Encoder!Assign(u5, c, "MR1", b, i[6]), W5 \cup {<<k, b, i[6]>>})
    BY ONLY <1>1, <1>4, <1>9, <2>1, <2>2, ChangedThen
  <2>4. QED BY <2>3 DEF k, b
<1> HIDE DEF u6
<1>11. Changed(c, t, u7, W7)
  <2> DEFINE k == 1
             b == 5
  <2>1. \A v \in W6 : v[1] # k \/ v[2] # b
    BY DEF BarTriples
  <2> HIDE DEF W6
  <2>2. /\ "MR1" \in RegisterNames /\ ("MR1" = "MR4" => c = "ADV7170")
        /\ k = Encoder!Reg(c, "MR1") /\ b \in 0 .. 7 /\ i[7] \in 0 .. 1
    BY <1>2, <1>3 DEF RegisterNames
  <2> HIDE DEF k, b
  <2>3. Changed(c, t, Encoder!Assign(u6, c, "MR1", b, i[7]), W6 \cup {<<k, b, i[7]>>})
    BY ONLY <1>1, <1>4, <1>10, <2>1, <2>2, ChangedThen
  <2>4. QED BY <2>3 DEF k, b
<1> HIDE DEF u7
<1>12. Changed(c, t, u8, W8)
  <2> DEFINE k == 1
             b == 3
  <2>1. \A v \in W7 : v[1] # k \/ v[2] # b
    BY DEF BarTriples
  <2> HIDE DEF W7
  <2>2. /\ "MR1" \in RegisterNames /\ ("MR1" = "MR4" => c = "ADV7170")
        /\ k = Encoder!Reg(c, "MR1") /\ b \in 0 .. 7 /\ i[8] \in 0 .. 1
    BY <1>2, <1>3 DEF RegisterNames
  <2> HIDE DEF k, b
  <2>3. Changed(c, t, Encoder!Assign(u7, c, "MR1", b, i[8]), W7 \cup {<<k, b, i[8]>>})
    BY ONLY <1>1, <1>4, <1>11, <2>1, <2>2, ChangedThen
  <2>4. QED BY <2>3 DEF k, b
<1> HIDE DEF u8
<1>13. Changed(c, t, u9, W9)
  <2> DEFINE k == 1
             b == 4
  <2>1. \A v \in W8 : v[1] # k \/ v[2] # b
    BY DEF BarTriples
  <2> HIDE DEF W8
  <2>2. /\ "MR1" \in RegisterNames /\ ("MR1" = "MR4" => c = "ADV7170")
        /\ k = Encoder!Reg(c, "MR1") /\ b \in 0 .. 7 /\ i[9] \in 0 .. 1
    BY <1>2, <1>3 DEF RegisterNames
  <2> HIDE DEF k, b
  <2>3. Changed(c, t, Encoder!Assign(u8, c, "MR1", b, i[9]), W8 \cup {<<k, b, i[9]>>})
    BY ONLY <1>1, <1>4, <1>12, <2>1, <2>2, ChangedThen
  <2>4. QED BY <2>3 DEF k, b
<1> HIDE DEF u9
<1>14. W9 = BarTriples(y) \cup ModeTriples(c, i)
  BY DEF ModeTriples, c
<1> HIDE DEF W9
<1>15. u9 = Outputs(c, u, i)
  BY DEF Outputs, c, u0, u1, u2, u3, u4, u5, u6, u7, u8, u9
<1> HIDE DEF u9
<1>16. QED BY <1>13, <1>14, <1>15 DEF c

LEMMA Outputs7170 ==
  ASSUME NEW t \in [AdvRegisters("ADV7170") -> Byte], NEW u, NEW y,
         Changed("ADV7170", t, u, BarTriples(y)), NEW i, \A n \in 1 .. 9 : i[n] \in 0 .. 1
  PROVE  Changed("ADV7170", t, Outputs("ADV7170", u, i),
                 BarTriples(y) \cup ModeTriples("ADV7170", i))
<1> DEFINE c == "ADV7170"
           u0 == u
           W0 == BarTriples(y)
           u1 == Encoder!Assign(u0, c, "MR4", 0, i[1])
           W1 == W0 \cup {<<4, 0, i[1]>>}
           u2 == Encoder!Assign(u1, c, "MR4", 1, i[2])
           W2 == W1 \cup {<<4, 1, i[2]>>}
           u3 == Encoder!Assign(u2, c, "MR3", 3, i[3])
           W3 == W2 \cup {<<3, 3, i[3]>>}
           u4 == Encoder!Assign(u3, c, "MR4", 2, i[5])
           W4 == W3 \cup {<<4, 2, i[5]>>}
           u5 == Encoder!Assign(u4, c, "MR1", 0, i[4])
           W5 == W4 \cup {<<1, 0, i[4]>>}
           u6 == Encoder!Assign(u5, c, "MR1", 6, i[6])
           W6 == W5 \cup {<<1, 6, i[6]>>}
           u7 == Encoder!Assign(u6, c, "MR1", 5, i[7])
           W7 == W6 \cup {<<1, 5, i[7]>>}
           u8 == Encoder!Assign(u7, c, "MR1", 3, i[8])
           W8 == W7 \cup {<<1, 3, i[8]>>}
           u9 == Encoder!Assign(u8, c, "MR1", 4, i[9])
           W9 == W8 \cup {<<1, 4, i[9]>>}
<1>1. c \in Adv
  BY DEF Adv
<1>2. /\ c = "ADV7170" /\ Encoder!Reg(c, "MR1") = 1
      /\ Encoder!Reg(c, "MR3") = 3 /\ Encoder!Reg(c, "MR4") = 4
  BY DEF Encoder!Reg
<1>3. \A n \in {1, 2, 3, 4, 5, 6, 7, 8, 9} : i[n] \in 0 .. 1
  OBVIOUS
<1>4. Changed(c, t, u0, W0) /\ t \in [AdvRegisters(c) -> Byte]
  OBVIOUS
<1> HIDE DEF c, u0
<1>5. Changed(c, t, u1, W1)
  <2> DEFINE k == 4
             b == 0
  <2>1. \A v \in W0 : v[1] # k \/ v[2] # b
    BY DEF BarTriples
  <2> HIDE DEF W0
  <2>2. /\ "MR4" \in RegisterNames /\ ("MR4" = "MR4" => c = "ADV7170")
        /\ k = Encoder!Reg(c, "MR4") /\ b \in 0 .. 7 /\ i[1] \in 0 .. 1
    BY <1>2, <1>3 DEF RegisterNames
  <2> HIDE DEF k, b
  <2>3. Changed(c, t, Encoder!Assign(u0, c, "MR4", b, i[1]), W0 \cup {<<k, b, i[1]>>})
    BY ONLY <1>1, <1>4, <2>1, <2>2, ChangedThen
  <2>4. QED BY <2>3 DEF k, b
<1> HIDE DEF u1
<1>6. Changed(c, t, u2, W2)
  <2> DEFINE k == 4
             b == 1
  <2>1. \A v \in W1 : v[1] # k \/ v[2] # b
    BY DEF BarTriples
  <2> HIDE DEF W1
  <2>2. /\ "MR4" \in RegisterNames /\ ("MR4" = "MR4" => c = "ADV7170")
        /\ k = Encoder!Reg(c, "MR4") /\ b \in 0 .. 7 /\ i[2] \in 0 .. 1
    BY <1>2, <1>3 DEF RegisterNames
  <2> HIDE DEF k, b
  <2>3. Changed(c, t, Encoder!Assign(u1, c, "MR4", b, i[2]), W1 \cup {<<k, b, i[2]>>})
    BY ONLY <1>1, <1>4, <1>5, <2>1, <2>2, ChangedThen
  <2>4. QED BY <2>3 DEF k, b
<1> HIDE DEF u2
<1>7. Changed(c, t, u3, W3)
  <2> DEFINE k == 3
             b == 3
  <2>1. \A v \in W2 : v[1] # k \/ v[2] # b
    BY DEF BarTriples
  <2> HIDE DEF W2
  <2>2. /\ "MR3" \in RegisterNames /\ ("MR3" = "MR4" => c = "ADV7170")
        /\ k = Encoder!Reg(c, "MR3") /\ b \in 0 .. 7 /\ i[3] \in 0 .. 1
    BY <1>2, <1>3 DEF RegisterNames
  <2> HIDE DEF k, b
  <2>3. Changed(c, t, Encoder!Assign(u2, c, "MR3", b, i[3]), W2 \cup {<<k, b, i[3]>>})
    BY ONLY <1>1, <1>4, <1>6, <2>1, <2>2, ChangedThen
  <2>4. QED BY <2>3 DEF k, b
<1> HIDE DEF u3
<1>8. Changed(c, t, u4, W4)
  <2> DEFINE k == 4
             b == 2
  <2>1. \A v \in W3 : v[1] # k \/ v[2] # b
    BY DEF BarTriples
  <2> HIDE DEF W3
  <2>2. /\ "MR4" \in RegisterNames /\ ("MR4" = "MR4" => c = "ADV7170")
        /\ k = Encoder!Reg(c, "MR4") /\ b \in 0 .. 7 /\ i[5] \in 0 .. 1
    BY <1>2, <1>3 DEF RegisterNames
  <2> HIDE DEF k, b
  <2>3. Changed(c, t, Encoder!Assign(u3, c, "MR4", b, i[5]), W3 \cup {<<k, b, i[5]>>})
    BY ONLY <1>1, <1>4, <1>7, <2>1, <2>2, ChangedThen
  <2>4. QED BY <2>3 DEF k, b
<1> HIDE DEF u4
<1>9. Changed(c, t, u5, W5)
  <2> DEFINE k == 1
             b == 0
  <2>1. \A v \in W4 : v[1] # k \/ v[2] # b
    BY DEF BarTriples
  <2> HIDE DEF W4
  <2>2. /\ "MR1" \in RegisterNames /\ ("MR1" = "MR4" => c = "ADV7170")
        /\ k = Encoder!Reg(c, "MR1") /\ b \in 0 .. 7 /\ i[4] \in 0 .. 1
    BY <1>2, <1>3 DEF RegisterNames
  <2> HIDE DEF k, b
  <2>3. Changed(c, t, Encoder!Assign(u4, c, "MR1", b, i[4]), W4 \cup {<<k, b, i[4]>>})
    BY ONLY <1>1, <1>4, <1>8, <2>1, <2>2, ChangedThen
  <2>4. QED BY <2>3 DEF k, b
<1> HIDE DEF u5
<1>10. Changed(c, t, u6, W6)
  <2> DEFINE k == 1
             b == 6
  <2>1. \A v \in W5 : v[1] # k \/ v[2] # b
    BY DEF BarTriples
  <2> HIDE DEF W5
  <2>2. /\ "MR1" \in RegisterNames /\ ("MR1" = "MR4" => c = "ADV7170")
        /\ k = Encoder!Reg(c, "MR1") /\ b \in 0 .. 7 /\ i[6] \in 0 .. 1
    BY <1>2, <1>3 DEF RegisterNames
  <2> HIDE DEF k, b
  <2>3. Changed(c, t, Encoder!Assign(u5, c, "MR1", b, i[6]), W5 \cup {<<k, b, i[6]>>})
    BY ONLY <1>1, <1>4, <1>9, <2>1, <2>2, ChangedThen
  <2>4. QED BY <2>3 DEF k, b
<1> HIDE DEF u6
<1>11. Changed(c, t, u7, W7)
  <2> DEFINE k == 1
             b == 5
  <2>1. \A v \in W6 : v[1] # k \/ v[2] # b
    BY DEF BarTriples
  <2> HIDE DEF W6
  <2>2. /\ "MR1" \in RegisterNames /\ ("MR1" = "MR4" => c = "ADV7170")
        /\ k = Encoder!Reg(c, "MR1") /\ b \in 0 .. 7 /\ i[7] \in 0 .. 1
    BY <1>2, <1>3 DEF RegisterNames
  <2> HIDE DEF k, b
  <2>3. Changed(c, t, Encoder!Assign(u6, c, "MR1", b, i[7]), W6 \cup {<<k, b, i[7]>>})
    BY ONLY <1>1, <1>4, <1>10, <2>1, <2>2, ChangedThen
  <2>4. QED BY <2>3 DEF k, b
<1> HIDE DEF u7
<1>12. Changed(c, t, u8, W8)
  <2> DEFINE k == 1
             b == 3
  <2>1. \A v \in W7 : v[1] # k \/ v[2] # b
    BY DEF BarTriples
  <2> HIDE DEF W7
  <2>2. /\ "MR1" \in RegisterNames /\ ("MR1" = "MR4" => c = "ADV7170")
        /\ k = Encoder!Reg(c, "MR1") /\ b \in 0 .. 7 /\ i[8] \in 0 .. 1
    BY <1>2, <1>3 DEF RegisterNames
  <2> HIDE DEF k, b
  <2>3. Changed(c, t, Encoder!Assign(u7, c, "MR1", b, i[8]), W7 \cup {<<k, b, i[8]>>})
    BY ONLY <1>1, <1>4, <1>11, <2>1, <2>2, ChangedThen
  <2>4. QED BY <2>3 DEF k, b
<1> HIDE DEF u8
<1>13. Changed(c, t, u9, W9)
  <2> DEFINE k == 1
             b == 4
  <2>1. \A v \in W8 : v[1] # k \/ v[2] # b
    BY DEF BarTriples
  <2> HIDE DEF W8
  <2>2. /\ "MR1" \in RegisterNames /\ ("MR1" = "MR4" => c = "ADV7170")
        /\ k = Encoder!Reg(c, "MR1") /\ b \in 0 .. 7 /\ i[9] \in 0 .. 1
    BY <1>2, <1>3 DEF RegisterNames
  <2> HIDE DEF k, b
  <2>3. Changed(c, t, Encoder!Assign(u8, c, "MR1", b, i[9]), W8 \cup {<<k, b, i[9]>>})
    BY ONLY <1>1, <1>4, <1>12, <2>1, <2>2, ChangedThen
  <2>4. QED BY <2>3 DEF k, b
<1> HIDE DEF u9
<1>14. W9 = BarTriples(y) \cup ModeTriples(c, i)
  BY DEF ModeTriples, c
<1> HIDE DEF W9
<1>15. u9 = Outputs(c, u, i)
  BY DEF Outputs, c, u0, u1, u2, u3, u4, u5, u6, u7, u8, u9
<1> HIDE DEF u9
<1>16. QED BY <1>13, <1>14, <1>15 DEF c

\* The same for both chips.
LEMMA OutputsKeep ==
  ASSUME NEW c \in Adv, NEW t \in [AdvRegisters(c) -> Byte], NEW u, NEW y,
         Changed(c, t, u, BarTriples(y)), NEW i, \A n \in 1 .. 9 : i[n] \in 0 .. 1
  PROVE  Changed(c, t, Outputs(c, u, i), BarTriples(y) \cup ModeTriples(c, i))
BY Outputs7175A, Outputs7170 DEF Adv

\* The commands of the set-up, in the table of one mode.
LEMMA ColorBars ==
  ASSUME NEW c, NEW f, NEW v, NEW m \in DOMAIN f
  PROVE  LET g == Encoder!adv717x_set_colorbars(f, c, DOMAIN f, v)
         IN  DOMAIN g = DOMAIN f /\ g[m] = Encoder!Assign(f[m], c, "MR1", 7, v)
BY DEF Encoder!adv717x_set_colorbars, Encoder!InModes

\* What the other commands of the set-up do to the table of one mode.
LEMMA OutputMode ==
  ASSUME NEW c, NEW f, NEW out, NEW m \in DOMAIN f
  PROVE  LET g == Encoder!adv717x_set_outputmode(f, c, DOMAIN f, out)
         IN  DOMAIN g = DOMAIN f /\ g[m] = Outputs(c, f[m], Encoder!mode_info[out])
BY DEF Encoder!adv717x_set_outputmode, Encoder!InModes, Outputs

LEMMA PixelPort ==
  ASSUME NEW c, NEW f, NEW ms, NEW v, NEW m \in DOMAIN f
  PROVE  LET g == Encoder!adv717x_set_pixelport(f, c, ms, v)
         IN  /\ DOMAIN g = DOMAIN f
             /\ g[m] = IF m \in ms THEN Encoder!Assign(f[m], c, "TR0", 6, v) ELSE f[m]
BY DEF Encoder!adv717x_set_pixelport, Encoder!InModes

\* The table of a mode after a pixel data adjustment.
Adjusted(c, u, v) ==
  IF v \in 0 .. 3
  THEN Encoder!Assign(Encoder!Assign(u, c, "TR1", 6, v % 2), c, "TR1", 7, v \div 2)
  ELSE u

LEMMA PixelDataAdj ==
  ASSUME NEW c, NEW f, NEW ms, NEW v, NEW m \in DOMAIN f
  PROVE  LET g == Encoder!adv717x_set_pixeldataadj(f, c, ms, v)
         IN  /\ DOMAIN g = DOMAIN f
             /\ g[m] = IF m \in ms THEN Adjusted(c, f[m], v) ELSE f[m]
BY DEF Encoder!adv717x_set_pixeldataadj, Encoder!InModes, Adjusted

\* The bits that the adjustment v owns.
AdjustTriples(c, v) ==
  IF v \in 0 .. 3
  THEN {<<IF c = "ADV7170" THEN 8 ELSE 12, 6, v % 2>>,
        <<IF c = "ADV7170" THEN 8 ELSE 12, 7, v \div 2>>}
  ELSE {}

\* No bit that the colour bars, the output mode or the pixel port owns is in one
\* of the timing registers.
LEMMA NotTiming ==
  ASSUME NEW c \in Adv, NEW y, NEW i,
         NEW w \in BarTriples(y) \cup ModeTriples(c, i)
  PROVE  w[1] \in {0, 1, 3, 4, 13, 18} /\ w[1] # 7 /\ w[1] # 8 /\ w[1] # 12
BY DEF Adv, BarTriples, ModeTriples

\* The pixel port and the adjustment assign bits that are not assigned yet.
LEMMA PortKeeps ==
  ASSUME NEW c \in Adv, NEW t \in [AdvRegisters(c) -> Byte], NEW u, NEW y, NEW i,
         Changed(c, t, u, BarTriples(y) \cup ModeTriples(c, i)), NEW p \in 0 .. 1
  PROVE  Changed(c, t, Encoder!Assign(u, c, "TR0", 6, p),
                 BarTriples(y) \cup ModeTriples(c, i) \cup PortTriples(p))
<1> DEFINE W == BarTriples(y) \cup ModeTriples(c, i)
           k == 7
           b == 6
           r == "TR0"
<1>1. \A v \in W : v[1] # k \/ v[2] # b
  BY NotTiming
<1>2. /\ k = Encoder!Reg(c, r) /\ r \in RegisterNames
      /\ (r = "MR4" => c = "ADV7170") /\ b \in 0 .. 7
  BY DEF Encoder!Reg, RegisterNames
<1>3. Changed(c, t, u, W)
  OBVIOUS
<1> HIDE DEF W, k, b, r
<1>4. Changed(c, t, Encoder!Assign(u, c, r, b, p), W \cup {<<k, b, p>>})
  BY <1>1, <1>2, <1>3, ChangedThen
<1>5. QED BY <1>4 DEF W, k, b, r, PortTriples

LEMMA PixelDataKeeps ==
  ASSUME NEW c \in Adv, NEW t \in [AdvRegisters(c) -> Byte], NEW u, NEW y, NEW i, NEW p,
         Changed(c, t, u, BarTriples(y) \cup ModeTriples(c, i) \cup PortTriples(p)),
         NEW v
  PROVE  Changed(c, t, Adjusted(c, u, v),
                 BarTriples(y) \cup ModeTriples(c, i) \cup PortTriples(p)
                   \cup AdjustTriples(c, v))
<1> DEFINE W == BarTriples(y) \cup ModeTriples(c, i) \cup PortTriples(p)
           k == IF c = "ADV7170" THEN 8 ELSE 12
           r == "TR1"
           x == v % 2
           z == v \div 2
           u1 == Encoder!Assign(u, c, r, 6, x)
           W1 == W \cup {<<k, 6, x>>}
           u2 == Encoder!Assign(u1, c, r, 7, z)
           W2 == W1 \cup {<<k, 7, z>>}
<1>1. \A w \in W : w[1] # k
  BY NotTiming DEF Adv, PortTriples
<1>2. k = Encoder!Reg(c, r) /\ r \in RegisterNames /\ (r = "MR4" => c = "ADV7170")
  BY DEF Adv, Encoder!Reg, RegisterNames
<1>3. 6 \in 0 .. 7 /\ 7 \in 0 .. 7 /\ <<k, 6, x>>[2] # 7
  OBVIOUS
<1>4. Changed(c, t, u, W)
  OBVIOUS
<1>5. CASE v \in 0 .. 3
  <2>1. x \in 0 .. 1 /\ z \in 0 .. 1
    BY <1>5
  <2> HIDE DEF W, k, r, x, z
  <2>2. Changed(c, t, u1, W1)
    BY <1>1, <1>2, <1>3, <1>4, <2>1, ChangedThen
  <2>3. \A w \in W1 : w[1] # k \/ w[2] # 7
    BY <1>1
  <2> HIDE DEF u1, W1
  <2>4. Changed(c, t, u2, W2)
    BY <1>2, <1>3, <2>1, <2>2, <2>3, ChangedThen
  <2>5. Adjusted(c, u, v) = u2
    BY <1>5 DEF Adjusted, u2, u1, r, x, z
  <2>6. W \cup AdjustTriples(c, v) = W2
    BY <1>5 DEF AdjustTriples, W2, W1, k, x, z
  <2> HIDE DEF u2, W2
  <2>7. Changed(c, t, Adjusted(c, u, v), W \cup AdjustTriples(c, v))
    BY <2>4, <2>5, <2>6
  <2>8. QED BY <2>7 DEF W
<1>6. CASE v \notin 0 .. 3
  <2>1. Adjusted(c, u, v) = u /\ W \cup AdjustTriples(c, v) = W
    BY <1>6 DEF Adjusted, AdjustTriples
  <2>2. QED BY <1>4, <2>1
<1>7. QED BY <1>5, <1>6

\* The bits that the parameters pa own in mode m, with the values they have.
Port(pa, m) == IF m # "NTSC" /\ pa.other = 1 THEN 1 - pa.port ELSE pa.port
Adjustment(pa, m) == IF m = "NTSC" THEN pa.ntsc ELSE pa.pal
ParameterBits(c, pa, m) ==
  BarTriples(pa.bars) \cup ModeTriples(c, Encoder!mode_info[pa.out])
    \cup PortTriples(Port(pa, m)) \cup AdjustTriples(c, Adjustment(pa, m))

\* The same bits as Owned names them, without those of the adjustment and those alone.
OwnNames(c, i, bars, p) ==
  LET two == c = "ADV7175A"
  IN  { <<"MR1", 7, bars>>, <<"TR0", 6, p>>,
        <<IF two THEN "MR0" ELSE "MR4", IF two THEN 6 ELSE 0, i[1]>>,
        <<IF two THEN "MR2" ELSE "MR4", IF two THEN 6 ELSE 1, i[2]>>,
        <<"MR3", IF two THEN 7 ELSE 3, i[3]>>,
        <<IF two THEN "MR0" ELSE "MR4", IF two THEN 5 ELSE 2, i[5]>>,
        <<"MR1", 0, i[4]>>, <<"MR1", 6, i[6]>>, <<"MR1", 5, i[7]>>,
        <<"MR1", 3, i[8]>>, <<"MR1", 4, i[9]>> }
AdjustNames(d) ==
  IF d \in 0 .. 3 THEN {<<"TR1", 6, d % 2>>, <<"TR1", 7, d \div 2>>} ELSE {}

\* The two agree.
LEMMA OwnNamesAre ==
  ASSUME NEW c \in Adv, NEW i, NEW bars, NEW p
  PROVE  {<<Encoder!Reg(c, o[1]), o[2], o[3]>> : o \in OwnNames(c, i, bars, p)} =
           BarTriples(bars) \cup ModeTriples(c, i) \cup PortTriples(p)
<1>1. CASE c = "ADV7175A"
  BY <1>1 DEF Encoder!Reg, BarTriples, ModeTriples, PortTriples, OwnNames
<1>2. CASE c = "ADV7170"
  BY <1>2 DEF Encoder!Reg, BarTriples, ModeTriples, PortTriples, OwnNames
<1>3. QED BY <1>1, <1>2 DEF Adv

LEMMA AdjustNamesAre ==
  ASSUME NEW c \in Adv, NEW d
  PROVE  {<<Encoder!Reg(c, o[1]), o[2], o[3]>> : o \in AdjustNames(d)} = AdjustTriples(c, d)
<1> DEFINE x == d % 2
           z == d \div 2
           k == Encoder!Reg(c, "TR1")
           ns == {<<"TR1", 6, x>>, <<"TR1", 7, z>>}
           ts == {<<k, 6, x>>, <<k, 7, z>>}
<1>1. k = IF c = "ADV7170" THEN 8 ELSE 12
  BY DEF Encoder!Reg
<1>2. CASE d \in 0 .. 3
  <2>1. AdjustNames(d) = ns /\ AdjustTriples(c, d) = ts
    BY <1>1, <1>2 DEF AdjustNames, AdjustTriples
  <2> HIDE DEF x, z
  <2>2. {<<Encoder!Reg(c, o[1]), o[2], o[3]>> : o \in ns} = ts
    OBVIOUS
  <2>3. QED BY <2>1, <2>2
<1>3. CASE d \notin 0 .. 3
  BY <1>3 DEF AdjustNames, AdjustTriples
<1>4. QED BY <1>2, <1>3

LEMMA OwnBitsAre ==
  ASSUME NEW c \in Adv, NEW pa, NEW m
  PROVE  {<<Encoder!Reg(c, o[1]), o[2], o[3]>> :
             o \in OwnNames(c, Encoder!mode_info[pa.out], pa.bars, Port(pa, m))
                     \cup AdjustNames(Adjustment(pa, m))} = ParameterBits(c, pa, m)
<1> DEFINE F(o) == <<Encoder!Reg(c, o[1]), o[2], o[3]>>
           A == OwnNames(c, Encoder!mode_info[pa.out], pa.bars, Port(pa, m))
           B == AdjustNames(Adjustment(pa, m))
<1>1. ParameterBits(c, pa, m) = {F(o) : o \in A} \cup {F(o) : o \in B}
  BY OwnNamesAre, AdjustNamesAre DEF ParameterBits
<1> HIDE DEF F, A, B
<1>2. {F(o) : o \in A} \cup {F(o) : o \in B} = {F(o) : o \in A \cup B}
  OBVIOUS
<1>3. QED BY <1>1, <1>2 DEF F, A, B

\* The bits that the parameters own are those of the property.
LEMMA OwnedIs ==
  \A m : Encoder!Owned(m) =
           OwnNames(chip, Encoder!mode_info[param.out], param.bars, Port(param, m))
             \cup AdjustNames(Adjustment(param, m))
BY DEF Encoder!Owned, OwnNames, AdjustNames, Port, Adjustment

\* The tables as the probe leaves them, and as the set-up does.
Probed(c, cf, pa) ==
  \A m \in AdvModes : Changed(c, Encoder!Tables(c)[m], cf[m], BarTriples(pa.bars))
SetUp(c, cf, pa) ==
  \A m \in AdvModes : Changed(c, Encoder!Tables(c)[m], cf[m], ParameterBits(c, pa, m))

\* All converters off, or the whole table of the mode.
Dark(rs) == \A b \in 3 .. 6 : Encoder!Bit(rs[1], b) = 1
Whole(rs, t) == rs = [t EXCEPT ![7] = Encoder!SetReg(@, 7, 0)]

\* What holds of an encoder between two commands: which bits of its tables differ
\* from the source, and what of them the chip shows.
EncoderInv ==
  /\ chip \in Adv \cup {"BT865"}
  /\ chip \in Adv =>
       /\ mode \in AdvModes /\ DOMAIN conf = AdvModes
       /\ param.out = 0 => Probed(chip, conf, param)
       /\ param.out # 0 => SetUp(chip, conf, param)
       /\ IF enable THEN Whole(regs, conf[mode]) \/ param.out = 0 ELSE Dark(regs)
  /\ chip = "BT865" =>
       /\ mode \in Encoder!Modes \ {"PAL60"} /\ conf = Encoder!bt865_tables
       /\ ~enable => (Encoder!Bit(regs[23], 1) = 0 <=> mode = "NTSC")

\* The set-up makes of the tables of a probe those in which every parameter has its bits.
LEMMA SetUpTables ==
  ASSUME NEW c \in Adv, NEW cf, DOMAIN cf = AdvModes, NEW old, Probed(c, cf, old),
         NEW p \in Encoder!Params
  PROVE  LET all == DOMAIN cf
             bars == Encoder!adv717x_set_colorbars(cf, c, all, p.bars)
             outp == Encoder!adv717x_set_outputmode(bars, c, all, p.out)
             port == Encoder!adv717x_set_pixelport(
                       Encoder!adv717x_set_pixelport(outp, c, {"NTSC"}, p.port),
                       c, Encoder!PalModes, IF p.other = 1 THEN 1 - p.port ELSE p.port)
             cf2 == Encoder!adv717x_set_pixeldataadj(
                      Encoder!adv717x_set_pixeldataadj(port, c, {"NTSC"}, p.ntsc),
                      c, Encoder!PalModes, p.pal)
         IN  DOMAIN cf2 = AdvModes /\ SetUp(c, cf2, p)
<1> DEFINE f1 == Encoder!adv717x_set_colorbars(cf, c, DOMAIN cf, p.bars)
           f2 == Encoder!adv717x_set_outputmode(f1, c, DOMAIN cf, p.out)
           f3 == Encoder!adv717x_set_pixelport(f2, c, {"NTSC"}, p.port)
           other == IF p.other = 1 THEN 1 - p.port ELSE p.port
           f4 == Encoder!adv717x_set_pixelport(f3, c, Encoder!PalModes, other)
           f5 == Encoder!adv717x_set_pixeldataadj(f4, c, {"NTSC"}, p.ntsc)
           f6 == Encoder!adv717x_set_pixeldataadj(f5, c, Encoder!PalModes, p.pal)
           i == Encoder!mode_info[p.out]
<1>1. /\ p.bars \in 0 .. 1 /\ p.port \in 0 .. 1 /\ other \in 0 .. 1
      /\ \A n \in 1 .. 9 : i[n] \in 0 .. 1
  <2>1. /\ p.bars \in 0 .. 1 /\ p.port \in 0 .. 1 /\ p.out \in DOMAIN Encoder!mode_info
    BY DEF Encoder!Params
  <2>2. other \in 0 .. 1
    BY <2>1
  <2>3. QED BY ONLY <2>1, <2>2, ModeBits
<1> HIDE DEF i, other
<1>2. /\ DOMAIN f1 = AdvModes /\ DOMAIN f2 = AdvModes /\ DOMAIN f3 = AdvModes
      /\ DOMAIN f4 = AdvModes /\ DOMAIN f5 = AdvModes /\ DOMAIN f6 = AdvModes
  BY DEF Encoder!adv717x_set_colorbars, Encoder!adv717x_set_outputmode,
         Encoder!adv717x_set_pixelport, Encoder!adv717x_set_pixeldataadj, Encoder!InModes
<1>3. ASSUME NEW m \in AdvModes
      PROVE  Changed(c, Encoder!Tables(c)[m], f6[m], ParameterBits(c, p, m))
  <2> DEFINE t == Encoder!Tables(c)[m]
             W1 == BarTriples(p.bars)
             W2 == W1 \cup ModeTriples(c, i)
             W4 == W2 \cup PortTriples(Port(p, m))
  <2>1. t \in [AdvRegisters(c) -> Byte]
    BY TablesOK DEF AdvTables
  <2>2. f1[m] = Encoder!Assign(cf[m], c, "MR1", 7, p.bars)
    BY ColorBars
  <2>3. f2[m] = Outputs(c, f1[m], i)
    BY <1>2, OutputMode DEF i
  <2>4. f4[m] = Encoder!Assign(f2[m], c, "TR0", 6, Port(p, m)) /\ Port(p, m) \in 0 .. 1
    <3>1. f3[m] = IF m = "NTSC" THEN Encoder!Assign(f2[m], c, "TR0", 6, p.port) ELSE f2[m]
      BY <1>2, PixelPort
    <3>2. f4[m] = IF m # "NTSC" THEN Encoder!Assign(f3[m], c, "TR0", 6, other) ELSE f3[m]
      BY <1>2, PixelPort DEF AdvModes, Encoder!PalModes
    <3>3. QED BY <1>1, <3>1, <3>2 DEF Port, other
  <2>5. f6[m] = Adjusted(c, f4[m], Adjustment(p, m))
    <3>1. f5[m] = IF m = "NTSC" THEN Adjusted(c, f4[m], p.ntsc) ELSE f4[m]
      BY <1>2, PixelDataAdj
    <3>2. f6[m] = IF m # "NTSC" THEN Adjusted(c, f5[m], p.pal) ELSE f5[m]
      BY <1>2, PixelDataAdj DEF AdvModes, Encoder!PalModes
    <3>3. QED BY <3>1, <3>2 DEF Adjustment
  <2> HIDE DEF t, f1, f2, f3, f4, f5, f6
  <2>6. Changed(c, t, f1[m], W1)
    <3> DEFINE b == 7
               k == 1
               r == "MR1"
               y == p.bars
    <3>1. k = Encoder!Reg(c, r) /\ r \in RegisterNames /\ (r = "MR4" => c = "ADV7170")
          /\ b \in 0 .. 7 /\ k \in AdvRegisters(c)
      BY DEF Encoder!Reg, RegisterNames, AdvRegisters, Adv
    <3>2. /\ cf[m] \in [AdvRegisters(c) -> Byte]
          /\ Changes(t, cf[m], {<<k, b, old.bars>>})
      BY DEF Probed, Changed, BarTriples, t
    <3>3. f1[m] = Encoder!Assign(cf[m], c, r, b, y) /\ y \in 0 .. 1
      BY <1>1, <2>2
    <3> HIDE DEF b, k, r, y
    <3>4. f1[m] \in [AdvRegisters(c) -> Byte] /\ Changes(cf[m], f1[m], {<<k, b, y>>})
      <4> DEFINE z == cf[m]
                 u == Encoder!Assign(z, c, r, b, y)
      <4>1. z \in [AdvRegisters(c) -> Byte]
        BY ONLY <3>2
      <4>2. r \in RegisterNames /\ (r = "MR4" => c = "ADV7170") /\ b \in 0 .. 7 /\ y \in 0 .. 1
        BY ONLY <3>1, <3>3
      <4> HIDE DEF z
      <4>3. u \in [AdvRegisters(c) -> Byte] /\ Changes(z, u, {<<Encoder!Reg(c, r), b, y>>})
        BY ONLY <4>1, <4>2, c \in Adv, Assigned
      <4>4. QED BY ONLY <3>1, <3>3, <4>3 DEF z
    <3>5. Changes(t, f1[m], {<<k, b, y>>})
      BY <2>1, <3>2, <3>4, ChangesAgain
    <3>6. Changed(c, t, f1[m], {<<k, b, y>>})
      BY <3>1, <3>4, <3>5 DEF Changed
    <3>7. QED BY <3>6 DEF b, k, y, BarTriples
  <2>7. Changed(c, t, f2[m], W2)
    BY ONLY <1>1, <2>1, <2>3, <2>6, c \in Adv, OutputsKeep
  <2>8. Changed(c, t, f4[m], W4)
    <3> DEFINE q == Port(p, m)
               u == f2[m]
    <3> HIDE DEF q, u
    <3>1. q \in 0 .. 1 /\ Changed(c, t, u, BarTriples(p.bars) \cup ModeTriples(c, i))
      BY <2>4, <2>7 DEF q, u
    <3>2. Changed(c, t, Encoder!Assign(u, c, "TR0", 6, q),
                  BarTriples(p.bars) \cup ModeTriples(c, i) \cup PortTriples(q))
      BY ONLY <2>1, <3>1, c \in Adv, PortKeeps
    <3>3. QED BY <2>4, <3>2 DEF q, u
  <2>9. Changed(c, t, f6[m], W4 \cup AdjustTriples(c, Adjustment(p, m)))
    BY ONLY <2>1, <2>5, <2>8, c \in Adv, PixelDataKeeps
  <2>10. QED BY <2>9 DEF ParameterBits, t, i
<1>4. QED BY <1>2, <1>3 DEF SetUp, i, other

\* The colour bars of a probe.
LEMMA ProbedTables ==
  ASSUME NEW c \in Adv, NEW pa, pa.bars \in 0 .. 1
  PROVE  LET cf == Encoder!adv717x_set_colorbars(Encoder!Tables(c), c,
                                                 DOMAIN Encoder!Tables(c), pa.bars)
         IN  DOMAIN cf = AdvModes /\ Probed(c, cf, pa)
<1> DEFINE T == Encoder!Tables(c)
           f == Encoder!adv717x_set_colorbars(T, c, DOMAIN T, pa.bars)
<1>1. T \in AdvTables(c) /\ DOMAIN T = AdvModes
  BY TablesOK DEF AdvTables
<1> HIDE DEF T
<1>2. DOMAIN f = AdvModes
  BY <1>1 DEF Encoder!adv717x_set_colorbars, Encoder!InModes
<1>3. ASSUME NEW m \in AdvModes
      PROVE  Changed(c, T[m], f[m], BarTriples(pa.bars))
  <2> DEFINE b == 7
             k == 1
             r == "MR1"
             y == pa.bars
             z == T[m]
             u == Encoder!Assign(z, c, r, b, y)
  <2>1. k = Encoder!Reg(c, r) /\ k \in AdvRegisters(c)
    BY DEF Encoder!Reg, AdvRegisters, Adv
  <2>2. r \in RegisterNames /\ (r = "MR4" => c = "ADV7170") /\ b \in 0 .. 7 /\ y \in 0 .. 1
    BY DEF RegisterNames
  <2>3. z \in [AdvRegisters(c) -> Byte]
    BY <1>1 DEF AdvTables
  <2>4. f[m] = u
    BY <1>1, ColorBars
  <2> HIDE DEF b, k, r, y, z
  <2>5. u \in [AdvRegisters(c) -> Byte] /\ Changes(z, u, {<<Encoder!Reg(c, r), b, y>>})
    BY ONLY <2>2, <2>3, c \in Adv, Assigned
  <2>6. Changed(c, z, u, {<<k, b, y>>})
    BY <2>1, <2>2, <2>5 DEF Changed
  <2>7. QED BY <2>4, <2>6 DEF z, b, k, y, BarTriples
<1>4. QED BY <1>2, <1>3 DEF Probed, T

\* What a driver writes to the chip while the output is off.
LEMMA AdvDark ==
  ASSUME NEW c \in Adv, NEW cf, NEW m, cf[m] \in [AdvRegisters(c) -> Byte], NEW on, ~on
  PROVE  Dark(Encoder!adv717x_update(cf, m, on))
<1> DEFINE v == cf[m][1]
           a == Encoder!SetReg(v, 3, 1)
           b == Encoder!SetReg(a, 4, 1)
           d == Encoder!SetReg(b, 5, 1)
           e == Encoder!SetReg(d, 6, 1)
           rs == Encoder!adv717x_update(cf, m, on)
<1>1. v \in Byte /\ 1 \in AdvRegisters(c)
  BY DEF Adv, AdvRegisters
<1>2. rs[1] = e
  BY <1>1 DEF Encoder!adv717x_update
<1> HIDE DEF v, rs
<1>3. \A k \in {3, 4, 5, 6} : k \in 0 .. 7
  OBVIOUS
<1> DEFINE x == 1
<1>4. x \in 0 .. 1
  OBVIOUS
<1>5. /\ a \in Byte
      /\ \A k \in 0 .. 7 : Encoder!Bit(a, k) = IF k = 3 THEN 1 ELSE Encoder!Bit(v, k)
  BY <1>1, BitSet
<1> HIDE DEF a
<1>6. /\ b \in Byte
      /\ \A k \in 0 .. 7 : Encoder!Bit(b, k) = IF k = 4 THEN 1 ELSE Encoder!Bit(a, k)
  BY <1>5, BitSet
<1> HIDE DEF b
<1>7. /\ d \in Byte
      /\ \A k \in 0 .. 7 : Encoder!Bit(d, k) = IF k = 5 THEN 1 ELSE Encoder!Bit(b, k)
  BY <1>6, BitSet
<1> HIDE DEF d
<1>8. /\ e \in Byte
      /\ \A k \in 0 .. 7 : Encoder!Bit(e, k) = IF k = 6 THEN 1 ELSE Encoder!Bit(d, k)
  BY <1>7, BitSet
<1> HIDE DEF e
<1>9. \A k \in 3 .. 6 : k \in 0 .. 7 /\ k \in {3, 4, 5, 6}
  OBVIOUS
<1>10. QED BY <1>2, <1>5, <1>6, <1>7, <1>8, <1>9 DEF Dark, rs

\* The bits that a BT865 is given besides do not touch that of the output.
LEMMA Bt865Bit ==
  ASSUME NEW v \in Byte, NEW p, NEW on, ~on
  PROVE  LET Or(w, b, x) == IF x = 1 THEN Encoder!SetReg(w, b, 1) ELSE w
         IN  Encoder!Bit(Or(Or(Or(v, 4, p.bars), 1, IF on THEN 1 ELSE 0), 6, p.rgb), 1)
               = Encoder!Bit(v, 1)
<1> DEFINE a == IF p.bars = 1 THEN Encoder!SetReg(v, 4, 1) ELSE v
           e == IF p.rgb = 1 THEN Encoder!SetReg(a, 6, 1) ELSE a
<1>1. 1 \in 0 .. 7 /\ 4 \in 0 .. 7 /\ 6 \in 0 .. 7 /\ 1 \in 0 .. 1
  OBVIOUS
<1>2. a \in Byte /\ Encoder!Bit(a, 1) = Encoder!Bit(v, 1)
  BY <1>1, BitSet
<1> HIDE DEF a
<1>3. e \in Byte /\ Encoder!Bit(e, 1) = Encoder!Bit(a, 1)
  BY <1>1, <1>2, BitSet
<1>4. QED BY <1>2, <1>3 DEF a

\* With its output off, a BT865 has that bit clear in NTSC alone.
LEMMA Bt865Dark ==
  ASSUME NEW m \in Encoder!Modes \ {"PAL60"}, NEW p, NEW on, ~on
  PROVE  Encoder!Bit(Encoder!bt865_update(Encoder!bt865_tables, m, on, p)[23], 1) = 0
           <=> m = "NTSC"
<1> DEFINE t == Encoder!bt865_tables[m]
           v == t[23]
<1>1. /\ 23 \in DOMAIN t
      /\ v = IF m = "NTSC" THEN 4 ELSE IF m = "NTSC60" THEN 10 ELSE 2
  BY DEF Encoder!bt865_tables, Encoder!Modes, Encoder!NTSC_CONFIG_BT865,
         Encoder!NTSC60_CONFIG_BT865, Encoder!PALM_CONFIG_BT865, Encoder!PALM60_CONFIG_BT865,
         Encoder!PAL_CONFIG_BT865, Encoder!PALNC_CONFIG_BT865, Encoder!Bt865
<1>2. v \in Byte /\ (Encoder!Bit(v, 1) = 0 <=> m = "NTSC")
  BY <1>1, Powers DEF Byte, Encoder!Bit
<1> HIDE DEF t
<1>3. Encoder!Bit(Encoder!bt865_update(Encoder!bt865_tables, m, on, p)[23], 1)
        = Encoder!Bit(v, 1)
  BY <1>1, <1>2, Bt865Bit DEF Encoder!bt865_update, t
<1>4. QED BY <1>2, <1>3

\* The two kinds of drivers.
LEMMA AdvIsNot == \A c \in Adv : c # "BT865"
BY DEF Adv

\* A table that has been assigned to is one of the chip's.
LEMMA TableAt ==
  ASSUME chip \in Adv, EncoderInv, NEW m \in AdvModes
  PROVE  conf[m] \in [AdvRegisters(chip) -> Byte]
BY DEF EncoderInv, Probed, SetUp, Changed

\* What the probes leave.
LEMMA EncoderStarts == Encoder!Init => EncoderInv
<1> SUFFICES ASSUME Encoder!Init PROVE EncoderInv
  OBVIOUS
<1>1. chip \in Adv \cup {"BT865"}
  BY EncoderConstants DEF Encoder!Init, Encoder!EncoderAssumption, Adv
<1>2. param.out = 0 /\ param.bars \in 0 .. 1
  BY DEF Encoder!Init, Encoder!NoParam
<1>3. CASE chip \in Adv
  <2>1. /\ mode = "PAL60" /\ enable
        /\ conf = Encoder!adv717x_set_colorbars(Encoder!Tables(chip), chip,
                                                DOMAIN Encoder!Tables(chip), param.bars)
    BY <1>3, AdvIsNot DEF Encoder!Init, Encoder!NoParam, Encoder!adv717x_probe
  <2>2. DOMAIN conf = AdvModes /\ Probed(chip, conf, param)
    BY ONLY <1>2, <1>3, <2>1, ProbedTables
  <2>3. mode \in AdvModes
    BY <2>1 DEF AdvModes, Encoder!PalModes
  <2>4. QED BY <1>2, <1>3, <2>1, <2>2, <2>3, AdvIsNot DEF EncoderInv
<1>4. CASE chip = "BT865"
  <2>1. /\ mode = "PAL" /\ ~enable /\ conf = Encoder!bt865_tables
        /\ regs = Encoder!bt865_update(conf, mode, enable, param)
    BY <1>4 DEF Encoder!Init, Encoder!bt865_setup, Encoder!Update
  <2>2. mode \in Encoder!Modes \ {"PAL60"}
    BY <2>1 DEF Encoder!Modes
  <2>3. QED BY <1>4, <2>1, <2>2, AdvIsNot, Bt865Dark DEF EncoderInv
<1>5. QED BY <1>1, <1>3, <1>4

\* em8300_adv717x_setup.
LEMMA SetupKeeps ==
  ASSUME EncoderInv, NEW p \in Encoder!Params, Encoder!Setup(p)
  PROVE  EncoderInv'
<1>1. /\ chip # "BT865" /\ param.out = 0 /\ p.out # 0
      /\ ~enable' /\ regs' = Encoder!adv717x_update(conf, mode, FALSE)
      /\ param' = p /\ chip' = chip /\ mode' = mode
  BY DEF Encoder!Setup, Encoder!Update, Encoder!Params
<1>2. /\ chip \in Adv /\ mode \in AdvModes /\ DOMAIN conf = AdvModes
      /\ Probed(chip, conf, param)
  BY <1>1 DEF EncoderInv
<1>3. DOMAIN conf' = AdvModes /\ SetUp(chip, conf', p)
  BY <1>2, SetUpTables DEF Encoder!Setup
<1>4. Dark(regs')
  <2> DEFINE on == FALSE
  <2>1. ~on /\ regs' = Encoder!adv717x_update(conf, mode, on)
    BY <1>1
  <2> HIDE DEF on
  <2>2. QED BY <1>2, <2>1, TableAt, AdvDark
<1>5. QED BY <1>1, <1>2, <1>3, <1>4, AdvIsNot DEF EncoderInv, Dark

\* ENCODER_CMD_SETMODE.
LEMMA SetModeKeeps ==
  ASSUME EncoderInv, NEW m, Encoder!SetMode(m)
  PROVE  EncoderInv'
<1>1. /\ mode' = IF m \in DOMAIN conf THEN m ELSE mode
      /\ regs' = Encoder!Update(conf, mode', enable, param)
      /\ chip' = chip /\ conf' = conf /\ enable' = enable /\ param' = param
  BY DEF Encoder!SetMode
<1>2. CASE chip \in Adv
  <2>1. mode' \in AdvModes /\ regs' = Encoder!adv717x_update(conf, mode', enable)
    BY <1>1, <1>2, AdvIsNot DEF EncoderInv, Encoder!Update
  <2>2. enable => Whole(regs', conf[mode'])
    BY <2>1 DEF Whole, Encoder!adv717x_update
  <2>3. ~enable => Dark(regs')
    BY <1>2, <2>1, TableAt, AdvDark
  <2>4. QED BY <1>1, <1>2, <2>1, <2>2, <2>3, AdvIsNot
        DEF EncoderInv, Whole, Dark
<1>3. CASE chip = "BT865"
  <2>1. regs' = Encoder!bt865_update(conf, mode', enable, param)
    BY <1>1, <1>3 DEF Encoder!Update
  <2>2. mode' \in Encoder!Modes \ {"PAL60"} /\ conf = Encoder!bt865_tables
    BY <1>1, <1>3 DEF EncoderInv, Encoder!bt865_tables
  <2>3. QED BY <1>1, <1>3, <2>1, <2>2, AdvIsNot, Bt865Dark DEF EncoderInv
<1>4. QED BY <1>2, <1>3 DEF EncoderInv

\* ENCODER_CMD_ENABLEOUTPUT.
LEMMA EnableKeeps ==
  ASSUME EncoderInv, NEW on, Encoder!EnableOutput(on)
  PROVE  EncoderInv'
<1>1. /\ enable' = on /\ regs' = Encoder!Update(conf, mode, on, param)
      /\ chip' = chip /\ conf' = conf /\ mode' = mode /\ param' = param
  BY DEF Encoder!EnableOutput
<1>2. CASE chip \in Adv
  <2>1. mode \in AdvModes /\ regs' = Encoder!adv717x_update(conf, mode, on)
    BY <1>1, <1>2, AdvIsNot DEF EncoderInv, Encoder!Update
  <2>2. on => Whole(regs', conf[mode])
    BY <2>1 DEF Whole, Encoder!adv717x_update
  <2>3. ~on => Dark(regs')
    BY <1>2, <2>1, TableAt, AdvDark
  <2>4. QED BY <1>1, <1>2, <2>1, <2>2, <2>3, AdvIsNot
        DEF EncoderInv, Whole, Dark
<1>3. CASE chip = "BT865"
  <2>1. regs' = Encoder!bt865_update(conf, mode, on, param)
    BY <1>1, <1>3 DEF Encoder!Update
  <2>2. mode \in Encoder!Modes \ {"PAL60"} /\ conf = Encoder!bt865_tables
    BY <1>3 DEF EncoderInv
  <2>3. QED BY <1>1, <1>3, <2>1, <2>2, AdvIsNot, Bt865Dark DEF EncoderInv
<1>4. QED BY <1>2, <1>3 DEF EncoderInv

\* Every command keeps the invariant.
LEMMA EncoderStep == EncoderInv /\ Encoder!Next => EncoderInv'
BY SetupKeeps, SetModeKeeps, EnableKeeps DEF Encoder!Next

\* The encoder part of a step of the whole.
LEMMA EncoderPart ==
  part = "encoder" /\ [Next]_vars => [Encoder!Next]_encoderVars /\ part' = part
<1> SUFFICES ASSUME part = "encoder", [Next]_vars
             PROVE  (Encoder!Next \/ UNCHANGED encoderVars) /\ part' = part
  OBVIOUS
<1>1. CASE Next
  BY <1>1 DEF Next
<1>2. CASE UNCHANGED vars
  BY <1>2 DEF vars, encoderVars, shared, encoder
<1>3. QED BY <1>1, <1>2

\* The invariant holds of every state of the encoder.
LEMMA EncoderHolds == Spec => [](part = "encoder" => EncoderInv)
<1>1. Init => (part = "encoder" => EncoderInv)
  BY EncoderStarts DEF Init
<1>2. (part = "encoder" => EncoderInv) /\ [Next]_vars => (part = "encoder" => EncoderInv)'
  <2> SUFFICES ASSUME part = "encoder" => EncoderInv, [Next]_vars, part' = "encoder"
               PROVE  EncoderInv'
    OBVIOUS
  <2>1. part' = part
    BY DEF Next, vars
  <2>2. Encoder!Next \/ UNCHANGED encoderVars
    BY <2>1, EncoderPart
  <2>3. CASE UNCHANGED encoderVars
    BY <2>1, <2>3 DEF encoderVars, EncoderInv, Dark, Whole
  <2>4. QED BY <2>1, <2>2, <2>3, EncoderStep
<1>3. QED BY <1>1, <1>2, PTL DEF Spec

\* Each parameter of an ADV717x reaches its own bits of the tables and no other bit
\* changes, whatever adjustments are asked for.
THEOREM ParametersAreKept == Spec => []ParametersKept
<1>1. (part = "encoder" => EncoderInv) => ParametersKept
  <2> SUFFICES ASSUME EncoderInv, chip # "BT865", param.out > 0,
                      NEW m \in DOMAIN conf, NEW r \in DOMAIN conf[m], NEW b \in 0 .. 7
               PROVE  LET own == {<<Encoder!Reg(chip, o[1]), o[2], o[3]>> :
                                   o \in Encoder!Owned(m)}
                      IN  Encoder!Bit(conf[m][r], b) =
                            IF \E o \in own : o[1] = r /\ o[2] = b
                            THEN (CHOOSE o \in own : o[1] = r /\ o[2] = b)[3]
                            ELSE Encoder!Bit(Encoder!Tables(chip)[m][r], b)
    BY DEF ParametersKept, Encoder!ParametersKept
  <2> DEFINE own == {<<Encoder!Reg(chip, o[1]), o[2], o[3]>> : o \in Encoder!Owned(m)}
             t == Encoder!Tables(chip)[m]
  <2>1. chip \in Adv /\ m \in AdvModes /\ SetUp(chip, conf, param)
    BY DEF EncoderInv
  <2>2. own = ParameterBits(chip, param, m)
    BY ONLY <2>1, OwnedIs, OwnBitsAre
  <2> HIDE DEF own
  <2>3. Changed(chip, t, conf[m], own)
    BY <2>1, <2>2 DEF SetUp
  <2>4. t \in [AdvRegisters(chip) -> Byte]
    BY <2>1, TablesOK DEF AdvTables
  <2> HIDE DEF t
  <2>5. r \in DOMAIN t
    BY <2>3, <2>4 DEF Changed
  <2>6. CASE \E o \in own : o[1] = r /\ o[2] = b
    <3> DEFINE w == CHOOSE o \in own : o[1] = r /\ o[2] = b
    <3>1. w \in own /\ w[1] = r /\ w[2] = b
      BY <2>6
    <3> HIDE DEF w
    <3>2. Encoder!Bit(conf[m][r], b) = w[3]
      BY <2>3, <3>1 DEF Changed, Changes
    <3>3. QED BY <2>6, <3>2 DEF w, own
  <2>7. CASE ~\E o \in own : o[1] = r /\ o[2] = b
    BY <2>3, <2>5, <2>7 DEF Changed, Changes, t, own
  <2>8. QED BY <2>6, <2>7
<1>2. QED BY <1>1, EncoderHolds, PTL

\* Parameters not yet written never show.
THEOREM DarkIsDark == Spec => []DarkOrConfigured
<1>1. (part = "encoder" => EncoderInv) => DarkOrConfigured
  BY AdvIsNot DEF EncoderInv, Dark, Whole, DarkOrConfigured, Encoder!DarkOrConfigured
<1>2. QED BY <1>1, EncoderHolds, PTL

-------------------------------------------------------------------------------
(* The numbers in registers of the card. *)

\* A number less than the square of h is made of two digits to the base h.
LEMMA DigitsAre ==
  \A h \in Nat \ {0}, c \in Nat : c < h * h =>
     c \div h \in 0 .. h - 1 /\ c % h \in 0 .. h - 1 /\ c = (c \div h) * h + (c % h)
<1> SUFFICES ASSUME NEW h \in Nat \ {0}, NEW c \in Nat, c < h * h
             PROVE  /\ c \div h \in 0 .. h - 1 /\ c % h \in 0 .. h - 1
                    /\ c = (c \div h) * h + (c % h)
  OBVIOUS
<1> DEFINE q == c \div h
           r == c % h
<1>1. q \in Int /\ r \in 0 .. h - 1 /\ c = h * q + r
  BY DivMod
<1> HIDE DEF q, r
<1>2. q >= 0
  <2> SUFFICES ASSUME q <= -1 PROVE FALSE
    BY <1>1
  <2>1. h * q <= -h
    BY <1>1
  <2>2. QED BY <1>1, <2>1
<1>3. q <= h - 1
  <2> SUFFICES ASSUME q >= h PROVE FALSE
    BY <1>1
  <2>1. h * q >= h * h
    BY <1>1
  <2>2. QED BY <1>1, <2>1
<1>4. h * q = q * h
  BY <1>1
<1>5. QED BY <1>1, <1>2, <1>3, <1>4 DEF q, r

\* Two digits make a number whose digits they are.
LEMMA DigitsMake ==
  ASSUME NEW h \in Nat \ {0}, NEW q \in 0 .. h - 1, NEW r \in 0 .. h - 1, NEW c, c = q * h + r
  PROVE  c \in Nat /\ c < h * h /\ c \div h = q /\ c % h = r
<1>1. q * h \in Nat /\ q * h <= (h - 1) * h /\ (h - 1) * h = h * h - h /\ h * h \in Nat
  OBVIOUS
<1>2. c \in Nat /\ c < h * h
  BY <1>1
<1>3. c % h = r
  <2>1. c = h * q + r
    OBVIOUS
  <2>2. QED BY <2>1, RestIsRemainder
<1>4. c \div h = q
  <2> DEFINE d == c \div h
             e == c % h
  <2>1. d \in 0 .. h - 1 /\ e \in 0 .. h - 1 /\ c = d * h + e
    BY ONLY <1>2, h \in Nat \ {0}, DigitsAre
  <2>2. e = r
    BY <1>3
  <2> HIDE DEF d, e
  <2>3. (d - q) * h = 0 /\ d - q \in Int
    <3>1. (d - q) * h = d * h - q * h
      BY <2>1
    <3>2. QED BY <1>1, <2>1, <2>2, <3>1
  <2>4. d = q
    <3>1. \A k \in Int : k >= 1 => k * h >= h
      OBVIOUS
    <3>2. \A k \in Int : k <= -1 => k * h <= -h
      OBVIOUS
    <3>3. QED BY <2>1, <2>3, <3>1, <3>2
  <2>5. QED BY <2>4 DEF d
<1>5. QED BY <1>2, <1>3, <1>4

\* The same, for any digits.
LEMMA DigitsMade ==
  \A h \in Nat \ {0} : \A q \in 0 .. h - 1, r \in 0 .. h - 1 :
     /\ q * h + r \in Nat /\ q * h + r < h * h
     /\ (q * h + r) \div h = q /\ (q * h + r) % h = r
BY DigitsMake

\* One more, if the lower digit is not the last.
LEMMA NoCarry ==
  ASSUME NEW h \in Nat \ {0}, NEW c \in Nat, c < h * h, c % h # h - 1
  PROVE  /\ (c + 1) % (h * h) = c + 1 /\ c + 1 < h * h
         /\ (c + 1) % h = (c % h) + 1
<1> DEFINE q == c \div h
           r == c % h
           n == h * h
<1>1. q \in 0 .. h - 1 /\ r \in 0 .. h - 1 /\ c = q * h + r
  BY ONLY h \in Nat \ {0}, c \in Nat, c < h * h, DigitsAre
<1>2. r # h - 1
  OBVIOUS
<1> HIDE DEF q, r
<1>3. r + 1 \in 0 .. h - 1 /\ c + 1 = q * h + (r + 1)
  BY <1>1, <1>2
<1>4. c + 1 \in Nat /\ c + 1 < n /\ (c + 1) % h = r + 1
  <2>1. q * h + (r + 1) \in Nat /\ q * h + (r + 1) < h * h /\ (q * h + (r + 1)) % h = r + 1
    BY ONLY <1>1, <1>3, h \in Nat \ {0}, DigitsMade
  <2>2. QED BY <1>3, <2>1
<1>5. (c + 1) % n = c + 1
  <2>1. n \in Nat \ {0} /\ c \in 0 .. n - 1
    BY <1>4
  <2> HIDE DEF n
  <2>2. QED BY <1>4, <2>1, NextPlace
<1>6. QED BY <1>4, <1>5 DEF n, r

\* The distance of two values of a clock that wraps at n.
Apart(n, a, b) == IF (a - b) % n <= (b - a) % n THEN (a - b) % n ELSE (b - a) % n

\* Of two values, the distance is the shorter way round.
LEMMA ApartIs ==
  ASSUME NEW n \in Nat \ {0}, NEW a \in 0 .. n - 1, NEW b \in 0 .. n - 1
  PROVE  LET d == IF a >= b THEN a - b ELSE b - a
         IN  Apart(n, a, b) = IF n - d < d THEN n - d ELSE d
<1>1. (a - b) % n = IF a >= b THEN a - b ELSE a - b + n
  BY RemainderOfDifference
<1>2. (b - a) % n = IF b >= a THEN b - a ELSE b - a + n
  BY RemainderOfDifference
<1>3. QED BY <1>1, <1>2 DEF Apart

\* It is a distance, which a tick changes by one at most, and both ioctls find it no
\* longer than it is.
LEMMA ApartBounds ==
  ASSUME NEW n \in Nat \ {0}, NEW a \in 0 .. n - 1, NEW b \in 0 .. n - 1, NEW c \in 0 .. n - 1
  PROVE  /\ Apart(n, a, b) \in Nat
         /\ Apart(n, a, c) <= Apart(n, a, b) + Apart(n, b, c)
         /\ Apart(n, (a + 1) % n, b) <= Apart(n, a, b) + 1 /\ (a + 1) % n \in 0 .. n - 1
         /\ Apart(n, a, b) <= (IF a > b THEN a - b ELSE b - a)
         /\ Apart(n, a, b) <= (a - b) % n
<1> DEFINE D(x, y) == IF x >= y THEN x - y ELSE y - x
           M(d) == IF n - d < d THEN n - d ELSE d
           t == (a + 1) % n
<1>1. t = (IF a + 1 = n THEN 0 ELSE a + 1) /\ t \in 0 .. n - 1
  BY NextPlace
<1> HIDE DEF t
<1>2. \A x \in 0 .. n - 1, y \in 0 .. n - 1 : Apart(n, x, y) = M(D(x, y))
  BY ApartIs
<1>3. Apart(n, a, b) \in Nat /\ Apart(n, a, b) <= (IF a > b THEN a - b ELSE b - a)
  BY <1>2
<1>4. Apart(n, a, c) <= Apart(n, a, b) + Apart(n, b, c)
  <2>1. M(D(a, c)) <= M(D(a, b)) + M(D(b, c))
    OBVIOUS
  <2>2. QED BY <1>2, <2>1
<1>5. Apart(n, t, b) <= Apart(n, a, b) + 1
  <2>1. M(D(t, b)) <= M(D(a, b)) + 1
    BY <1>1
  <2>2. QED BY <1>1, <1>2, <2>1
<1>6. Apart(n, a, b) <= (a - b) % n
  <2>1. (a - b) % n \in Int /\ (b - a) % n \in Int
    OBVIOUS
  <2>2. QED BY <2>1 DEF Apart
<1>7. QED BY <1>1, <1>3, <1>4, <1>5, <1>6 DEF t

\* The variables of the clock and of the computations.
arithVars == <<clock, call, torn, shown, ops>>

\* The ioctl on the clock.
Calling == [at : {"none", "lo", "hi", "test", "write lo", "write hi"},
            what : {"none", "SCR_GET", "VIDEO_SETSCR"},
            val : Arith!Clocks, lo : 0 .. HalfClock - 1, read : Arith!Clocks, late : Nat]

\* How far the clock has run, as long as no carry falls between its halves: since the
\* lower half was read, since both were, and since the lower half was written.
Elapsed ==
  /\ call.at = "hi" => /\ call.lo <= clock % HalfClock
                       /\ (clock % HalfClock) - call.lo <= call.late
  /\ call.at = "test" => Apart(Arith!Modulus, clock, call.read) <= call.late
  /\ call.at = "write hi" => /\ call.val % HalfClock <= clock % HalfClock
                             /\ (clock % HalfClock) - (call.val % HalfClock) <= call.late

ClockInv ==
  /\ clock \in Arith!Clocks /\ call \in Calling /\ torn \in BOOLEAN /\ ops \in Nat
  /\ call.at # "none" => call.what # "none" /\ shown.what = "none"
  /\ ops = 0 => call.at = "none"
  /\ ~torn => Elapsed
  /\ Arith!ClockClose

\* The clock counts two digits to the base of its half, and what is assumed of it.
LEMMA HalfClockIs ==
  /\ HalfClock \in Nat \ {0} /\ HalfClock % 2 = 0
  /\ Tolerance \in [{"SCR_GET", "VIDEO_SETSCR"} -> Nat]
  /\ Arith!Modulus = HalfClock * HalfClock /\ Arith!Modulus \in Nat \ {0}
  /\ \A c : c \in Arith!Clocks <=> c \in Nat /\ c < HalfClock * HalfClock
  /\ Arith!Clocks = 0 .. Arith!Modulus - 1 /\ 0 \in Arith!Clocks
<1>1. /\ HalfClock \in Nat \ {0} /\ HalfClock % 2 = 0
      /\ Tolerance \in [{"SCR_GET", "VIDEO_SETSCR"} -> Nat]
  BY ArithConstants DEF ArithConstants, Arith!ArithAssumption
<1>2. HalfClock * HalfClock \in Nat \ {0}
  BY <1>1
<1>3. Arith!Modulus = HalfClock * HalfClock
  BY DEF Arith!Modulus
<1>4. Arith!Clocks = 0 .. Arith!Modulus - 1
  BY DEF Arith!Clocks
<1> DEFINE m == HalfClock * HalfClock
<1> HIDE DEF m
<1>5. /\ \A c : c \in 0 .. m - 1 <=> c \in Nat /\ c < m
      /\ 0 \in 0 .. m - 1
  BY <1>2 DEF m
<1>6. QED BY <1>1, <1>2, <1>3, <1>4, <1>5 DEF m

\* The clock runs on.
LEMMA TickKeeps ==
  ASSUME ClockInv, Arith!Tick
  PROVE  ClockInv'
<1> DEFINE h == HalfClock
           n == Arith!Modulus
<1>1. /\ call.at # "none" /\ ops' = ops + 1 /\ clock' = (clock + 1) % n
      /\ torn' = (torn \/ (call.at \in {"hi", "write hi"} /\ clock % h = h - 1))
      /\ call' = [call EXCEPT !.late = @ + 1] /\ shown' = shown
  BY DEF Arith!Tick, Arith!Bounded
<1>2. /\ h \in Nat \ {0} /\ n = h * h /\ n \in Nat \ {0}
      /\ \A c : c \in Arith!Clocks <=> c \in Nat /\ c < h * h
      /\ Arith!Clocks = 0 .. n - 1
  BY HalfClockIs
<1>3. clock \in Nat /\ clock < h * h /\ clock \in 0 .. n - 1
  BY <1>2 DEF ClockInv
<1>4. call.read \in 0 .. n - 1 /\ call.late \in Nat /\ call \in Calling
  BY <1>2 DEF ClockInv, Calling
<1> HIDE DEF h, n
<1>5. clock' \in Arith!Clocks
  <2>1. (clock + 1) % n \in 0 .. n - 1
    BY ONLY <1>2, <1>3, NextPlace
  <2>2. QED BY ONLY <1>1, <1>2, <2>1
<1>6. /\ call' \in Calling /\ call'.at = call.at /\ call'.what = call.what
      /\ call'.late = call.late + 1 /\ call'.read = call.read /\ call'.lo = call.lo
      /\ call'.val = call.val
  <2>1. /\ call.at \in {"none", "lo", "hi", "test", "write lo", "write hi"}
        /\ call.what \in {"none", "SCR_GET", "VIDEO_SETSCR"}
        /\ call.val \in Arith!Clocks /\ call.lo \in 0 .. HalfClock - 1
        /\ call.read \in Arith!Clocks
        /\ call = [at |-> call.at, what |-> call.what, val |-> call.val, lo |-> call.lo,
                   read |-> call.read, late |-> call.late]
    BY ONLY <1>4 DEF Calling
  <2> DEFINE l == call.late + 1
  <2>2. l \in Nat
    BY ONLY <1>4
  <2> HIDE DEF l
  <2>3. call' = [at |-> call.at, what |-> call.what, val |-> call.val, lo |-> call.lo,
                 read |-> call.read, late |-> l]
    BY ONLY <1>1, <2>1 DEF l
  <2>4. call' \in Calling
    BY ONLY <2>1, <2>2, <2>3 DEF Calling
  <2>5. QED BY ONLY <2>3, <2>4 DEF l
<1>7. ASSUME ~torn' PROVE Elapsed'
  <2>1. ~torn /\ Elapsed /\ (call.at \in {"hi", "write hi"} => clock % h # h - 1)
    BY <1>1, <1>7 DEF ClockInv
  <2>2. call.at \in {"hi", "write hi"} => clock' = clock + 1 /\ clock' % h = (clock % h) + 1
    BY <1>1, <1>2, <1>3, <2>1, NoCarry
  <2>3. clock % h \in Nat /\ call.lo \in Nat /\ call.val % h \in Nat
    <3>1. call.val \in Arith!Clocks /\ call.lo \in Nat
      <4>1. HalfClock \in Nat \ {0}
        BY HalfClockIs
      <4>2. call.val \in Arith!Clocks /\ call.lo \in 0 .. HalfClock - 1
        BY ONLY <1>4, Zenon DEF Calling
      <4>3. QED BY ONLY <4>1, <4>2
    <3>2. call.val \in Nat
      BY ONLY <1>2, <3>1
    <3>3. QED BY ONLY <1>2, <1>3, <3>1, <3>2
  <2>4. Apart(n, clock', call.read) <= Apart(n, clock, call.read) + 1
        /\ Apart(n, clock, call.read) \in Nat
    BY <1>1, <1>2, <1>3, <1>4, ApartBounds
  <2>5. call.at = "test" => Apart(n, clock', call'.read) <= call'.late
    <3>1. CASE call.at = "test"
      <4>1. Apart(n, clock, call.read) <= call.late
        BY <2>1, <3>1 DEF Elapsed, n
      <4>2. n \in Nat \ {0} /\ clock' \in 0 .. n - 1
        BY <1>2, <1>5
      <4>3. Apart(n, clock', call.read) \in Nat
        BY <1>4, <4>2, ApartBounds
      <4>4. QED BY ONLY <1>4, <1>6, <2>4, <4>1, <4>3
    <3>2. QED BY <3>1
  <2>6. call.at = "hi" => call'.lo <= clock' % h /\ (clock' % h) - call'.lo <= call'.late
    <3>1. call.at = "hi" => call.lo <= clock % h /\ (clock % h) - call.lo <= call.late
      BY <2>1 DEF Elapsed, h
    <3>2. QED BY ONLY <1>4, <1>6, <2>2, <2>3, <3>1
  <2>7. call.at = "write hi" => /\ call'.val % h <= clock' % h
                                /\ (clock' % h) - (call'.val % h) <= call'.late
    <3>1. call.at = "write hi" => /\ call.val % h <= clock % h
                                  /\ (clock % h) - (call.val % h) <= call.late
      BY <2>1 DEF Elapsed, h
    <3> DEFINE v == call.val % h
               c == clock % h
               d == clock' % h
    <3>2. v \in Nat /\ c \in Nat /\ call'.val % h = v
      BY ONLY <1>6, <2>3
    <3>3. CASE call.at = "write hi"
      <4>1. v <= c /\ c - v <= call.late /\ d = c + 1
        BY ONLY <2>2, <3>1, <3>3
      <4> HIDE DEF v, c, d
      <4> DEFINE l == call.late
      <4>2. l \in Nat /\ v <= c /\ c - v <= l /\ d = c + 1 /\ v \in Nat /\ c \in Nat
        BY ONLY <1>4, <3>2, <4>1
      <4> HIDE DEF l
      <4>3. v <= d /\ d - v <= l + 1
        BY ONLY <4>2
      <4>4. QED BY ONLY <1>6, <3>2, <4>3 DEF l, d
    <3>4. QED BY <3>3
  <2>8. QED BY <1>6, <2>5, <2>6, <2>7 DEF Elapsed, h, n
<1>8. Arith!ClockClose' /\ shown'.what = "none"
  BY <1>1 DEF ClockInv, Arith!ClockClose
<1>9. ops' \in Nat /\ ops' # 0
  <2>1. ops \in Nat
    BY DEF ClockInv
  <2>2. ops' = ops + 1
    BY ONLY <1>1, Zenon
  <2>3. QED BY ONLY <2>1, <2>2
<1>10. torn' \in BOOLEAN
  BY ONLY <1>1, Zenon
<1>11. call'.at # "none" => call'.what # "none"
  BY <1>6 DEF ClockInv
<1>12. QED BY <1>5, <1>6, <1>7, <1>8, <1>9, <1>10, <1>11 DEF ClockInv

\* A call.
LEMMA AskKeeps ==
  ASSUME ClockInv, NEW what \in DOMAIN Tolerance, NEW v \in Arith!Clocks, Arith!Ask(what, v)
  PROVE  ClockInv'
<1> DEFINE x == IF what = "VIDEO_SETSCR" THEN v \div 2 ELSE v
<1>1. /\ call' = [at |-> "lo", what |-> what, lo |-> 0, read |-> 0, late |-> 0, val |-> x]
      /\ shown' = [what |-> "none"] /\ torn' = FALSE /\ clock' = clock /\ ops' = ops + 1
  BY DEF Arith!Ask, Arith!Bounded
<1>2. what \in {"SCR_GET", "VIDEO_SETSCR"} /\ 0 \in 0 .. HalfClock - 1 /\ 0 \in Arith!Clocks
  BY HalfClockIs
<1>3. x \in Arith!Clocks
  <2>1. v \in Nat /\ v < HalfClock * HalfClock /\ HalfClock * HalfClock \in Nat
    BY HalfClockIs
  <2> DEFINE m == HalfClock * HalfClock
  <2> HIDE DEF m
  <2>2. x \in Nat /\ x < m
    BY <2>1 DEF m
  <2> HIDE DEF x
  <2>3. QED BY <2>2, HalfClockIs DEF m
<1> HIDE DEF x
<1>4. call' \in Calling /\ call'.at = "lo" /\ call'.what # "none"
  BY <1>1, <1>2, <1>3 DEF Calling
<1>5. Arith!ClockClose' /\ shown'.what = "none" /\ Elapsed'
  BY <1>1, <1>4 DEF Arith!ClockClose, Elapsed
<1>6. ops' \in Nat /\ ops' # 0
  <2>1. ops \in Nat
    BY DEF ClockInv
  <2>2. QED BY ONLY <1>1, <2>1
<1>8. clock' \in Arith!Clocks /\ torn' \in BOOLEAN
  BY <1>1 DEF ClockInv
<1>7. QED BY <1>4, <1>5, <1>6, <1>8 DEF ClockInv

\* Steps of a call that neither end it nor move the clock.
LEMMA ReadsKeep ==
  ASSUME ClockInv, Arith!ReadLo \/ Arith!ReadHi
  PROVE  ClockInv'
<1> DEFINE h == HalfClock
           n == Arith!Modulus
           q == clock \div h
           r == clock % h
<1>1. /\ h \in Nat \ {0} /\ n = h * h /\ n \in Nat \ {0}
      /\ \A c : c \in Arith!Clocks <=> c \in Nat /\ c < h * h
      /\ Arith!Clocks = 0 .. n - 1
  BY HalfClockIs
<1>2. clock \in Nat /\ clock < h * h /\ clock \in 0 .. n - 1
  BY <1>1 DEF ClockInv
<1>3. q \in 0 .. h - 1 /\ r \in 0 .. h - 1 /\ clock = q * h + r
  BY ONLY <1>1, <1>2, DigitsAre
<1>4. call \in Calling /\ call.late \in Nat /\ call.lo \in 0 .. h - 1
  BY DEF ClockInv, Calling
<1>5. ASSUME Arith!ReadLo PROVE ClockInv'
  <2>1. /\ call.at = "lo" /\ call' = [call EXCEPT !.at = "hi", !.lo = r]
        /\ clock' = clock /\ torn' = torn /\ shown' = shown /\ ops' = ops
    BY <1>5 DEF Arith!ReadLo
  <2> HIDE DEF h, n, q, r
  <2>2. /\ call' \in Calling /\ call'.at = "hi" /\ call'.lo = r /\ call'.late = call.late
        /\ call'.what = call.what
    BY <1>3, <1>4, <2>1 DEF Calling, h
  <2>3. r \in Int /\ r - r = 0 /\ clock' % h = r
    BY <1>3, <2>1 DEF r
  <2>4. Elapsed'
    BY <1>4, <2>2, <2>3 DEF Elapsed, h
  <2>5. QED BY <2>1, <2>2, <2>4 DEF ClockInv, Arith!ClockClose
<1>6. ASSUME Arith!ReadHi PROVE ClockInv'
  <2> DEFINE x == q * h + call.lo
  <2>1. /\ call.at = "hi" /\ call' = [call EXCEPT !.at = "test", !.read = x]
        /\ clock' = clock /\ torn' = torn /\ shown' = shown /\ ops' = ops
    BY <1>6 DEF Arith!ReadHi
  <2> DEFINE lo == call.lo
  <2>2. lo \in 0 .. h - 1
    BY <1>4
  <2> HIDE DEF h, n, q, r, lo
  <2>3. q * h + lo \in Nat /\ q * h + lo < h * h
    BY ONLY <1>1, <1>3, <2>2, DigitsMade
  <2>4. x \in Nat /\ x \in Arith!Clocks /\ x \in 0 .. n - 1
    BY ONLY <1>1, <2>3 DEF lo
  <2>5. q * h \in Int /\ clock - x = r - lo
    BY <1>1, <1>3, <2>2 DEF lo
  <2> HIDE DEF x
  <2>6. /\ call' \in Calling /\ call'.at = "test" /\ call'.read = x
        /\ call'.late = call.late /\ call'.what = call.what
    BY <1>4, <2>1, <2>4 DEF Calling
  <2>7. ASSUME ~torn PROVE Elapsed'
    <3>1. lo <= r /\ r - lo <= call.late
      BY <2>1, <2>7 DEF ClockInv, Elapsed, h, r, lo
    <3>2. clock >= x /\ clock - x <= call.late
      BY <1>2, <1>3, <2>2, <2>4, <2>5, <3>1
    <3>3. Apart(n, clock, x) <= (IF clock > x THEN clock - x ELSE x - clock)
          /\ Apart(n, clock, x) \in Nat
      BY ONLY <1>1, <1>2, <2>4, ApartBounds
    <3>4. Apart(n, clock, x) <= call.late
      BY <1>2, <1>4, <2>4, <3>2, <3>3
    <3>5. QED BY <2>1, <2>6, <3>4 DEF Elapsed, n
  <2>8. QED BY <2>1, <2>6, <2>7 DEF ClockInv, Arith!ClockClose
<1>7. QED BY <1>5, <1>6

\* Between calls.
LEMMA NoneCalling == Arith!None \in Calling /\ Arith!None.at = "none"
<1>1. HalfClock \in Nat \ {0} /\ 0 \in Arith!Clocks
  BY HalfClockIs
<1>2. 0 \in 0 .. HalfClock - 1 /\ 0 \in Nat
  BY ONLY <1>1
<1>3. QED BY <1>1, <1>2 DEF Calling, Arith!None

\* The clock is found near enough, or will be written.
LEMMA TestKeeps ==
  ASSUME ClockInv, Arith!Test
  PROVE  ClockInv'
<1> DEFINE n == Arith!Modulus
           v == call.val
           s == call.read
           tol == Tolerance[call.what]
           off == Arith!Off(call.what, s, v)
<1>1. /\ call.at = "test" /\ clock' = clock /\ torn' = torn /\ ops' = ops
      /\ IF off > tol
         THEN call' = [call EXCEPT !.at = "write lo"] /\ shown' = shown
         ELSE /\ call' = Arith!None
              /\ shown' = [what |-> "clock", ioctl |-> call.what, set |-> FALSE,
                           val |-> v, late |-> call.late, torn |-> torn]
  BY DEF Arith!Test
<1>2. n \in Nat \ {0} /\ Arith!Clocks = 0 .. n - 1
      /\ Tolerance \in [{"SCR_GET", "VIDEO_SETSCR"} -> Nat]
  BY HalfClockIs
<1>3. /\ call \in Calling /\ clock \in Arith!Clocks
      /\ call.what \in {"SCR_GET", "VIDEO_SETSCR"} /\ v \in Arith!Clocks /\ s \in Arith!Clocks
      /\ call.late \in Nat
  BY <1>1 DEF ClockInv, Calling
<1>4. tol \in Nat
  BY ONLY <1>2, <1>3
<1>5. /\ clock' \in Arith!Clocks /\ ops' \in Nat /\ ops' # 0
  BY <1>1 DEF ClockInv
<1>6. torn' \in BOOLEAN
  BY <1>1 DEF ClockInv
<1>7. CASE off > tol
  <2>1. call' = [call EXCEPT !.at = "write lo"] /\ shown' = shown
    BY <1>1, <1>7
  <2>2. call' \in Calling /\ call'.at = "write lo" /\ call'.what = call.what
    BY ONLY <1>3, <2>1 DEF Calling
  <2>3. Elapsed'
    BY <2>2 DEF Elapsed
  <2>4. shown'.what = "none" /\ Arith!ClockClose'
    BY <1>1, <2>1 DEF ClockInv, Arith!ClockClose
  <2>5. call'.what # "none"
    BY <1>3, <2>2
  <2>6. QED BY <1>5, <1>6, <2>2, <2>3, <2>4, <2>5 DEF ClockInv
<1>8. CASE ~(off > tol)
  <2>1. /\ call' = Arith!None
        /\ shown' = [what |-> "clock", ioctl |-> call.what, set |-> FALSE,
                     val |-> v, late |-> call.late, torn |-> torn]
    BY <1>1, <1>8
  <2>2. call' \in Calling /\ call'.at = "none"
    BY <2>1, NoneCalling
  <2>3. Elapsed'
    BY <2>2 DEF Elapsed
  <2>4. ASSUME ~torn PROVE Apart(n, clock, v) <= tol + call.late
    <3>1. Apart(n, clock, s) <= call.late
      BY <1>1, <2>4 DEF ClockInv, Elapsed
    <3>2. off = IF call.what = "SCR_GET" THEN IF s > v THEN s - v ELSE v - s
                ELSE (s - v) % n
      BY DEF Arith!Off
    <3> HIDE DEF n, s, v, tol, off
    <3>3. /\ Apart(n, s, v) <= (IF s > v THEN s - v ELSE v - s)
          /\ Apart(n, s, v) <= (s - v) % n
      BY ONLY <1>2, <1>3, ApartBounds
    <3>4. Apart(n, clock, s) \in Nat /\ Apart(n, s, v) \in Nat /\ Apart(n, clock, v) \in Nat
      BY ONLY <1>2, <1>3, ApartBounds
    <3>5. Apart(n, clock, v) <= Apart(n, clock, s) + Apart(n, s, v)
      BY ONLY <1>2, <1>3, ApartBounds
    <3>6. s \in Nat /\ v \in Nat /\ (s - v) % n \in Nat
      BY ONLY <1>2, <1>3
    <3>7. Apart(n, s, v) <= off /\ off \in Nat
      BY ONLY <3>2, <3>3, <3>6
    <3>8. off <= tol
      BY ONLY <1>4, <1>8, <3>7
    <3>9. QED BY ONLY <1>3, <1>4, <3>1, <3>4, <3>5, <3>7, <3>8
  <2>5. Arith!ClockClose'
    <3>1. Arith!Distance(clock, v) = Apart(n, clock, v)
      BY DEF Arith!Distance, Apart
    <3> HIDE DEF n
    <3>2. /\ shown'.torn = torn /\ shown'.val = v /\ shown'.late = call.late
          /\ shown'.ioctl = call.what
      BY ONLY <2>1, Zenon
    <3>3. ~shown'.torn => Arith!Distance(clock, v) <= tol + call.late
      BY ONLY <2>4, <3>1, <3>2
    <3>4. ~shown'.torn
          => Arith!Distance(clock', shown'.val) <= Tolerance[shown'.ioctl] + shown'.late
      BY <1>1, <3>2, <3>3
    <3>5. QED BY <3>4 DEF Arith!ClockClose, Arith!Distance, Arith!Modulus
  <2>6. QED BY <1>5, <1>6, <2>2, <2>3, <2>5 DEF ClockInv
<1>9. QED BY <1>7, <1>8

\* The clock is written, half by half.
LEMMA WritesKeep ==
  ASSUME ClockInv, Arith!WriteLo \/ Arith!WriteHi
  PROVE  ClockInv'
<1> DEFINE h == HalfClock
           n == Arith!Modulus
           q == clock \div h
           r == clock % h
           v == call.val
           p == v \div h
           e == v % h
<1>1. /\ h \in Nat \ {0} /\ n = h * h /\ n \in Nat \ {0}
      /\ \A c : c \in Arith!Clocks <=> c \in Nat /\ c < h * h
      /\ Arith!Clocks = 0 .. n - 1
      /\ Tolerance \in [{"SCR_GET", "VIDEO_SETSCR"} -> Nat]
  BY HalfClockIs
<1>2. /\ clock \in Arith!Clocks /\ v \in Arith!Clocks /\ call \in Calling /\ call.late \in Nat
  BY DEF ClockInv, Calling
<1>3. clock \in Nat /\ clock < h * h /\ v \in Nat /\ v < h * h
  BY ONLY <1>1, <1>2
<1>4. /\ q \in 0 .. h - 1 /\ r \in 0 .. h - 1 /\ clock = q * h + r
      /\ p \in 0 .. h - 1 /\ e \in 0 .. h - 1 /\ v = p * h + e
  BY ONLY <1>1, <1>3, DigitsAre
<1>5. torn' = torn /\ ops' = ops
  BY DEF Arith!WriteLo, Arith!WriteHi
<1>6. ops' \in Nat
  BY <1>5 DEF ClockInv
<1>7. torn' \in BOOLEAN
  BY <1>5 DEF ClockInv
<1>8. ASSUME Arith!WriteLo PROVE ClockInv'
  <2>1. /\ call.at = "write lo" /\ clock' = q * h + e
        /\ call' = [call EXCEPT !.at = "write hi"] /\ shown' = shown
    BY <1>8 DEF Arith!WriteLo
  <2> HIDE DEF h, n, q, r, p, e
  <2>2. clock' \in Arith!Clocks /\ clock' % h = e
    <3>1. q * h + e \in Nat /\ q * h + e < h * h /\ (q * h + e) % h = e
      BY ONLY <1>1, <1>4, DigitsMade
    <3>2. QED BY ONLY <1>1, <2>1, <3>1
  <2>3. /\ call' \in Calling /\ call'.at = "write hi" /\ call'.what = call.what
        /\ call'.val = call.val /\ call'.late = call.late
    BY ONLY <1>2, <2>1 DEF Calling
  <2>4. call.at # "none" /\ ops # 0 /\ call.what # "none" /\ shown.what = "none"
    BY <2>1 DEF ClockInv
  <2>5. call'.val % h = e
    BY ONLY <2>3 DEF e
  <2>6. e <= e /\ e - e <= call'.late
    <3>1. e \in Nat
      BY ONLY <1>1, <1>4
    <3>2. e <= e /\ e - e = 0
      BY ONLY <3>1
    <3>3. call'.late \in Nat
      BY ONLY <1>2, <2>3
    <3>4. QED BY ONLY <3>2, <3>3
  <2>7. Elapsed'
    BY <2>2, <2>3, <2>5, <2>6 DEF Elapsed, h
  <2>8. Arith!ClockClose'
    BY <2>1, <2>4 DEF Arith!ClockClose
  <2>9. QED BY <1>5, <1>6, <1>7, <2>1, <2>2, <2>3, <2>4, <2>7, <2>8 DEF ClockInv
<1>9. ASSUME Arith!WriteHi PROVE ClockInv'
  <2> DEFINE tol == Tolerance[call.what]
  <2>1. /\ call.at = "write hi" /\ clock' = p * h + r /\ call' = Arith!None
        /\ shown' = [what |-> "clock", ioctl |-> call.what, set |-> TRUE,
                     val |-> v, late |-> call.late, torn |-> torn]
    BY <1>9 DEF Arith!WriteHi
  <2>2. /\ call.what \in {"SCR_GET", "VIDEO_SETSCR"} /\ ops # 0
    BY <2>1 DEF ClockInv, Calling
  <2>3. tol \in Nat
    BY ONLY <1>1, <2>2
  <2>4. ~torn => e <= r /\ r - e <= call.late
    BY <2>1 DEF ClockInv, Elapsed
  <2> HIDE DEF h, n, q, r, p, e, tol, v
  <2>5. clock' \in Arith!Clocks
    <3>1. p * h + r \in Nat /\ p * h + r < h * h
      BY ONLY <1>1, <1>4, DigitsMade
    <3>2. QED BY ONLY <1>1, <2>1, <3>1
  <2>6. call' \in Calling /\ call'.at = "none"
    BY <2>1, NoneCalling
  <2>7. Elapsed'
    BY <2>6 DEF Elapsed
  <2>8. ASSUME ~torn PROVE Apart(n, clock', v) <= tol + call.late
    <3> DEFINE w == p * h
    <3>1. w \in Int
      BY ONLY <1>1, <1>4
    <3>2. clock' = w + r /\ v = w + e
      BY ONLY <1>4, <2>1
    <3> HIDE DEF w
    <3>3. r \in Nat /\ e \in Nat
      BY ONLY <1>1, <1>4
    <3>4. clock' >= v /\ clock' - v <= call.late
      BY ONLY <1>2, <2>4, <2>8, <3>1, <3>2, <3>3
    <3>5. clock' \in 0 .. n - 1 /\ v \in 0 .. n - 1
      BY ONLY <1>1, <1>2, <2>5
    <3> DEFINE c == clock'
    <3>6. c \in 0 .. n - 1
      BY <3>5
    <3> HIDE DEF c
    <3>7. Apart(n, c, v) <= (IF c > v THEN c - v ELSE v - c) /\ Apart(n, c, v) \in Nat
      BY ONLY <1>1, <3>5, <3>6, ApartBounds
    <3>8. c >= v /\ c - v <= call.late
      BY <3>4 DEF c
    <3>9. Apart(n, c, v) <= tol + call.late
      BY ONLY <1>1, <1>2, <2>3, <3>5, <3>6, <3>7, <3>8
    <3>10. QED BY <3>9 DEF c
  <2>9. Arith!ClockClose'
    <3>1. Arith!Distance(clock', v) = Apart(n, clock', v)
      BY DEF Arith!Distance, Apart, n
    <3>2. /\ shown'.torn = torn /\ shown'.val = v /\ shown'.late = call.late
          /\ shown'.ioctl = call.what
      BY ONLY <2>1, Zenon
    <3>3. ~shown'.torn => Arith!Distance(clock', v) <= tol + call.late
      BY ONLY <2>8, <3>1, <3>2
    <3>4. ~shown'.torn
          => Arith!Distance(clock', shown'.val) <= Tolerance[shown'.ioctl] + shown'.late
      BY <3>2, <3>3 DEF tol
    <3>5. QED BY <3>4 DEF Arith!ClockClose, Arith!Distance, Arith!Modulus
  <2>10. QED BY <1>5, <1>6, <1>7, <2>2, <2>5, <2>6, <2>7, <2>9 DEF ClockInv
<1>10. QED BY <1>8, <1>9

\* A contrast for which the picture is promised, what is computed from the settings
\* before it is bytes (the factor of the contrast, the offset, and the chroma), and
\* the brightness and the saturation whose products an int holds.
Setting(x) == x \in Int /\ 0 <= x /\ x <= 1000
FactorOf(c) == Arith!Quot(Arith!Int32(c * 127 + 500), 1000)
OffsetOf(b, c) ==
  Arith!Clamp(128 - 2 * FactorOf(c) + Arith!Quot(Arith!Int32((b - 500) * 255 + 500), 1000),
              -128, 127)
ChromaOf(c, s) ==
  LET x == Arith!Quot(Arith!Int32(FactorOf(c) * s + 250), 500) IN IF x > 127 THEN 127 ELSE x
Bright(t) == t \in Int /\ Arith!Fits((t - 500) * 255 + 500)
Coloured(c, t) == t \in Int /\ t >= 0 /\ Arith!Fits(FactorOf(c) * t + 250)

\* What fits an int is kept by it, and the ints go far enough for the contrast.
LEMMA IntsKeep ==
  /\ \A x \in Int : Arith!Fits(x) => Arith!Int32(x) = x
  /\ \A c : Setting(c) => Arith!Fits(c * 127 + 500)
<1>1. IntHalf \in Nat /\ IntHalf >= 131072
  BY ArithConstants DEF ArithConstants, Arith!ArithAssumption
<1>2. ASSUME NEW x \in Int, Arith!Fits(x) PROVE Arith!Int32(x) = x
  <2>1. 0 <= x + IntHalf /\ x + IntHalf < 2 * IntHalf /\ x + IntHalf \in Int
    BY <1>1, <1>2 DEF Arith!Fits
  <2>2. (x + IntHalf) % (2 * IntHalf) = x + IntHalf
    BY <1>1, <2>1
  <2>3. QED BY <1>1, <2>2 DEF Arith!Int32
<1>3. ASSUME NEW c, Setting(c) PROVE Arith!Fits(c * 127 + 500)
  BY <1>1, <1>3 DEF Setting, Arith!Fits
<1>4. QED BY <1>2, <1>3

\* The factor is a number of seven bits that grows with the contrast.
LEMMA FactorsRise ==
  ASSUME NEW c, Setting(c)
  PROVE  /\ FactorOf(c) \in Int /\ 0 <= FactorOf(c) /\ FactorOf(c) <= 127
         /\ c = 500 => FactorOf(c) = 64
         /\ \A t : Setting(t) /\ t >= c => FactorOf(c) <= FactorOf(t)
<1>1. \A t : Setting(t) => FactorOf(t) = (t * 127 + 500) \div 1000
  <2> SUFFICES ASSUME NEW t, Setting(t) PROVE FactorOf(t) = (t * 127 + 500) \div 1000
    OBVIOUS
  <2>1. t * 127 + 500 \in Int /\ t * 127 + 500 >= 0
    BY DEF Setting
  <2>2. Arith!Int32(t * 127 + 500) = t * 127 + 500
    BY <2>1, IntsKeep
  <2>3. QED BY <2>1, <2>2 DEF FactorOf, Arith!Quot
<1>2. \A t : Setting(t) => t \in Int /\ 0 <= t /\ t <= 1000
  BY DEF Setting
<1>3. \A x, y \in Int : x <= y => x \div 1000 <= y \div 1000
  OBVIOUS
<1>4. \A t : Setting(t) /\ t >= c => FactorOf(c) <= FactorOf(t)
  <2> SUFFICES ASSUME NEW t, Setting(t), t >= c PROVE FactorOf(c) <= FactorOf(t)
    OBVIOUS
  <2>1. c * 127 + 500 \in Int /\ t * 127 + 500 \in Int /\ c * 127 + 500 <= t * 127 + 500
    BY <1>2
  <2>2. QED BY <1>1, <1>3, <2>1
<1>5. FactorOf(c) \in Int /\ 0 <= FactorOf(c) /\ FactorOf(c) <= 127
  BY <1>1, <1>2
<1>6. c = 500 => FactorOf(c) = 64
  BY <1>1
<1>7. QED BY <1>4, <1>5, <1>6

\* The offset is a signed byte, whatever is asked for.
LEMMA OffsetsFit ==
  ASSUME NEW b \in Int, NEW c, Setting(c)
  PROVE  OffsetOf(b, c) \in Int /\ -128 <= OffsetOf(b, c) /\ OffsetOf(b, c) <= 127
<1> DEFINE f == FactorOf(c)
           x == Arith!Int32((b - 500) * 255 + 500)
<1>1. f \in Int
  BY FactorsRise
<1>2. IntHalf \in Nat /\ IntHalf >= 131072
  BY ArithConstants DEF ArithConstants, Arith!ArithAssumption
<1>3. \A y \in Int : Arith!Int32(y) \in Int
  BY <1>2 DEF Arith!Int32
<1>4. x \in Int
  BY <1>3
<1>5. OffsetOf(b, c) = Arith!Clamp(128 - 2 * f + Arith!Quot(x, 1000), -128, 127)
  BY DEF OffsetOf
<1> HIDE DEF f, x
<1>6. Arith!Quot(x, 1000) \in Int
  BY <1>4 DEF Arith!Quot
<1>7. QED BY <1>1, <1>5, <1>6 DEF Arith!Clamp

\* The offset grows with the brightness.
LEMMA OffsetsRise ==
  ASSUME NEW b, NEW c, Bright(b), Setting(c)
  PROVE  /\ b = 500 /\ c = 500 => OffsetOf(b, c) = 0
         /\ \A t : Bright(t) /\ t >= b => OffsetOf(b, c) <= OffsetOf(t, c)
<1> DEFINE f == FactorOf(c)
           P(t) == Arith!Quot((t - 500) * 255 + 500, 1000)
<1>1. f \in Int /\ (c = 500 => f = 64)
  BY FactorsRise
<1>2. P(500) = 0
  BY DEF Arith!Quot
<1>3. \A t : Bright(t) => P(t) \in Int
  BY DEF Bright, Arith!Quot
<1>4. \A t : Bright(t) /\ t >= b => P(b) <= P(t)
  BY DEF Bright, Arith!Quot
<1>5. \A t : Bright(t) => OffsetOf(t, c) = Arith!Clamp(128 - 2 * f + P(t), -128, 127)
  <2> SUFFICES ASSUME NEW t, Bright(t)
               PROVE  OffsetOf(t, c) = Arith!Clamp(128 - 2 * f + P(t), -128, 127)
    OBVIOUS
  <2>1. (t - 500) * 255 + 500 \in Int /\ Arith!Fits((t - 500) * 255 + 500)
    BY DEF Bright
  <2>2. Arith!Int32((t - 500) * 255 + 500) = (t - 500) * 255 + 500
    BY <2>1, IntsKeep
  <2>3. QED BY <2>2 DEF OffsetOf
<1> HIDE DEF f, P
<1>6. QED BY <1>1, <1>2, <1>3, <1>4, <1>5 DEF Arith!Clamp

\* The chroma is a number of seven bits that grows with the saturation.
LEMMA ChromasRise ==
  ASSUME NEW c, NEW s, Setting(c), Coloured(c, s)
  PROVE  /\ ChromaOf(c, s) \in Int /\ 0 <= ChromaOf(c, s) /\ ChromaOf(c, s) <= 127
         /\ c = 500 /\ s = 500 => ChromaOf(c, s) = 64
         /\ \A t : Coloured(c, t) /\ t >= s => ChromaOf(c, s) <= ChromaOf(c, t)
<1> DEFINE f == FactorOf(c)
           Q(t) == (f * t + 250) \div 500
<1>1. f \in Int /\ 0 <= f /\ (c = 500 => f = 64)
  BY FactorsRise
<1>2. \A t : Coloured(c, t) => t \in Int /\ 0 <= t /\ Arith!Fits(f * t + 250)
  BY DEF Coloured
<1> HIDE DEF f
<1>3. \A t : t \in Int /\ 0 <= t => f * t \in Int /\ 0 <= f * t
  BY <1>1
<1>4. \A x, y \in Int : x <= y => x \div 500 <= y \div 500
  OBVIOUS
<1>5. \A t : Coloured(c, t) => Q(t) \in Int /\ 0 <= Q(t)
                         /\ ChromaOf(c, t) = IF Q(t) > 127 THEN 127 ELSE Q(t)
  <2> SUFFICES ASSUME NEW t, Coloured(c, t)
               PROVE  Q(t) \in Int /\ 0 <= Q(t)
                      /\ ChromaOf(c, t) = IF Q(t) > 127 THEN 127 ELSE Q(t)
    OBVIOUS
  <2> DEFINE x == f * t
  <2>1. x \in Int /\ 0 <= x /\ Arith!Fits(x + 250)
    BY <1>2, <1>3
  <2>2. ChromaOf(c, t) =
          LET y == Arith!Quot(Arith!Int32(x + 250), 500) IN IF y > 127 THEN 127 ELSE y
    BY DEF ChromaOf, f
  <2> HIDE DEF x
  <2>3. Arith!Int32(x + 250) = x + 250
    BY <2>1, IntsKeep
  <2>4. /\ (x + 250) \div 500 \in Int /\ 0 <= (x + 250) \div 500
        /\ Arith!Quot(x + 250, 500) = (x + 250) \div 500
    BY <2>1 DEF Arith!Quot
  <2>5. QED BY <2>2, <2>3, <2>4 DEF x
<1>6. \A t : Coloured(c, t) /\ t >= s => Q(s) <= Q(t)
  <2> SUFFICES ASSUME NEW t, Coloured(c, t), t >= s PROVE Q(s) <= Q(t)
    OBVIOUS
  <2>1. s \in Int /\ t \in Int /\ f * (t - s) = f * t - f * s
    BY <1>1, <1>2
  <2>2. f * (t - s) >= 0 /\ f * t \in Int /\ f * s \in Int
    BY <1>1, <2>1
  <2> DEFINE x == f * s + 250
             y == f * t + 250
  <2>3. x \in Int /\ y \in Int /\ x <= y
    BY <2>1, <2>2
  <2> HIDE DEF x, y
  <2>4. x \div 500 <= y \div 500
    BY <1>4, <2>3
  <2>5. QED BY <2>4 DEF x, y
<1>7. c = 500 /\ s = 500 => Q(s) = 64
  BY <1>1
<1> HIDE DEF Q
<1>8. QED BY <1>5, <1>6, <1>7

\* Neutral brightness and saturation are held by an int.
LEMMA NeutralHeld ==
  ASSUME NEW c, Setting(c)
  PROVE  Bright(500) /\ Coloured(c, 500)
<1>1. IntHalf \in Nat /\ IntHalf >= 131072
  BY ArithConstants DEF ArithConstants, Arith!ArithAssumption
<1> DEFINE f == FactorOf(c)
<1>2. f \in Int /\ 0 <= f /\ f <= 127
  BY FactorsRise
<1>3. Bright(500)
  BY <1>1 DEF Bright, Arith!Fits
<1> HIDE DEF f
<1>4. Arith!Fits(f * 500 + 250)
  BY <1>1, <1>2 DEF Arith!Fits
<1>5. QED BY <1>3, <1>4 DEF Coloured, f

\* A signed byte is read as it was before it was written.
LEMMA BytesHold ==
  \A x \in Int : -128 <= x /\ x <= 127 => Arith!Byte(x % 256) = x
BY DEF Arith!Byte

\* The three bytes.
LEMMA BcsIs ==
  ASSUME NEW b, NEW c, NEW s
  PROVE  Arith!em8300_dicom_setBCS(b, c, s) =
           [factor |-> FactorOf(c) % 256, offset |-> OffsetOf(b, c) % 256,
            chroma |-> ChromaOf(c, s) % 256]
BY DEF Arith!em8300_dicom_setBCS, FactorOf, OffsetOf, ChromaOf

\* The settings that are asked for.
LEMMA SettingsAre == \A x \in Settings : x \in Int
BY ArithConstants DEF ArithConstants, Arith!ArithAssumption

\* The bytes of a picture fit, grow with the settings, and are neutral for neutral ones,
\* as far as BcsFits says.
LEMMA BcsFit ==
  ASSUME Arith!Bcs
  PROVE  Arith!ArithmeticFits' /\ shown'.what = "bcs"
<1>1. PICK b \in Settings, c \in Settings, s \in Settings :
        shown' = [what |-> "bcs", asked |-> <<b, c, s>>,
                  regs |-> Arith!em8300_dicom_setBCS(b, c, s)]
  BY DEF Arith!Bcs, Arith!Compute
<1>2. b \in Int /\ c \in Int /\ s \in Int
  BY SettingsAre
<1>3. \A x, y, z : Arith!em8300_dicom_setBCS(x, y, z) =
                     [factor |-> FactorOf(y) % 256, offset |-> OffsetOf(x, y) % 256,
                      chroma |-> ChromaOf(y, z) % 256]
  BY BcsIs
<1> DEFINE f(y) == Arith!Byte(FactorOf(y) % 256)
           o(x, y) == Arith!Byte(OffsetOf(x, y) % 256)
           h(y, z) == Arith!Byte(ChromaOf(y, z) % 256)
           r == shown'.regs
<1>4. \A x : Setting(x) => f(x) = FactorOf(x) /\ FactorOf(x) \in 0 .. 127
  BY FactorsRise, BytesHold
<1>5. \A x \in Int : \A y : Setting(y) => o(x, y) = OffsetOf(x, y) /\ OffsetOf(x, y) \in Int
  BY OffsetsFit, BytesHold
<1>6. \A y, z : Setting(y) /\ Coloured(y, z)
                  => h(y, z) = ChromaOf(y, z) /\ ChromaOf(y, z) \in 0 .. 127
  BY ChromasRise, BytesHold
<1>7. /\ r.factor = FactorOf(c) % 256 /\ r.offset = OffsetOf(b, c) % 256
      /\ r.chroma = ChromaOf(c, s) % 256
      /\ r = [factor |-> FactorOf(c) % 256, offset |-> OffsetOf(b, c) % 256,
              chroma |-> ChromaOf(c, s) % 256]
      /\ shown'.what = "bcs" /\ shown'.asked = <<b, c, s>>
  BY <1>1, <1>3
<1>8. /\ shown'.asked[1] = b /\ shown'.asked[2] = c /\ shown'.asked[3] = s
  BY <1>7
<1>9. ASSUME c \in 0 .. 1000 PROVE Arith!BcsFits'
  <2>1. Setting(c)
    BY <1>9 DEF Setting
  <2>2. /\ Arith!Byte(r.factor) = FactorOf(c)
        /\ Arith!Byte(r.factor) \in 0 .. 127
        /\ Coloured(c, s) => Arith!Byte(r.chroma) \in 0 .. 127
    BY <1>4, <1>6, <1>7, <2>1
  <2>3. ASSUME NEW t \in Settings
        PROVE  /\ t >= b /\ Bright(b) /\ Bright(t)
                    => Arith!Byte(Arith!em8300_dicom_setBCS(t, c, s).offset)
                         >= Arith!Byte(r.offset)
               /\ t >= c /\ t <= 1000
                    => Arith!Byte(Arith!em8300_dicom_setBCS(b, t, s).factor)
                         >= Arith!Byte(r.factor)
               /\ t >= s /\ Coloured(c, s) /\ Coloured(c, t)
                    => Arith!Byte(Arith!em8300_dicom_setBCS(b, c, t).chroma)
                         >= Arith!Byte(r.chroma)
    <3>1. t \in Int /\ (t >= c /\ t <= 1000 => Setting(t))
      BY SettingsAre, <1>9 DEF Setting
    <3>2. t >= b /\ Bright(b) /\ Bright(t)
            => o(b, c) <= o(t, c) /\ o(b, c) \in Int /\ o(t, c) \in Int
      BY <1>2, <1>5, <2>1, <3>1, OffsetsRise
    <3>3. t >= c /\ t <= 1000 => f(c) <= f(t) /\ f(c) \in Int /\ f(t) \in Int
      BY <1>2, <1>4, <2>1, <3>1, FactorsRise
    <3>4. t >= s /\ Coloured(c, s) /\ Coloured(c, t)
            => h(c, s) <= h(c, t) /\ h(c, s) \in Int /\ h(c, t) \in Int
      BY <1>2, <1>6, <2>1, <3>1, ChromasRise
    <3>5. /\ Arith!em8300_dicom_setBCS(t, c, s).offset = OffsetOf(t, c) % 256
          /\ Arith!em8300_dicom_setBCS(b, t, s).factor = FactorOf(t) % 256
          /\ Arith!em8300_dicom_setBCS(b, c, t).chroma = ChromaOf(c, t) % 256
      BY <1>3
    <3>6. QED BY <1>7, <3>2, <3>3, <3>4, <3>5
  <2>4. b = 500 /\ c = 500 /\ s = 500 => r = [factor |-> 64, offset |-> 0, chroma |-> 64]
    <3> SUFFICES ASSUME b = 500, c = 500, s = 500
                 PROVE  r = [factor |-> 64, offset |-> 0, chroma |-> 64]
      OBVIOUS
    <3>1. Bright(b) /\ Coloured(c, s)
      BY <2>1, NeutralHeld
    <3>2. FactorOf(c) = 64 /\ OffsetOf(b, c) = 0 /\ ChromaOf(c, s) = 64
      BY <2>1, <3>1, FactorsRise, OffsetsRise, ChromasRise
    <3>3. FactorOf(c) % 256 = 64 /\ OffsetOf(b, c) % 256 = 0 /\ ChromaOf(c, s) % 256 = 64
      BY <3>2
    <3>4. QED BY <1>7, <3>3
  <2>5. \A t \in Settings \cup {b, s} :
          /\ Arith!Fits((t - 500) * 255 + 500) <=> Bright(t)
          /\ t >= 0 /\ Arith!Fits(Arith!Byte(r.factor) * t + 250) <=> Coloured(c, t)
    BY <1>2, <2>2, SettingsAre DEF Bright, Coloured
  <2> HIDE DEF r
  <2>6. QED BY <1>8, <2>2, <2>3, <2>4, <2>5 DEF Arith!BcsFits, r
<1>10. c \notin 0 .. 1000 => Arith!BcsFits'
  BY <1>8 DEF Arith!BcsFits
<1>11. QED BY <1>7, <1>9, <1>10 DEF Arith!ArithmeticFits, Arith!ClockClose

\* Whatever rate is measured, what is computed fits the register.
LEMMA KminFits ==
  ASSUME Arith!Kmin
  PROVE  Arith!ArithmeticFits' /\ shown'.what = "kmin"
<1>1. PICK rate \in Rates, divisor \in {67500, 66000} :
        shown' = [what |-> "kmin", reg |-> Arith!set_dicom_kmin(rate, divisor)]
  BY DEF Arith!Kmin, Arith!Compute
<1>2. rate \in Nat
  BY ArithConstants DEF ArithConstants, Arith!ArithAssumption
<1> DEFINE k == ((rate + 10) * 150645) \div divisor
<1>3. k \in Int /\ 0 <= k
  <2>1. CASE divisor = 67500
    BY <1>2, <2>1
  <2>2. CASE divisor = 66000
    BY <1>2, <2>2
  <2>3. QED BY <1>1, <2>1, <2>2
<1>4. Arith!set_dicom_kmin(rate, divisor) = IF k > 2304 THEN 2304 ELSE k
  BY DEF Arith!set_dicom_kmin
<1> HIDE DEF k
<1>5. shown'.reg \in 0 .. 2304 /\ shown'.what = "kmin"
  BY <1>1, <1>3, <1>4
<1>6. QED BY <1>5 DEF Arith!ArithmeticFits, Arith!ClockClose, Arith!BcsFits

\* A time that is halved is kept to the half of the registers.
LEMMA PtsFits ==
  ASSUME Arith!Pts
  PROVE  Arith!ArithmeticFits' /\ shown'.what = "pts"
<1> DEFINE n == Arith!Modulus
           g == n \div 2
<1>1. PICK v \in Arith!Clocks : shown' = [what |-> "pts", asked |-> v, reg |-> Arith!SpuPts(v)]
  BY DEF Arith!Pts, Arith!Compute
<1>2. PICK m \in Nat \ {0} : n = 4 * m
  <2> DEFINE h == HalfClock
  <2>1. h \in Nat \ {0} /\ h % 2 = 0 /\ n = h * h
    BY HalfClockIs
  <2> HIDE DEF h, n
  <2> DEFINE j == h \div 2
  <2>2. j \in Nat \ {0} /\ h = 2 * j
    BY <2>1
  <2> HIDE DEF j
  <2>3. j * j \in Nat \ {0} /\ n = 4 * (j * j)
    BY <2>1, <2>2
  <2>4. QED BY <2>3
<1>3. v \in 0 .. n - 1
  BY HalfClockIs
<1>4. Arith!SpuPts(v) = ((IF v >= g THEN v - n ELSE v) \div 2) % n
  BY DEF Arith!SpuPts, Arith!Signed
<1> HIDE DEF n
<1>5. g = 2 * m
  BY <1>2
<1> HIDE DEF g
<1> DEFINE w == v \div 2
<1>6. w \in Nat /\ w < g /\ g \in Nat \ {0} /\ n \in Nat \ {0}
  BY <1>2, <1>3, <1>5
<1>7. \A a \in 0 .. n - 1, q \in Int : (n * q + a) % n = a
  BY <1>6, RestIsRemainder
<1>8. \A a \in 0 .. g - 1, q \in Int : (g * q + a) % g = a
  BY <1>6, RestIsRemainder
<1>9. Arith!SpuPts(v) % g = w
  <2>1. CASE v < g
    <3>1. ((IF v >= g THEN v - n ELSE v) \div 2) = w
      BY <1>2, <1>3, <1>5, <2>1
    <3> HIDE DEF w
    <3>2. w = n * 0 + w /\ w = g * 0 + w /\ w \in 0 .. n - 1 /\ w \in 0 .. g - 1
      BY <1>2, <1>5, <1>6
    <3>3. w % n = w /\ w % g = w
      BY <1>7, <1>8, <3>2
    <3>4. QED BY <1>4, <3>1, <3>3
  <2>2. CASE v >= g
    <3>1. ((IF v >= g THEN v - n ELSE v) \div 2) = w - g
      BY <1>2, <1>3, <1>5, <2>2
    <3> HIDE DEF w
    <3>2. /\ w - g = n * (-1) + (w + g) /\ w + g \in 0 .. n - 1
          /\ w + g = g * 1 + w /\ w \in 0 .. g - 1
      BY <1>2, <1>5, <1>6
    <3>3. (w - g) % n = w + g /\ (w + g) % g = w
      BY <1>7, <1>8, <3>2
    <3>4. QED BY <1>4, <3>1, <3>3
  <2>3. QED BY <1>2, <1>3, <1>5, <2>1, <2>2
<1>10. shown'.reg % (Arith!Modulus \div 2) = shown'.asked \div 2 /\ shown'.what = "pts"
  BY <1>1, <1>9 DEF g, n
<1>11. QED BY <1>10 DEF Arith!ArithmeticFits, Arith!ClockClose, Arith!BcsFits, Arith!Modulus

\* New microcode is given the speed as it is.
LEMMA SpeedFits ==
  ASSUME Arith!Speed
  PROVE  Arith!ArithmeticFits' /\ shown'.what = "speed"
<1> DEFINE n == Arith!Modulus
<1>1. PICK new \in BOOLEAN, v \in Arith!Clocks :
        shown' = [what |-> "speed", new |-> new, asked |-> v,
                  read |-> Arith!SpeedGet(new, Arith!SpeedSet(new, v))]
  BY DEF Arith!Speed, Arith!Compute
<1>2. v \in 0 .. n - 1 /\ n \in Nat \ {0}
  BY HalfClockIs
<1>3. v % n = v
  <2> HIDE DEF n
  <2>1. v = n * 0 + v
    BY <1>2
  <2>2. QED BY <1>2, <2>1, RestIsRemainder
<1>4. new => Arith!SpeedGet(new, Arith!SpeedSet(new, v)) = v
  BY <1>3 DEF Arith!SpeedGet, Arith!SpeedSet
<1>5. shown'.what = "speed" /\ shown'.new = new /\ shown'.asked = v
      /\ shown'.read = Arith!SpeedGet(new, Arith!SpeedSet(new, v))
  BY <1>1
<1>6. shown'.new => shown'.read = shown'.asked
  BY <1>4, <1>5
<1>7. QED BY <1>5, <1>6 DEF Arith!ArithmeticFits, Arith!ClockClose, Arith!BcsFits

\* The operator & of the numbers is that of the lemmas.
LEMMA SameAnd == Arith!And = And
BY DEF Arith!And, And, Arith!Words, Words, Arith!LargestWord, LargestWord

\* A mask of the bits below m is a remainder, which holds of every power of two.
MaskOf(m) == \A a \in Words : And[<<a, m - 1>>] = a % m

\* A mask of one bit more, for any mask.
LEMMA MaskDoubles ==
  \A m \in Nat \ {0} : 2 * m - 1 \in Words /\ MaskOf(m) => MaskOf(2 * m)
BY MaskOfOneMore DEF MaskOf

\* A power of two, up to 256, is a mask.
LEMMA MaskOfPowers ==
  ASSUME NEW n, Arith!IsPowerOfTwo(n)
  PROVE  MaskOf(n)
<1>1. PICK k \in 0 .. 8 : n = 2 ^ k
  BY DEF Arith!IsPowerOfTwo
<1>2. k = 0 \/ k = 1 \/ k = 2 \/ k = 3 \/ k = 4 \/ k = 5 \/ k = 6 \/ k = 7 \/ k = 8
  OBVIOUS
<1>3. n = 1 \/ n = 2 \/ n = 4 \/ n = 8 \/ n = 16 \/ n = 32 \/ n = 64 \/ n = 128 \/ n = 256
  <2>1. CASE k = 0
    <3>1. 2 ^ 0 = 1
      OBVIOUS
    <3>2. QED BY ONLY <1>1, <2>1, <3>1
  <2>2. CASE k = 1
    <3>1. 2 ^ 1 = 2
      OBVIOUS
    <3>2. QED BY ONLY <1>1, <2>2, <3>1
  <2>3. CASE k = 2
    <3>1. 2 ^ 2 = 4
      OBVIOUS
    <3>2. QED BY ONLY <1>1, <2>3, <3>1
  <2>4. CASE k = 3
    <3>1. 2 ^ 3 = 8
      OBVIOUS
    <3>2. QED BY ONLY <1>1, <2>4, <3>1
  <2>5. CASE k = 4
    <3>1. 2 ^ 4 = 16
      OBVIOUS
    <3>2. QED BY ONLY <1>1, <2>5, <3>1
  <2>6. CASE k = 5
    <3>1. 2 ^ 5 = 32
      OBVIOUS
    <3>2. QED BY ONLY <1>1, <2>6, <3>1
  <2>7. CASE k = 6
    <3>1. 2 ^ 6 = 64
      OBVIOUS
    <3>2. QED BY ONLY <1>1, <2>7, <3>1
  <2>8. CASE k = 7
    <3>1. 2 ^ 7 = 128
      OBVIOUS
    <3>2. QED BY ONLY <1>1, <2>8, <3>1
  <2>9. CASE k = 8
    <3>1. 2 ^ 8 = 256
      OBVIOUS
    <3>2. QED BY ONLY <1>1, <2>9, <3>1
  <2>10. QED BY ONLY <1>2, <2>1, <2>2, <2>3, <2>4, <2>5, <2>6, <2>7, <2>8, <2>9
<1>4. MaskOf(1)
  <2> SUFFICES ASSUME NEW a \in Words PROVE And[<<a, 1 - 1>>] = a % 1
    BY DEF MaskOf
  <2> DEFINE z == 0
  <2>1. a \in Nat /\ z \in Words
    BY WordsAreNumbers
  <2> HIDE DEF z
  <2>2. And[<<a, z>>] \in 0 .. z
    BY <2>1, AndIsBelow
  <2>3. a % 1 = 0
    BY <2>1
  <2>4. QED BY <2>2, <2>3 DEF z
<1>5. \A x \in {1, 3, 7, 15, 31, 63, 127, 255} : x \in Words
  BY DEF Words, LargestWord
<1>6. MaskOf(2)
  BY <1>4, <1>5, MaskDoubles
<1>7. MaskOf(4)
  BY <1>6, <1>5, MaskDoubles
<1>8. MaskOf(8)
  BY <1>7, <1>5, MaskDoubles
<1>9. MaskOf(16)
  BY <1>8, <1>5, MaskDoubles
<1>10. MaskOf(32)
  BY <1>9, <1>5, MaskDoubles
<1>11. MaskOf(64)
  BY <1>10, <1>5, MaskDoubles
<1>12. MaskOf(128)
  BY <1>11, <1>5, MaskDoubles
<1>13. MaskOf(256)
  BY <1>12, <1>5, MaskDoubles
<1>14. QED BY <1>3, <1>4, <1>6, <1>7, <1>8, <1>9, <1>10, <1>11, <1>12, <1>13

\* The walk from a slot to the one written, as a function, and what it gives.
Steps(n, wr) ==
  CHOOSE s : s = [p \in (0 .. n - 1) \X (0 .. n) |->
                    IF p[1] = wr \/ p[2] = n THEN p[2]
                    ELSE s[<<Arith!And[<<p[1] + 1, n - 1>>], p[2] + 1>>]]
AtMost(x, n) == IF x > n THEN n ELSE x

\* The walk of the source is a value of this function.
LEMMA WalkOfSteps ==
  ASSUME NEW n, NEW rd, NEW wr
  PROVE  Arith!Walked(n, rd, wr) = Steps(n, wr)[<<rd, 0>>]
BY DEF Arith!Walked, Steps

\* One step of the walk comes one slot nearer.
LEMMA StepsNearer ==
  ASSUME NEW n \in Nat \ {0}, NEW wr \in 0 .. n - 1, NEW i \in 0 .. n - 1, NEW k \in 0 .. n
  PROVE  /\ i = wr => AtMost(k + ((wr - i) % n), n) = k
         /\ k = n => AtMost(k + ((wr - i) % n), n) = k
         /\ i # wr => /\ (i + 1) % n \in 0 .. n - 1
                      /\ k + 1 + ((wr - ((i + 1) % n)) % n) = k + ((wr - i) % n)
<1> DEFINE x == (i + 1) % n
           d == (wr - i) % n
           e == (wr - x) % n
<1>1. x = (IF i + 1 = n THEN 0 ELSE i + 1) /\ x \in 0 .. n - 1
  BY NextPlace
<1> HIDE DEF x
<1>2. d = IF wr >= i THEN wr - i ELSE wr - i + n
  BY RemainderOfDifference
<1>3. e = IF wr >= x THEN wr - x ELSE wr - x + n
  BY <1>1, RemainderOfDifference
<1> HIDE DEF d, e
<1>4. i # wr => k + 1 + e = k + d
  BY <1>1, <1>2, <1>3
<1>5. (i = wr => AtMost(k + d, n) = k) /\ (k = n => AtMost(k + d, n) = k)
  BY <1>2 DEF AtMost
<1>6. QED BY <1>1, <1>4, <1>5 DEF x, d, e

\* A walk counts the slots from the one read to the one written.
LEMMA WalkIsDistance ==
  ASSUME NEW n \in Words \ {0}, MaskOf(n), NEW rd \in 0 .. n - 1, NEW wr \in 0 .. n - 1
  PROVE  Arith!Walked(n, rd, wr) = (wr - rd) % n
<1> DEFINE I == 0 .. n - 1
           K == 0 .. n
           M(i, k) == AtMost(k + ((wr - i) % n), n)
           E(s) == [p \in I \X K |->
                      IF p[1] = wr \/ p[2] = n THEN p[2]
                      ELSE s[<<Arith!And[<<p[1] + 1, n - 1>>], p[2] + 1>>]]
           f == Steps(n, wr)
           g == [p \in I \X K |-> M(p[1], p[2])]
<1>1. n \in Nat \ {0} /\ \A y \in 0 .. n : y \in Words
  BY WordsAreNumbers
<1>2. \A i \in I : Arith!And[<<i + 1, n - 1>>] = (i + 1) % n
  <2>1. \A i \in I : i + 1 \in Words
    BY <1>1
  <2>2. QED BY <2>1, SameAnd DEF MaskOf
<1>3. \A i \in I, k \in K : /\ i = wr => M(i, k) = k
                            /\ k = n => M(i, k) = k
                            /\ i # wr => /\ (i + 1) % n \in I
                                         /\ M((i + 1) % n, k + 1) = M(i, k)
  BY <1>1, StepsNearer
<1>4. \A k \in K : k # n => k + 1 \in K
  BY <1>1
<1>5. 0 \in K /\ \A k \in K : (n - k = 0 => k = n) /\ n - k \in Nat
  BY <1>1
<1>6. \A j \in Nat, k \in K : n - k = j + 1 => k # n /\ k + 1 \in K /\ n - (k + 1) = j
  BY <1>1
<1> HIDE DEF I, K, M
<1>7. g = E(g)
  <2>1. \A i \in I, k \in K : i # wr /\ k # n => g[<<(i + 1) % n, k + 1>>] = M(i, k)
    BY <1>3, <1>4
  <2>2. \A i \in I, k \in K :
          M(i, k) = IF i = wr \/ k = n THEN k
                    ELSE g[<<Arith!And[<<i + 1, n - 1>>], k + 1>>]
    <3> HIDE DEF g
    <3>1. QED BY <1>2, <1>3, <2>1
  <2> HIDE DEF g
  <2>3. g = [p \in I \X K |-> M(p[1], p[2])]
    BY DEF g
  <2>4. \A p \in I \X K : p[1] \in I /\ p[2] \in K
    OBVIOUS
  <2>5. \A p \in I \X K :
          M(p[1], p[2]) = IF p[1] = wr \/ p[2] = n THEN p[2]
                          ELSE g[<<Arith!And[<<p[1] + 1, n - 1>>], p[2] + 1>>]
    BY <2>2, <2>4
  <2>6. QED BY <2>3, <2>5
<1>8. f = E(f)
  <2> HIDE DEF g
  <2>1. f = CHOOSE s : s = E(s)
    BY DEF Steps, I, K
  <2> HIDE DEF E, f
  <2>2. QED BY <1>7, <2>1
<1>9. \A i \in I, k \in K :
        f[<<i, k>>] = IF i = wr \/ k = n THEN k ELSE f[<<(i + 1) % n, k + 1>>]
  <2> HIDE DEF f
  <2>1. \A i \in I, k \in K :
          E(f)[<<i, k>>] = IF i = wr \/ k = n THEN k
                           ELSE f[<<Arith!And[<<i + 1, n - 1>>], k + 1>>]
    OBVIOUS
  <2> HIDE DEF E
  <2>2. QED BY <1>2, <1>8, <2>1
<1> DEFINE Good == {j \in Nat : \A i \in I, k \in K : n - k = j => f[<<i, k>>] = M(i, k)}
<1> HIDE DEF f, g, E
<1>10. 0 \in Good
  BY <1>3, <1>5, <1>9
<1>11. ASSUME NEW j \in Nat, j \in Good PROVE j + 1 \in Good
  <2>1. ASSUME NEW i \in I, NEW k \in K, n - k = j + 1 PROVE f[<<i, k>>] = M(i, k)
    <3>1. k # n /\ k + 1 \in K /\ n - (k + 1) = j
      BY <1>6, <2>1
    <3>2. CASE i = wr
      BY <1>3, <1>9, <3>2
    <3>3. CASE i # wr
      <4>1. (i + 1) % n \in I /\ M((i + 1) % n, k + 1) = M(i, k)
        BY <1>3, <3>3
      <4>2. f[<<(i + 1) % n, k + 1>>] = M((i + 1) % n, k + 1)
        BY <1>11, <3>1, <4>1
      <4>3. QED BY <1>9, <3>1, <3>3, <4>1, <4>2
    <3>4. QED BY <3>2, <3>3
  <2>2. j + 1 \in Nat
    OBVIOUS
  <2>3. QED BY <2>1, <2>2
<1>12. Nat \subseteq Good
  <2> HIDE DEF Good
  <2>1. QED BY <1>10, <1>11, SetInduction
<1>13. f[<<rd, 0>>] = M(rd, 0)
  <2>1. n - 0 \in Good
    BY <1>5, <1>12
  <2>2. rd \in I
    BY DEF I
  <2>3. QED BY <1>5, <2>1, <2>2
<1>14. M(rd, 0) = (wr - rd) % n
  <2>1. (wr - rd) % n \in 0 .. n - 1
    BY <1>1
  <2>2. QED BY <1>1, <2>1 DEF M, AtMost
<1>15. QED BY <1>13, <1>14, WalkOfSteps DEF f

\* What is free and what is waiting make the ring, and what waits in both rings is the sum.
LEMMA RingsFit ==
  ASSUME Arith!Rings
  PROVE  Arith!ArithmeticFits' /\ shown'.what = "rings"
<1> DEFINE W(n, rd, wr) == Arith!Walked(n, rd, wr)
<1>1. PICK n \in Slots : \E rd, wr \in 0 .. (n - 1), crd, cwr \in 0 .. (CardRing - 1) :
        shown' = [what |-> "rings", n |-> n, free |-> Arith!Free(n, rd, wr),
                  walked |-> Arith!Walked(n, rd, wr), card |-> (cwr - crd) % CardRing,
                  buffered |-> Arith!Buffered(n, rd, wr, crd, cwr)]
  BY DEF Arith!Rings, Arith!Compute
<1>2. PICK rd \in 0 .. (n - 1), wr \in 0 .. (n - 1),
           crd \in 0 .. (CardRing - 1), cwr \in 0 .. (CardRing - 1) :
        shown' = [what |-> "rings", n |-> n, free |-> Arith!Free(n, rd, wr),
                  walked |-> Arith!Walked(n, rd, wr), card |-> (cwr - crd) % CardRing,
                  buffered |-> Arith!Buffered(n, rd, wr, crd, cwr)]
  BY <1>1
<1>3. Slots \subseteq Arith!Words \ {0} /\ CardRing \in Nat \ {0}
  BY ArithConstants DEF ArithConstants, Arith!ArithAssumption
<1>4. n \in Words \ {0}
  <2>1. Arith!Words = Words
    BY DEF Arith!Words, Words, Arith!LargestWord, LargestWord
  <2>2. QED BY <1>3, <2>1
<1>5. n \in Nat \ {0}
  BY <1>4, WordsAreNumbers
<1>6. (CardRing + cwr - crd) % CardRing = (cwr - crd) % CardRing
  <2> DEFINE d == cwr - crd
             x == IF cwr >= crd THEN d ELSE d + CardRing
  <2>1. (cwr - crd) % CardRing = x
    BY <1>3, RemainderOfDifference
  <2>5. \A a \in 0 .. CardRing - 1, k \in Int : (CardRing * k + a) % CardRing = a
    BY <1>3, RestIsRemainder
  <2> HIDE DEF x
  <2>2. CASE cwr >= crd
    <3>1. CardRing + cwr - crd = CardRing * 1 + x /\ x \in 0 .. CardRing - 1
      BY <1>3, <2>2 DEF x
    <3>2. (CardRing * 1 + x) % CardRing = x
      BY <2>5, <3>1
    <3>3. QED BY <2>1, <3>1, <3>2
  <2>3. CASE cwr < crd
    <3>1. CardRing + cwr - crd = CardRing * 0 + x /\ x \in 0 .. CardRing - 1
      BY <1>3, <2>3 DEF x
    <3>2. (CardRing * 0 + x) % CardRing = x
      BY <2>5, <3>1
    <3>3. QED BY <2>1, <3>1, <3>2
  <2>4. QED BY <1>3, <2>2, <2>3
<1>7. ASSUME Arith!IsPowerOfTwo(n)
      PROVE  Arith!Free(n, rd, wr) + W(n, rd, wr) = n - 1
  <2> DEFINE w == W(n, rd, wr)
             f == (rd - wr + n - 1) % n
  <2>1. w = (wr - rd) % n
    BY <1>4, <1>7, MaskOfPowers, WalkIsDistance
  <2>2. (wr - rd) % n = IF wr >= rd THEN wr - rd ELSE wr - rd + n
    BY <1>5, RemainderOfDifference
  <2>3. Arith!Free(n, rd, wr) = f
    BY DEF Arith!Free
  <2> HIDE DEF w
  <2>4. f = n - 1 - w
    <3>1. n - 1 - w \in 0 .. n - 1
      BY <1>5, <2>1, <2>2
    <3>2. CASE wr >= rd
      <4>1. rd - wr + n - 1 = n * 0 + (n - 1 - w)
        BY <1>5, <2>1, <2>2, <3>2
      <4>2. (n * 0 + (n - 1 - w)) % n = n - 1 - w
        BY <1>5, <3>1, RestIsRemainder
      <4>3. QED BY <4>1, <4>2
    <3>3. CASE wr < rd
      <4>1. rd - wr + n - 1 = n * 1 + (n - 1 - w)
        BY <1>5, <2>1, <2>2, <3>3
      <4>2. (n * 1 + (n - 1 - w)) % n = n - 1 - w
        BY <1>5, <3>1, RestIsRemainder
      <4>3. QED BY <4>1, <4>2
    <3>4. QED BY <1>5, <3>2, <3>3
  <2> HIDE DEF f
  <2>5. f + w = n - 1
    BY <1>5, <2>1, <2>2, <2>4
  <2>6. QED BY <2>3, <2>5 DEF w
<1>8. Arith!Buffered(n, rd, wr, crd, cwr) = W(n, rd, wr) + ((cwr - crd) % CardRing)
  BY <1>6 DEF Arith!Buffered
<1>9. /\ shown'.what = "rings" /\ shown'.n = n /\ shown'.free = Arith!Free(n, rd, wr)
      /\ shown'.walked = W(n, rd, wr) /\ shown'.card = (cwr - crd) % CardRing
      /\ shown'.buffered = Arith!Buffered(n, rd, wr, crd, cwr)
  BY <1>2
<1> HIDE DEF W
<1>10. Arith!IsPowerOfTwo(shown'.n) => /\ shown'.free + shown'.walked = shown'.n - 1
                                       /\ shown'.buffered = shown'.walked + shown'.card
  BY <1>7, <1>8, <1>9
<1>11. QED BY <1>9, <1>10 DEF Arith!ArithmeticFits, Arith!ClockClose, Arith!BcsFits,
                              Arith!IsPowerOfTwo

\* The numbers are right, with what the clock needs.
ArithInv == ClockInv /\ Arith!ArithmeticFits

LEMMA ArithStarts == Arith!Init => ArithInv
<1> SUFFICES ASSUME Arith!Init PROVE ArithInv
  OBVIOUS
<1>1. /\ clock \in Arith!Clocks /\ call = Arith!None /\ torn = FALSE /\ shown = [what |-> "none"]
      /\ ops = 0
  BY DEF Arith!Init
<1>2. call \in Calling /\ call.at = "none"
  BY <1>1, NoneCalling
<1>3. Elapsed
  BY <1>2 DEF Elapsed
<1>4. shown.what = "none"
  BY <1>1
<1>5. Arith!ClockClose /\ Arith!ArithmeticFits
  BY <1>4 DEF Arith!ClockClose, Arith!ArithmeticFits, Arith!BcsFits
<1>6. QED BY <1>1, <1>2, <1>3, <1>5 DEF ArithInv, ClockInv

\* A computation is made before any call.
LEMMA ComputeKeeps ==
  ASSUME ClockInv, NEW result, Arith!Compute(result), shown'.what # "clock"
  PROVE  ClockInv'
<1>1. ops = 0 /\ ops' = MaxSteps /\ clock' = clock /\ call' = call /\ torn' = torn
  BY DEF Arith!Compute
<1>2. MaxSteps \in Nat
  BY ArithConstants DEF ArithConstants, Arith!ArithAssumption
<1>3. call.at = "none"
  BY <1>1 DEF ClockInv
<1>4. Elapsed'
  BY <1>1, <1>3 DEF Elapsed
<1>5. Arith!ClockClose'
  BY DEF Arith!ClockClose
<1>6. torn' \in BOOLEAN
  BY <1>1 DEF ClockInv
<1>7. clock' \in Arith!Clocks /\ call' \in Calling
  BY <1>1 DEF ClockInv
<1>8. QED BY <1>1, <1>2, <1>3, <1>4, <1>5, <1>6, <1>7 DEF ClockInv

\* Each step of the part keeps the invariant.
LEMMA ArithStep ==
  ASSUME ArithInv, Arith!Next
  PROVE  ArithInv'
<1>1. ASSUME ClockInv', shown' = shown \/ shown'.what \in {"none", "clock"}
      PROVE  ArithInv'
  <2>1. Arith!ClockClose'
    BY <1>1 DEF ClockInv
  <2>2. CASE shown' = shown
    BY <1>1, <2>1, <2>2 DEF ArithInv, Arith!ArithmeticFits, Arith!BcsFits
  <2>3. CASE shown'.what \in {"none", "clock"}
    BY <1>1, <2>1, <2>3 DEF ArithInv, Arith!ArithmeticFits, Arith!BcsFits
  <2>4. QED BY <1>1, <2>2, <2>3
<1>2. CASE Arith!Tick
  <2>1. shown' = shown
    BY <1>2 DEF Arith!Tick
  <2>2. QED BY <1>1, <1>2, <2>1, TickKeeps DEF ArithInv
<1>3. CASE Arith!ReadLo \/ Arith!ReadHi
  <2>1. shown' = shown
    BY <1>3 DEF Arith!ReadLo, Arith!ReadHi
  <2>2. QED BY <1>1, <1>3, <2>1, ReadsKeep DEF ArithInv
<1>4. CASE Arith!Test
  <2>1. shown' = shown \/ shown'.what = "clock"
    <3>1. CASE Arith!Off(call.what, call.read, call.val) > Tolerance[call.what]
      BY <1>4, <3>1 DEF Arith!Test
    <3>2. CASE ~(Arith!Off(call.what, call.read, call.val) > Tolerance[call.what])
      <4>1. shown' = [what |-> "clock", ioctl |-> call.what, set |-> FALSE,
                      val |-> call.val, late |-> call.late, torn |-> torn]
        BY <1>4, <3>2 DEF Arith!Test
      <4>2. shown'.what = "clock"
        BY ONLY <4>1, Zenon
      <4>3. QED BY <4>2
    <3>3. QED BY <3>1, <3>2
  <2>2. QED BY <1>1, <1>4, <2>1, TestKeeps DEF ArithInv
<1>5. CASE Arith!WriteLo \/ Arith!WriteHi
  <2>1. shown' = shown \/ shown'.what = "clock"
    <3>1. CASE Arith!WriteLo
      BY <3>1 DEF Arith!WriteLo
    <3>2. CASE Arith!WriteHi
      <4>1. shown' = [what |-> "clock", ioctl |-> call.what, set |-> TRUE,
                      val |-> call.val, late |-> call.late, torn |-> torn]
        BY <3>2 DEF Arith!WriteHi
      <4>2. shown'.what = "clock"
        BY ONLY <4>1, Zenon
      <4>3. QED BY <4>2
    <3>3. QED BY <1>5, <3>1, <3>2
  <2>2. QED BY <1>1, <1>5, <2>1, WritesKeep DEF ArithInv
<1>6. ASSUME NEW what \in DOMAIN Tolerance, NEW v \in Arith!Clocks, Arith!Ask(what, v)
      PROVE  ArithInv'
  <2>1. shown'.what = "none"
    BY <1>6 DEF Arith!Ask
  <2>2. QED BY <1>1, <1>6, <2>1, AskKeeps DEF ArithInv
<1>7. ASSUME Arith!Bcs \/ Arith!Kmin \/ Arith!Pts \/ Arith!Speed \/ Arith!Rings
      PROVE  ArithInv'
  <2>1. Arith!ArithmeticFits' /\ shown'.what # "clock"
    BY <1>7, BcsFit, KminFits, PtsFits, SpeedFits, RingsFit
  <2>2. \E result : Arith!Compute(result)
    <3>1. CASE Arith!Bcs
      BY <3>1, Zenon DEF Arith!Bcs
    <3>2. CASE Arith!Kmin
      BY <3>2, SMT DEF Arith!Kmin
    <3>3. CASE Arith!Pts
      BY <3>3, Zenon DEF Arith!Pts
    <3>4. CASE Arith!Speed
      BY <3>4, Zenon DEF Arith!Speed
    <3>5. CASE Arith!Rings
      <4>1. \E n \in Slots : \E result : Arith!Compute(result)
        BY <3>5, Zenon DEF Arith!Rings
      <4>2. QED BY <4>1, Zenon
    <3>6. QED BY <1>7, <3>1, <3>2, <3>3, <3>4, <3>5
  <2>3. ClockInv'
    BY <2>1, <2>2, ComputeKeeps DEF ArithInv
  <2>4. QED BY <2>1, <2>3 DEF ArithInv
<1>8. QED BY <1>2, <1>3, <1>4, <1>5, <1>6, <1>7 DEF Arith!Next

\* The part of the numbers of a step of the whole.
LEMMA ArithPart == part = "arith" /\ [Next]_vars => [Arith!Next]_arithVars /\ part' = part
<1> SUFFICES ASSUME part = "arith", [Next]_vars
             PROVE  (Arith!Next \/ UNCHANGED arithVars) /\ part' = part
  OBVIOUS
<1>1. CASE Next
  BY <1>1 DEF Next
<1>2. CASE UNCHANGED vars
  BY <1>2 DEF vars, arithVars, shared, arith
<1>3. QED
  BY <1>1, <1>2

\* What is computed for registers and from them is right, for a clock of any even base,
\* any times, rates and rings and any settings that the ioctl takes: the clock ends up as
\* near to the time asked for as the tolerance and the time of the call allow, and the
\* picture bytes grow and fit for a contrast of 0 to 1000 and products that fit an int.
THEOREM NumbersFit == Spec => []ArithmeticFits
<1>1. Init => (part = "arith" => ArithInv)
  BY ArithStarts DEF Init
<1>2. (part = "arith" => ArithInv) /\ [Next]_vars => (part = "arith" => ArithInv)'
  <2> SUFFICES ASSUME part = "arith" => ArithInv, [Next]_vars, part' = "arith"
               PROVE  ArithInv'
    OBVIOUS
  <2>1. part' = part
    BY DEF Next, vars
  <2>2. Arith!Next \/ UNCHANGED arithVars
    BY <2>1, ArithPart
  <2>3. CASE UNCHANGED arithVars
    <3>1. /\ clock' = clock /\ call' = call /\ torn' = torn /\ shown' = shown /\ ops' = ops
          /\ ArithInv
      BY <2>1, <2>3 DEF arithVars
    <3>2. Elapsed' = Elapsed
      BY <3>1 DEF Elapsed
    <3>3. Arith!ClockClose' = Arith!ClockClose
      BY <3>1 DEF Arith!ClockClose, Arith!Distance
    <3>4. ClockInv'
      BY <3>1, <3>2, <3>3 DEF ArithInv, ClockInv
    <3>5. Arith!ArithmeticFits'
      BY <3>1, <3>3 DEF ArithInv, Arith!ArithmeticFits, Arith!BcsFits
    <3>6. QED BY <3>4, <3>5 DEF ArithInv
  <2>4. QED BY <2>1, <2>2, <2>3, ArithStep
<1>3. (part = "arith" => ArithInv) => ArithmeticFits
  BY DEF ArithInv, ArithmeticFits
<1>4. QED BY <1>1, <1>2, <1>3, PTL DEF Spec
==============================================================================
