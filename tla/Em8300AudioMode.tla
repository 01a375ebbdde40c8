---------------------------- MODULE Em8300AudioMode ----------------------------
(***************************************************************************)
(* The audio part of a card as its two drivers set it up: audio mode, rate, *)
(* channels and sample format (em8300_audio.c, the open and prepare of      *)
(* em8300_alsa.c), and what a write of the OSS device puts into a slot.     *)
(*                                                                          *)
(* The ioctls exclude one another (em->ioctl_lock) and are steps.  Opening  *)
(* the dsp device, which is outside of that lock, is three: the claim, the  *)
(* rate, the mode.  A write is two, because the length it takes from the    *)
(* user and the copy of it look at the settings separately.                 *)
(***************************************************************************)
EXTENDS Integers, Sequences

CONSTANTS
  Speeds,       \* rates asked for, in Hz
  Lengths,      \* lengths of the writes, in frames
  BlockFrames,  \* frames of an IEC 958 block, 192
  MaxSettings   \* bound on opens and ioctls

\* What the constants must satisfy.
AudioAssumption ==
  /\ Speeds \subseteq Nat /\ Lengths \subseteq Nat \ {0}
  /\ BlockFrames \in Nat \ {0} /\ MaxSettings \in Nat

VARIABLES
  em,        \* the audio fields of struct em8300_s and of the FIFO
  hw,        \* clock generator, EM8300_AUDIO_RATE and the last MA_Command
  status,    \* the channel status block and the position in it
  opening,   \* how far the open of the dsp device is: "no", "claimed", "rated"
  write,     \* the write under way, a set of at most one record
  slot,      \* the slot written last, a set of at most one record
  reloaded,  \* the microcode was loaded again since the dsp device was opened
  settings   \* opens and ioctls made

vars == <<em, hw, status, opening, write, slot, reloaded, settings>>

Modes == {"ANALOG", "DIGITALPCM", "DIGITALAC3"}
Formats == {"S16_LE", "S16_BE", "AC3", "OTHER"}

-------------------------------------------------------------------------------
(* The functions the handlers share, on records e of em and h of hw. *)

setup_mafifo(e) ==
  [e EXCEPT !.ratio = (IF e.channels = 2 THEN 1 ELSE 2)
                        * (IF e.audio_mode = "ANALOG" THEN 1 ELSE 2),
            !.cb = IF e.audio_mode = "ANALOG" THEN "analog" ELSE "digital"]

Known(speed) == IF speed \in {32000, 44100, 48000, 66000} THEN speed ELSE 48000

\* What set_audiomode does to the card for the OSS driver; for any other it
\* stores the mode and returns.
Out(mode) == IF mode = "ANALOG" THEN "analog" ELSE "digital"

ModeStored(e, mode) ==
  [e EXCEPT !.audio_mode = mode,
            !.pcm_mode = IF e.style = "OSS" /\ mode # "DIGITALAC3" THEN mode ELSE @]

ModeShown(h, mode) == [h EXCEPT !.out = Out(mode), !.rate = Out(mode)]

\* The status block tells the rate at that time; 66000 Hz has no code and gets
\* that of 44100.  Preparing a block of silence for a digital mode advances the
\* position by 192 frames, which is a whole block.
StatusOf(e, mode) ==
  [ac3 |-> mode = "DIGITALAC3",
   rate |-> IF e.speed \in {32000, 48000} THEN e.speed ELSE 44100,
   pos |-> 0]

-------------------------------------------------------------------------------
(* Settings: how an ioctl or an open changes em, hw and status. *)

Counted == settings < MaxSettings /\ settings' = settings + 1

\* A write between its two steps notices a change of what it has looked at.
Torn(e) ==
  write' = {[w EXCEPT !.torn = @ \/ <<e.ratio, e.cb, e.format, e.channels>>
                                     # <<em.ratio, em.cb, em.format, em.channels>>]
              : w \in write}

\* What set_audiomode does to the card, and with it followed by setup_mafifo,
\* starting from the settings e and h.
CardFollows(e, h, mode) ==
  /\ hw' = IF e.style = "OSS" THEN ModeShown(h, mode) ELSE h
  /\ status' = IF e.style = "OSS" THEN StatusOf(e, mode) ELSE status

SetAudiomode(e, h, mode) ==
  em' = setup_mafifo(ModeStored(e, mode)) /\ CardFollows(e, h, mode)

DspOpen == em.style = "OSS" /\ opening = "no"

SetSpeed(s) ==
  /\ DspOpen /\ Counted
  /\ em' = [em EXCEPT !.speed = Known(s)]
  /\ hw' = [hw EXCEPT !.freq = Known(s)]
  /\ UNCHANGED <<status, opening, write, slot, reloaded>>

SetChannels(n) ==
  /\ DspOpen /\ Counted
  /\ em' = setup_mafifo([em EXCEPT !.channels = n])
  /\ Torn(em')
  /\ UNCHANGED <<hw, status, opening, slot, reloaded>>

\* em with the format f; an unknown one leaves the format in em->audio as it was.
FormatStored(f) == [em EXCEPT !.format = IF f = "OTHER" THEN @ ELSE f]

\* Variant: leaving AC3 does not choose the preparation of the samples anew.
SetFormatBare(f) ==
  /\ DspOpen /\ Counted
  /\ em.audio_mode = "DIGITALAC3" /\ f # "AC3"
  /\ em' = ModeStored(FormatStored(f), em.pcm_mode)
  /\ CardFollows(FormatStored(f), hw, em.pcm_mode)
  /\ Torn(em')
  /\ UNCHANGED <<opening, slot, reloaded>>

\* The steps into AC3 mode, at 48 kHz, and out of it.
EnterAC3(f) ==
  /\ f = "AC3" /\ em.audio_mode # "DIGITALAC3"
  /\ SetAudiomode([FormatStored(f) EXCEPT !.speed = 48000],
                  [hw EXCEPT !.freq = 48000], "DIGITALAC3")
LeaveAC3(f) ==
  /\ f # "AC3" /\ em.audio_mode = "DIGITALAC3"
  /\ SetAudiomode(FormatStored(f), hw, em.pcm_mode)

\* An unknown format leaves AC3 mode as the 16-bit formats do.
SetFormat(f) ==
  /\ DspOpen /\ Counted
  /\ \/ EnterAC3(f) \/ LeaveAC3(f)
     \/ /\ f = "AC3" <=> em.audio_mode = "DIGITALAC3"
        /\ em' = FormatStored(f) /\ UNCHANGED <<hw, status>>
  /\ Torn(em')
  /\ UNCHANGED <<opening, slot, reloaded>>

\* EM8300_IOCTL_SET_AUDIOMODE of the control device, whoever has the audio part.
em8300_ioctl_setaudiomode(m) ==
  /\ Counted
  /\ SetAudiomode(em, [hw EXCEPT !.command = IF em.style = "OSS" THEN "PLAY" ELSE @],
                  m)
  /\ Torn(em')
  /\ UNCHANGED <<opening, slot, reloaded>>

\* The part of EM8300_IOCTL_INIT that is em8300_audio_setup: the settings go back
\* to their defaults, and the clock generator is left alone.
em8300_audio_setup ==
  /\ Counted
  /\ em' = setup_mafifo([em EXCEPT !.channels = 2, !.format = "S16_LE",
                                   !.speed = 48000, !.audio_mode = "ANALOG"])
  /\ hw' = [hw EXCEPT !.command = "PAUSE"]
  /\ reloaded' = TRUE
  /\ Torn(em')
  /\ UNCHANGED <<status, opening, slot>>

-------------------------------------------------------------------------------
(* Opening and closing. *)

\* The open of the dsp device: em8300_io_open claims the audio part, and
\* em8300_audio_open sets rate and mode and starts the FIFO.
OpenClaim ==
  /\ em.style = "NONE" /\ Counted
  /\ em' = [em EXCEPT !.style = "OSS"]
  /\ opening' = "claimed" /\ reloaded' = FALSE
  /\ UNCHANGED <<hw, status, write, slot>>

OpenRate ==
  /\ opening = "claimed"
  /\ em' = [em EXCEPT !.speed = Known(@)]
  /\ hw' = [hw EXCEPT !.freq = Known(em.speed)]
  /\ opening' = "rated"
  /\ UNCHANGED <<status, write, slot, reloaded, settings>>

OpenMode ==
  /\ opening = "rated"
  /\ em' = ModeStored(em, em.audio_mode)
  /\ CardFollows(em, [hw EXCEPT !.command = "PLAY"], em.audio_mode)
  /\ opening' = "no"
  /\ UNCHANGED <<write, slot, reloaded, settings>>

Release ==
  /\ DspOpen /\ write = {}
  /\ em' = [em EXCEPT !.style = "NONE"]
  /\ hw' = [hw EXCEPT !.command = "STOP"]
  /\ UNCHANGED <<status, opening, write, slot, reloaded, settings>>

\* snd_em8300_playback_open of the analog or the digital device: the card is set
\* up for it, and em->audio_mode does not change.
AlsaOpen(device) ==
  /\ em.style = "NONE" /\ Counted
  /\ em' = [em EXCEPT !.style = "ALSA"]
  /\ hw' = [hw EXCEPT !.out = device, !.rate = device]
  /\ UNCHANGED <<status, opening, write, slot, reloaded>>

\* snd_em8300_pcm_prepare; em->audio.speed does not change.
AlsaPrepare(s) ==
  /\ em.style = "ALSA" /\ Counted
  /\ s \in {32000, 44100, 48000}
  /\ hw' = [hw EXCEPT !.freq = s]
  /\ UNCHANGED <<em, status, opening, write, slot, reloaded>>

AlsaClose ==
  /\ em.style = "ALSA"
  /\ em' = [em EXCEPT !.style = "NONE"]
  /\ UNCHANGED <<hw, status, opening, write, slot, reloaded, settings>>

-------------------------------------------------------------------------------
(* Writing. *)

\* The sound of n frames and the bytes that are handed over for it; a byte is the
\* half of a sample.
Byte(sample, half) == [of |-> sample, half |-> half]
Bytes(sample, format) ==
  IF format = "S16_BE" THEN <<Byte(sample, "hi"), Byte(sample, "lo")>>
  ELSE <<Byte(sample, "lo"), Byte(sample, "hi")>>

FrameBytes(i, format, channels) ==
  IF channels = 2
  THEN Bytes([frame |-> i, ch |-> "L"], format) \o Bytes([frame |-> i, ch |-> "R"], format)
  ELSE Bytes([frame |-> i, ch |-> "L"], format)

\* Variant: the mono samples of one byte order are taken for the other.
OrderAnalogMono(format, channels) ==
  CASE format = "S16_LE" /\ channels = 2 -> <<4, 3, 2, 1>>
    [] format # "S16_LE" /\ channels = 2 -> <<3, 4, 1, 2>>
    [] OTHER                             -> <<2, 1, 2, 1>>

\* The byte of the frame that each of the four bytes of a prepared frame is copied
\* from.  AC3 data is bytes in pairs, as little-endian samples are; for the analog
\* output everything that is not little-endian is taken for big-endian.
OrderAnalog(format, channels) ==
  CASE format = "S16_LE" /\ channels = 2 -> <<4, 3, 2, 1>>
    [] format = "S16_LE" /\ channels = 1 -> <<2, 1, 2, 1>>
    [] format # "S16_LE" /\ channels = 2 -> <<3, 4, 1, 2>>
    [] format # "S16_LE" /\ channels = 1 -> <<1, 2, 1, 2>>

OrderDigital(format, channels) ==
  CASE format # "S16_BE" /\ channels = 2 -> <<2, 1, 4, 3>>
    [] format # "S16_BE" /\ channels = 1 -> <<2, 1, 2, 1>>
    [] format = "S16_BE" /\ channels = 2 -> <<1, 2, 3, 4>>
    [] format = "S16_BE" /\ channels = 1 -> <<1, 2, 1, 2>>

\* Frame f, four bytes in the order `order`.
Reordered(f, order) == [p \in 1 .. 4 |-> f[order[p]]]

\* sub_prepare_SPDIF: two words for each frame, the first with the preamble B at
\* the start of a block and M elsewhere, the second with W.  (The bit of the
\* status block that both carry is left out.)
sub_prepare_SPDIF(f, pos) ==
  << [preamble |-> IF pos % BlockFrames = 0 THEN "B" ELSE "M", hi |-> f[1], lo |-> f[2]],
     [preamble |-> "W", hi |-> f[3], lo |-> f[4]] >>

Prepared(frames, format, channels, cb, pos) ==
  [i \in 1 .. Len(frames) |->
     IF cb = "analog" THEN Reordered(frames[i], OrderAnalog(format, channels))
     ELSE sub_prepare_SPDIF(Reordered(frames[i], OrderDigital(format, channels)),
                            pos + i - 1)]

\* A pass of em8300_fifo_write, first the length of the slot, n frames multiplied
\* by the ratio, then the copy by preprocess_cb.  (What the copy makes of frames
\* of another format than they were written in is not followed, only how much it
\* puts into the slot.)
WriteBegin(n) ==
  /\ DspOpen /\ write = {}
  /\ write' = {[frames |-> n, ratio |-> em.ratio, format |-> em.format,
                channels |-> em.channels, torn |-> FALSE]}
  /\ UNCHANGED <<em, hw, status, opening, slot, reloaded, settings>>

\* The slot that the copy of w fills.
Filled(w) ==
  LET frames == [i \in 1 .. w.frames |-> FrameBytes(i, w.format, w.channels)]
      bytes == 2 * w.channels * w.frames
  IN  [frames |-> w.frames, format |-> w.format, channels |-> w.channels,
       cb |-> em.cb, torn |-> w.torn,
       length |-> w.ratio * bytes, copied |-> em.ratio * bytes,
       out |-> IF w.torn THEN << >>
               ELSE Prepared(frames, em.format, em.channels, em.cb, status.pos)]

WriteCopy ==
  \E w \in write :
    /\ slot' = {Filled(w)}
    /\ status' = [status EXCEPT !.pos = IF em.cb = "analog" THEN @
                                        ELSE (@ + w.frames) % BlockFrames]
    /\ write' = {}
    /\ UNCHANGED <<em, hw, opening, reloaded, settings>>

-------------------------------------------------------------------------------
(* The specification. *)

\* After em8300_audio_setup; the clock generator is as em8300_init left it, with
\* no output and the rate bits of 32000 Hz.
Init ==
  /\ em = [style |-> "NONE", audio_mode |-> "ANALOG", pcm_mode |-> "ANALOG",
           speed |-> 48000, channels |-> 2, format |-> "S16_LE",
           ratio |-> 1, cb |-> "analog"]
  /\ hw = [freq |-> 32000, out |-> "none", rate |-> "none", command |-> "PAUSE"]
  /\ status = [ac3 |-> FALSE, rate |-> 44100, pos |-> 0]
  /\ opening = "no" /\ write = {} /\ slot = {} /\ reloaded = FALSE /\ settings = 0

Next ==
  \/ \E s \in Speeds : SetSpeed(s) \/ AlsaPrepare(s)
  \/ \E n \in {1, 2} : SetChannels(n)
  \/ \E f \in Formats : SetFormat(f)
  \/ \E m \in Modes : em8300_ioctl_setaudiomode(m)
  \/ em8300_audio_setup
  \/ OpenClaim \/ OpenRate \/ OpenMode \/ Release
  \/ \E d \in {"analog", "digital"} : AlsaOpen(d)
  \/ AlsaClose
  \/ \E n \in Lengths : WriteBegin(n)
  \/ WriteCopy

Spec == Init /\ [][Next]_vars

-------------------------------------------------------------------------------
(* Properties. *)

\* While a process has the dsp device open, the clock generator, the audio rate
\* register and the preparation of the samples fit the audio mode and the number
\* of channels, and the mode to return to from AC3 is the PCM mode that is set,
\* whatever the control device and the ALSA driver did before or meanwhile, unless
\* the microcode has been loaded again.
AudioAgrees ==
  DspOpen /\ ~reloaded =>
    /\ hw.freq = em.speed
    /\ hw.out = Out(em.audio_mode) /\ hw.rate = Out(em.audio_mode)
    /\ em = setup_mafifo(em)
    /\ em.audio_mode # "DIGITALAC3" => em.pcm_mode = em.audio_mode
    /\ status.ac3 = (em.audio_mode = "DIGITALAC3")

\* What the card plays of frame i of slot s: the analog output takes the right
\* sample first, a digital one the left.
Played(s, i) ==
  IF s.cb = "analog"
  THEN [L |-> <<s.out[i][3], s.out[i][4]>>, R |-> <<s.out[i][1], s.out[i][2]>>]
  ELSE [L |-> <<s.out[i][1].hi, s.out[i][1].lo>>, R |-> <<s.out[i][2].hi, s.out[i][2].lo>>]

\* Every frame of a slot sounds as the user meant it, whatever byte order, number
\* of channels and mode, and the length given to the card is that of the prepared
\* frames, except for AC3 data in an analog mode, and for a write whose settings
\* changed between its two steps.
SamplesKept ==
  \A s \in slot :
    ~s.torn /\ ~(s.format = "AC3" /\ s.cb = "analog") =>
      /\ \A i \in 1 .. s.frames :
           LET sample(ch) ==
                 LET b == [frame |-> i, ch |-> IF s.channels = 2 THEN ch ELSE "L"]
                 IN  <<Byte(b, "hi"), Byte(b, "lo")>>
           IN  Played(s, i) = [L |-> sample("L"), R |-> sample("R")]
      /\ s.length = s.frames * (IF s.cb = "analog" THEN 4 ELSE 8)
      /\ s.copied = s.length
===============================================================================
