--------------------------- MODULE Em8300AudioProofs ---------------------------
(***************************************************************************)
(* Proofs about the audio path and the interrupts, as MCAudio puts them     *)
(* side by side: a step of one part leaves the variables of the others      *)
(* alone, so that the invariant of a part is kept by the steps of that part  *)
(* and by standing still.  The last part is about the playback of the ALSA  *)
(* driver (Em8300Indirect): what the driver tells ALSA of the card's        *)
(* progress, and what the slots of the ring hold.                           *)
(***************************************************************************)
EXTENDS MCAudio, Em8300Lemmas, SequenceTheorems, TLAPS

-------------------------------------------------------------------------------
(* The interrupt mask (Em8300Irq). *)

IrqTypeInv ==
  /\ handler.at \in {"idle", "serve", "restore"}
  /\ handler = [at |-> handler.at, causes |-> handler.causes, value |-> handler.value]
  /\ at \in [Irq!Procs -> {"idle", "store", "load", "write", "wait"}]
  /\ loaded \in [Irq!Procs -> SUBSET {"VIDEO_FIFO", "AUDIO_FIFO", Irq!VBL}]
  /\ irqmask \subseteq {"VIDEO_FIFO", "AUDIO_FIFO", Irq!VBL}
  /\ open \subseteq {"video", "audio"}
  /\ irqcount \in BOOLEAN /\ overlapped \in BOOLEAN /\ disturbed \in BOOLEAN
  /\ timedOut \in BOOLEAN

\* The mask enables the interrupts of the started subdevices.
Fits ==
  \A p \in {"video", "audio"} :
    IF p \in open THEN Irq!Bits(p) \subseteq irqmask
    ELSE (Irq!Bits(p) \ {Irq!VBL}) \cap irqmask = {}

\* As long as no two changes have overlapped, at most one is under way, the mask
\* fits at every step of it, and what it is about to store is made from the mask
\* as it is.
MaskInv ==
  ~overlapped =>
    /\ \A p, q \in Irq!Procs : p \in Irq!Between /\ q \in Irq!Between => p = q
    /\ Fits
    /\ \A p \in Irq!Procs : at[p] = "store" => loaded[p] = Irq!Changed(p)

\* As long as nothing has disturbed a VBI ioctl, it is alone until its bit is in
\* the register; from then on the bit is in whatever will be written to the mask
\* or to the register: by the handler, or by a change that began after it.
VbiInv ==
  ~disturbed =>
    /\ ~timedOut
    /\ at["vbi"] \in {"store", "load", "write"} => Irq!Between = {"vbi"}
    /\ at["vbi"] \in {"store", "write"} => Irq!VBL \in loaded["vbi"]
    /\ at["vbi"] \in {"load", "write", "wait"} =>
         /\ Irq!VBL \in irqmask
         /\ handler.at = "restore" => Irq!VBL \in handler.value
         /\ \A p \in Irq!Procs : at[p] \in {"store", "write"} => Irq!VBL \in loaded[p]
    /\ at["vbi"] = "wait" => (handler.at = "idle" => Irq!VBL \in register)

IrqInv == IrqTypeInv /\ MaskInv /\ VbiInv

\* Steps of the interrupt part, and standing still.
LEMMA IrqTypes == IrqTypeInv /\ [Irq!Next]_irqVars => IrqTypeInv'
<1> SUFFICES ASSUME IrqTypeInv, [Irq!Next]_irqVars PROVE IrqTypeInv'
  OBVIOUS
<1> USE DEF IrqTypeInv, Irq!Procs
<1>1. ASSUME NEW causes, Irq!em8300_irq(causes) PROVE IrqTypeInv'
  BY <1>1 DEF Irq!em8300_irq
<1>2. CASE Irq!Serve
  BY <1>2 DEF Irq!Serve
<1>3. CASE Irq!Restore
  BY <1>3 DEF Irq!Restore
<1>4. ASSUME NEW p \in Irq!Procs, Irq!Begin(p) PROVE IrqTypeInv'
  <2>1. Irq!Changed(p) \subseteq {"VIDEO_FIFO", "AUDIO_FIFO", Irq!VBL}
    BY DEF Irq!Changed, Irq!Bits
  <2>2. QED BY <1>4, <2>1 DEF Irq!Begin
<1>5. ASSUME NEW p \in Irq!Procs, Irq!Store(p) PROVE IrqTypeInv'
  BY <1>5 DEF Irq!Store
<1>6. ASSUME NEW p \in Irq!Procs, Irq!Load(p) PROVE IrqTypeInv'
  BY <1>6 DEF Irq!Load
<1>7. ASSUME NEW p \in Irq!Procs, Irq!Write(p) PROVE IrqTypeInv'
  BY <1>7 DEF Irq!Write
<1>8. CASE Irq!WaitEnds
  BY <1>8 DEF Irq!WaitEnds
<1>9. CASE Irq!em8300_video_setup
  BY <1>9 DEF Irq!em8300_video_setup
<1>10. CASE UNCHANGED irqVars
  BY <1>10 DEF irqVars
<1>11. QED
  BY <1>1, <1>2, <1>3, <1>4, <1>5, <1>6, <1>7, <1>8, <1>9, <1>10
  DEF Irq!Next, Irq!Changing

\* A step that changes neither the mask nor who is about to change it.
LEMMA SameMask ==
  ASSUME MaskInv, irqmask' = irqmask, open' = open, overlapped' = overlapped,
         \A p \in Irq!Procs : p \in Irq!Between' => p \in Irq!Between,
         \A p \in Irq!Procs : at'[p] = "store" => at[p] = "store" /\ loaded'[p] = loaded[p]
  PROVE  MaskInv'
BY DEF MaskInv, Fits, Irq!Changed

\* Changes that do not overlap leave the mask fitting.
LEMMA MaskStays == IrqTypeInv /\ MaskInv /\ [Irq!Next]_irqVars => MaskInv'
<1> SUFFICES ASSUME IrqTypeInv, MaskInv, [Irq!Next]_irqVars PROVE MaskInv'
  OBVIOUS
<1> USE DEF Irq!Between
<1>1. ASSUME NEW causes,
             Irq!em8300_irq(causes) \/ Irq!Serve \/ Irq!Restore \/ Irq!em8300_video_setup
      PROVE MaskInv'
  BY <1>1, SameMask DEF Irq!em8300_irq, Irq!Serve, Irq!Restore, Irq!em8300_video_setup
<1>2. ASSUME NEW p \in Irq!Procs, Irq!Begin(p) PROVE MaskInv'
  <2> SUFFICES ASSUME ~overlapped' PROVE MaskInv'
    BY DEF MaskInv
  <2>1. ~overlapped /\ Irq!Between = {}
    BY <1>2 DEF Irq!Begin, IrqTypeInv
  <2>2. /\ irqmask' = irqmask /\ open' = open
        /\ at' = [at EXCEPT ![p] = "store"]
        /\ loaded' = [loaded EXCEPT ![p] = Irq!Changed(p)]
    BY <1>2 DEF Irq!Begin
  <2>3. \A q \in Irq!Procs : q \in Irq!Between' => q = p
    BY <2>1, <2>2 DEF IrqTypeInv
  <2>4. Fits'
    BY <2>1, <2>2 DEF MaskInv, Fits
  <2>5. \A q \in Irq!Procs : at'[q] = "store" => loaded'[q] = Irq!Changed(q)'
    BY <2>1, <2>2 DEF IrqTypeInv, Irq!Changed
  <2>6. QED BY <2>3, <2>4, <2>5 DEF MaskInv
<1>3. ASSUME NEW p \in Irq!Procs, Irq!Store(p) PROVE MaskInv'
  <2> SUFFICES ASSUME ~overlapped' PROVE MaskInv'
    BY DEF MaskInv
  <2>1. /\ ~overlapped /\ at[p] = "store"
        /\ irqmask' = loaded[p]
        /\ open' = IF p = "vbi" THEN open
                   ELSE IF p \in open THEN open \ {p} ELSE open \cup {p}
        /\ at' = [at EXCEPT ![p] = "load"]
        /\ loaded' = loaded
    BY <1>3 DEF Irq!Store
  <2>2. Fits /\ loaded[p] = Irq!Changed(p)
        /\ \A q \in Irq!Procs : q \in Irq!Between => q = p
    BY <2>1 DEF MaskInv
  <2>3. Fits'
    BY <2>1, <2>2 DEF Fits, Irq!Changed, Irq!Bits, Irq!VBL, Irq!Procs, IrqTypeInv
  <2>4. \A q \in Irq!Procs : at'[q] # "store" /\ (q \in Irq!Between' => q = p)
    BY <2>1, <2>2 DEF IrqTypeInv
  <2>5. QED BY <2>3, <2>4 DEF MaskInv
<1>4. ASSUME NEW p \in Irq!Procs, Irq!Load(p) \/ Irq!Write(p) PROVE MaskInv'
  BY <1>4, SameMask DEF Irq!Load, Irq!Write, IrqTypeInv
<1>5. CASE Irq!WaitEnds
  BY <1>5, SameMask DEF Irq!WaitEnds, IrqTypeInv, Irq!Procs
<1>6. CASE UNCHANGED irqVars
  BY <1>6, SameMask DEF irqVars
<1>7. QED
  BY <1>1, <1>2, <1>3, <1>4, <1>5, <1>6 DEF Irq!Next, Irq!Changing

\* The bit of an undisturbed VBI ioctl stays in everything that is to be written.
LEMMA VbiStays == IrqTypeInv /\ VbiInv /\ [Irq!Next]_irqVars => VbiInv'
<1> SUFFICES ASSUME IrqTypeInv, VbiInv, [Irq!Next]_irqVars, ~disturbed' PROVE VbiInv'
  BY DEF VbiInv
<1> USE DEF VbiInv, IrqTypeInv, Irq!Between, Irq!Procs
<1>1. ASSUME NEW causes, Irq!em8300_irq(causes) PROVE VbiInv'
  BY <1>1 DEF Irq!em8300_irq
<1>2. CASE Irq!Serve
  BY <1>2 DEF Irq!Serve
<1>3. CASE Irq!Restore
  BY <1>3 DEF Irq!Restore
<1>4. ASSUME NEW p \in Irq!Procs, Irq!Begin(p) PROVE VbiInv'
  <2>1. at[p] = "idle" /\ at' = [at EXCEPT ![p] = "store"]
        /\ loaded' = [loaded EXCEPT ![p] = Irq!Changed(p)]
        /\ UNCHANGED <<irqmask, register, handler, open>>
    BY <1>4 DEF Irq!Begin
  <2>2. CASE p = "vbi"
    <3>1. Irq!Between = {} /\ handler.at # "restore" /\ ~timedOut'
      BY <1>4, <2>2 DEF Irq!Begin
    <3>2. Irq!VBL \in Irq!Changed(p)
      BY <2>2 DEF Irq!Changed, Irq!Bits
    <3>3. QED BY <2>1, <2>2, <3>1, <3>2
  <2>3. CASE p # "vbi"
    <3>1. /\ ~disturbed /\ at["vbi"] \notin {"store", "load", "write"}
          /\ ~(p = "video" /\ p \in open) /\ timedOut' = timedOut
      BY <1>4, <2>3 DEF Irq!Begin
    <3>2. Irq!VBL \in irqmask => Irq!VBL \in Irq!Changed(p)
      BY <2>3, <3>1 DEF Irq!Changed, Irq!Bits, Irq!VBL
    <3>3. at'["vbi"] = at["vbi"]
      BY <2>1, <2>3
    <3>4. QED BY <2>1, <2>3, <3>1, <3>2, <3>3
  <2>4. QED BY <2>2, <2>3
<1>5. ASSUME NEW p \in Irq!Procs, Irq!Store(p) PROVE VbiInv'
  <2>1. /\ ~disturbed /\ at[p] = "store" /\ irqmask' = loaded[p]
        /\ at' = [at EXCEPT ![p] = "load"]
        /\ p = "vbi" => handler.at # "restore"
        /\ UNCHANGED <<register, handler, loaded, timedOut>>
    BY <1>5 DEF Irq!Store
  <2>2. CASE p = "vbi"
    BY <2>1, <2>2
  <2>3. CASE p # "vbi"
    <3>1. at["vbi"] \notin {"store", "load", "write"}
      BY <2>1, <2>3
    <3>2. QED BY <2>1, <2>3, <3>1
  <2>4. QED BY <2>2, <2>3
<1>6. ASSUME NEW p \in Irq!Procs, Irq!Load(p) PROVE VbiInv'
  <2>1. /\ ~disturbed /\ at[p] = "load" /\ loaded' = [loaded EXCEPT ![p] = irqmask]
        /\ at' = [at EXCEPT ![p] = "write"]
        /\ UNCHANGED <<irqmask, register, handler, timedOut>>
    BY <1>6 DEF Irq!Load
  <2>2. CASE p = "vbi"
    BY <2>1, <2>2
  <2>3. CASE p # "vbi"
    <3>1. at["vbi"] \notin {"store", "load", "write"}
      BY <2>1, <2>3
    <3>2. QED BY <2>1, <2>3, <3>1
  <2>4. QED BY <2>2, <2>3
<1>7. ASSUME NEW p \in Irq!Procs, Irq!Write(p) PROVE VbiInv'
  <2>1. /\ ~disturbed /\ at[p] = "write" /\ register' = loaded[p]
        /\ at' = [at EXCEPT ![p] = IF p = "vbi" THEN "wait" ELSE "idle"]
        /\ loaded' = [loaded EXCEPT ![p] = {}]
        /\ UNCHANGED <<irqmask, handler, timedOut>>
    BY <1>7 DEF Irq!Write
  <2>2. CASE p = "vbi"
    BY <2>1, <2>2
  <2>3. CASE p # "vbi"
    <3>1. at["vbi"] \notin {"store", "load", "write"}
      BY <2>1, <2>3
    <3>2. QED BY <2>1, <2>3, <3>1
  <2>4. QED BY <2>2, <2>3
<1>8. CASE Irq!WaitEnds
  <2>1. /\ ~disturbed /\ at["vbi"] = "wait" /\ at' = [at EXCEPT !["vbi"] = "idle"]
        /\ irqcount \/ (Irq!VBL \notin register /\ handler.at = "idle")
        /\ timedOut' = ~irqcount
        /\ UNCHANGED <<irqmask, register, handler, loaded>>
    BY <1>8 DEF Irq!WaitEnds
  <2>2. irqcount
    BY <2>1
  <2>3. QED BY <2>1, <2>2
<1>9. CASE Irq!em8300_video_setup
  BY <1>9 DEF Irq!em8300_video_setup
<1>10. CASE UNCHANGED irqVars
  BY <1>10 DEF irqVars
<1>11. QED
  BY <1>1, <1>2, <1>3, <1>4, <1>5, <1>6, <1>7, <1>8, <1>9, <1>10
  DEF Irq!Next, Irq!Changing

LEMMA IrqInvHolds == Spec => []IrqInv
<1>1. Init => IrqInv
  <2> SUFFICES ASSUME Irq!Init PROVE IrqInv
    BY DEF Init
  <2> USE DEF Irq!Init
  <2>1. IrqTypeInv
    BY DEF IrqTypeInv
  <2>2. MaskInv
    BY DEF MaskInv, Fits, Irq!Between
  <2>3. VbiInv
    BY DEF VbiInv, Irq!Procs
  <2>4. QED BY <2>1, <2>2, <2>3 DEF IrqInv
<1>2. IrqInv /\ [Next]_vars => IrqInv'
  <2>1. [Next]_vars => [Irq!Next]_irqVars
    BY DEF Next, vars
  <2>2. QED BY <2>1, IrqTypes, MaskStays, VbiStays DEF IrqInv
<1>3. QED BY <1>1, <1>2, PTL DEF Spec

\* However the starts and stops of the subdevices, the VBI ioctls, the interrupt
\* handler and the reloads interleave: as long as no two changes of em->irqmask
\* have overlapped, the mask enables the interrupts of the started subdevices, and
\* of no stopped one.
THEOREM MaskFitsOpen == Spec => []MaskFits
<1>1. IrqInv => MaskFits
  BY DEF IrqInv, MaskInv, Fits, MaskFits, Irq!MaskFits
<1>2. QED BY <1>1, IrqInvHolds, PTL

\* A VBI ioctl returns without a blanking interrupt only if something of a kind it
\* cannot prevent has come between: the release of the video device, a reload of
\* the microcode, another change of the mask, or the end of the handler
\* (EM8300_IOCTL_VBI in em8300_ioctl.c, em8300_irq).
THEOREM VbiIsAnswered == Spec => []VbiAnswered
<1>1. IrqInv => VbiAnswered
  BY DEF IrqInv, VbiInv, VbiAnswered, Irq!VbiAnswered
<1>2. QED BY <1>1, IrqInvHolds, PTL

-------------------------------------------------------------------------------
(* The settings of the audio part (Em8300AudioMode). *)

EmType ==
  [style : {"NONE", "OSS", "ALSA"}, audio_mode : Audio!Modes,
   pcm_mode : {"ANALOG", "DIGITALPCM"}, speed : Nat, channels : {1, 2},
   format : {"S16_LE", "S16_BE", "AC3"}, ratio : {1, 2, 4},
   cb : {"analog", "digital"}]
HwType ==
  [freq : Nat, out : {"none", "analog", "digital"}, rate : {"none", "analog", "digital"},
   command : {"PLAY", "PAUSE", "STOP"}]
WriteType ==
  [frames : Lengths, ratio : {1, 2, 4}, format : {"S16_LE", "S16_BE", "AC3"},
   channels : {1, 2}, torn : BOOLEAN]

AudioTypeInv ==
  /\ em \in EmType /\ hw \in HwType
  /\ status \in [ac3 : BOOLEAN, rate : Nat, pos : Nat]
  /\ opening \in {"no", "claimed", "rated"} /\ reloaded \in BOOLEAN
  /\ write \subseteq WriteType

\* What a mode set for the OSS driver leaves behind.
ModeSet ==
  /\ hw.out = Audio!Out(em.audio_mode) /\ hw.rate = Audio!Out(em.audio_mode)
  /\ em.audio_mode # "DIGITALAC3" => em.pcm_mode = em.audio_mode
  /\ status.ac3 = (em.audio_mode = "DIGITALAC3")

\* The multiplier and the preparation of the samples always fit; the rate does
\* from the second step of an open on, and the mode from the third.
SettingsInv ==
  /\ opening # "no" => em.style = "OSS"
  /\ em = Audio!setup_mafifo(em)
  /\ em.style = "OSS" /\ ~reloaded =>
       /\ opening # "claimed" => hw.freq = em.speed
       /\ opening = "no" => ModeSet

\* A write that no change has torn was begun with the settings as they are.
WriteInv ==
  \A w \in write :
    ~w.torn => w.ratio = em.ratio /\ w.format = em.format /\ w.channels = em.channels

AudioInv == AudioTypeInv /\ SettingsInv /\ WriteInv

\* setup_mafifo fixes the multiplier and the preparation, and nothing else.
LEMMA SetupFits ==
  ASSUME NEW e \in EmType
  PROVE  LET f == Audio!setup_mafifo(e)
         IN  /\ f \in EmType /\ f = Audio!setup_mafifo(f)
             /\ f.style = e.style /\ f.audio_mode = e.audio_mode
             /\ f.pcm_mode = e.pcm_mode /\ f.speed = e.speed
             /\ f.channels = e.channels /\ f.format = e.format
<1> DEFINE f == Audio!setup_mafifo(e)
           r == (IF e.channels = 2 THEN 1 ELSE 2)
                  * (IF e.audio_mode = "ANALOG" THEN 1 ELSE 2)
           c == IF e.audio_mode = "ANALOG" THEN "analog" ELSE "digital"
<1>1. r \in {1, 2, 4} /\ c \in {"analog", "digital"}
  OBVIOUS
<1>2. f = [e EXCEPT !.ratio = r, !.cb = c]
  BY DEF Audio!setup_mafifo
<1> HIDE DEF r, c
<1>3. /\ f \in EmType
      /\ f.style = e.style /\ f.audio_mode = e.audio_mode
      /\ f.pcm_mode = e.pcm_mode /\ f.speed = e.speed
      /\ f.channels = e.channels /\ f.format = e.format
      /\ f = [f EXCEPT !.ratio = r, !.cb = c]
  BY <1>1, <1>2 DEF EmType
<1>4. f = Audio!setup_mafifo(f)
  BY ONLY <1>3, Zenon DEF Audio!setup_mafifo, r, c
<1>5. QED BY <1>3, <1>4

\* A record that fits still fits when fields are changed that setup_mafifo does
\* not look at.
LEMMA StillFits ==
  ASSUME NEW e \in EmType, NEW f \in EmType, e = Audio!setup_mafifo(e),
         f.channels = e.channels, f.audio_mode = e.audio_mode,
         f.ratio = e.ratio, f.cb = e.cb
  PROVE  f = Audio!setup_mafifo(f)
<1> DEFINE r == (IF e.channels = 2 THEN 1 ELSE 2) * (IF e.audio_mode = "ANALOG" THEN 1 ELSE 2)
           c == IF e.audio_mode = "ANALOG" THEN "analog" ELSE "digital"
<1>1. e.ratio = r /\ e.cb = c
  <2>1. [e EXCEPT !.ratio = r, !.cb = c].ratio = r /\ [e EXCEPT !.ratio = r, !.cb = c].cb = c
    <3> HIDE DEF r, c
    <3>1. QED BY ONLY e \in EmType DEF EmType
  <2>2. QED BY <2>1 DEF Audio!setup_mafifo
<1>2. Audio!setup_mafifo(f) = [f EXCEPT !.ratio = r, !.cb = c]
  BY DEF Audio!setup_mafifo
<1> HIDE DEF r, c
<1>3. f = [f EXCEPT !.ratio = f.ratio, !.cb = f.cb]
  BY ONLY f \in EmType DEF EmType
<1>4. f.ratio = r /\ f.cb = c
  BY <1>1
<1>5. QED BY ONLY <1>2, <1>3, <1>4

\* A mode is stored in em, and the card follows for the OSS driver only.
LEMMA ModeIsStored ==
  ASSUME NEW e \in EmType, NEW mode \in Audio!Modes
  PROVE  LET f == Audio!ModeStored(e, mode)
         IN  /\ f \in EmType
             /\ f.style = e.style /\ f.speed = e.speed /\ f.channels = e.channels
             /\ f.format = e.format /\ f.ratio = e.ratio /\ f.cb = e.cb
             /\ f.audio_mode = mode
             /\ e.style = "OSS" /\ mode # "DIGITALAC3" => f.pcm_mode = mode
BY DEF EmType, Audio!ModeStored, Audio!Modes

LEMMA CardHasFollowed ==
  ASSUME AudioTypeInv, NEW e \in EmType, NEW h \in HwType, NEW mode \in Audio!Modes,
         Audio!CardFollows(e, h, mode)
  PROVE  /\ hw' \in HwType /\ hw'.freq = h.freq
         /\ status' \in [ac3 : BOOLEAN, rate : Nat, pos : Nat]
         /\ e.style = "OSS" =>
              /\ hw'.out = Audio!Out(mode) /\ hw'.rate = Audio!Out(mode)
              /\ status'.ac3 = (mode = "DIGITALAC3")
<1>1. /\ hw' = IF e.style = "OSS" THEN Audio!ModeShown(h, mode) ELSE h
      /\ status' = IF e.style = "OSS" THEN Audio!StatusOf(e, mode) ELSE status
  BY DEF Audio!CardFollows
<1>2. /\ hw' \in HwType /\ hw'.freq = h.freq
      /\ e.style = "OSS" =>
           hw'.out = Audio!Out(mode) /\ hw'.rate = Audio!Out(mode)
  BY <1>1 DEF HwType, Audio!ModeShown, Audio!Out
<1>3. /\ status' \in [ac3 : BOOLEAN, rate : Nat, pos : Nat]
      /\ e.style = "OSS" => status'.ac3 = (mode = "DIGITALAC3")
  BY <1>1 DEF AudioTypeInv, Audio!StatusOf, EmType
<1>4. QED BY <1>2, <1>3

LEMMA ModeIsSet ==
  ASSUME AudioTypeInv, NEW e \in EmType, NEW h \in HwType, NEW mode \in Audio!Modes,
         Audio!SetAudiomode(e, h, mode)
  PROVE  /\ em' \in EmType /\ hw' \in HwType
         /\ status' \in [ac3 : BOOLEAN, rate : Nat, pos : Nat]
         /\ em'.style = e.style /\ em'.speed = e.speed /\ hw'.freq = h.freq
         /\ em' = Audio!setup_mafifo(em')
         /\ e.style = "OSS" => ModeSet'
<1> DEFINE f == Audio!ModeStored(e, mode)
<1>1. /\ f \in EmType /\ f.style = e.style /\ f.speed = e.speed
      /\ f.audio_mode = mode
      /\ e.style = "OSS" /\ mode # "DIGITALAC3" => f.pcm_mode = mode
  BY ModeIsStored
<1>2. em' = Audio!setup_mafifo(f) /\ Audio!CardFollows(e, h, mode)
  BY DEF Audio!SetAudiomode
<1> HIDE DEF f
<1>3. /\ em' \in EmType /\ em' = Audio!setup_mafifo(em')
      /\ em'.style = f.style /\ em'.speed = f.speed
      /\ em'.audio_mode = f.audio_mode /\ em'.pcm_mode = f.pcm_mode
  BY <1>1, <1>2, SetupFits
<1>4. QED BY <1>1, <1>2, <1>3, CardHasFollowed DEF ModeSet

\* A change of settings marks the write under way if it matters to it.
LEMMA TornIsMarked ==
  ASSUME AudioTypeInv, WriteInv, Audio!Torn(em')
  PROVE  write' \subseteq WriteType /\ WriteInv'
<1> DEFINE T == <<em'.ratio, em'.cb, em'.format, em'.channels>>
                  # <<em.ratio, em.cb, em.format, em.channels>>
<1>1. write' = {[w EXCEPT !.torn = @ \/ T] : w \in write}
  BY DEF Audio!Torn
<1>2. ASSUME NEW w \in write
      PROVE  LET v == [w EXCEPT !.torn = @ \/ T]
             IN  /\ v \in WriteType
                 /\ ~v.torn => v.ratio = em'.ratio /\ v.format = em'.format
                               /\ v.channels = em'.channels
  <2>1. w \in WriteType
    BY DEF AudioTypeInv
  <2>2. (w.torn \/ T) \in BOOLEAN
    OBVIOUS
  <2>3. CASE T
    BY <2>1, <2>2, <2>3 DEF WriteType
  <2>4. CASE ~T
    BY <2>1, <2>2, <2>4 DEF WriteType, WriteInv
  <2>5. QED BY <2>3, <2>4
<1> HIDE DEF T
<1>3. write' \subseteq WriteType
  BY <1>1, <1>2
<1>4. ASSUME NEW v \in write', ~v.torn
      PROVE  v.ratio = em'.ratio /\ v.format = em'.format /\ v.channels = em'.channels
  <2>1. PICK w \in write : v = [w EXCEPT !.torn = @ \/ T]
    BY <1>1, <1>4
  <2>2. QED BY <1>2, <1>4, <2>1
<1>5. QED BY <1>3, <1>4 DEF WriteInv

\* The steps that are made under em->ioctl_lock.
LEMMA IoctlsKeepSettings ==
  ASSUME AudioInv,
         \/ \E s \in Speeds : Audio!SetSpeed(s)
         \/ \E n \in {1, 2} : Audio!SetChannels(n)
         \/ \E f \in Audio!Formats : Audio!SetFormat(f)
         \/ \E m \in Audio!Modes : Audio!em8300_ioctl_setaudiomode(m)
         \/ Audio!em8300_audio_setup
  PROVE  AudioInv'
<1> USE DEF AudioInv, Audio!DspOpen
<1>1. ASSUME NEW s \in Speeds, Audio!SetSpeed(s) PROVE AudioInv'
  <2> DEFINE k == Audio!Known(s)
  <2>1. k \in Nat
    BY AudioConstants DEF Audio!AudioAssumption, Audio!Known
  <2>2. /\ em' = [em EXCEPT !.speed = k] /\ hw' = [hw EXCEPT !.freq = k]
        /\ UNCHANGED <<status, opening, write, slot, reloaded>>
        /\ em.style = "OSS" /\ opening = "no"
    BY <1>1 DEF Audio!SetSpeed
  <2> HIDE DEF k
  <2>3. em' \in EmType /\ hw' \in HwType /\ AudioTypeInv'
    BY <2>1, <2>2 DEF AudioTypeInv, EmType, HwType
  <2>4. em' = Audio!setup_mafifo(em')
    BY <2>2, <2>3, StillFits DEF AudioTypeInv, SettingsInv, EmType
  <2>5. /\ hw'.freq = em'.speed /\ hw'.out = hw.out /\ hw'.rate = hw.rate
        /\ em'.audio_mode = em.audio_mode /\ em'.pcm_mode = em.pcm_mode
        /\ em'.style = em.style /\ em'.ratio = em.ratio
        /\ em'.format = em.format /\ em'.channels = em.channels
    BY <2>2, <2>3 DEF AudioTypeInv, EmType, HwType
  <2>6. SettingsInv'
    BY <2>2, <2>4, <2>5 DEF SettingsInv, ModeSet
  <2>7. QED BY <2>2, <2>3, <2>5, <2>6 DEF WriteInv
<1>2. ASSUME NEW n \in {1, 2}, Audio!SetChannels(n) PROVE AudioInv'
  <2> DEFINE e == [em EXCEPT !.channels = n]
  <2>1. /\ e \in EmType /\ e.style = em.style /\ e.audio_mode = em.audio_mode
        /\ e.pcm_mode = em.pcm_mode /\ e.speed = em.speed
    BY DEF AudioTypeInv, EmType
  <2>2. /\ em' = Audio!setup_mafifo(e) /\ Audio!Torn(em')
        /\ UNCHANGED <<hw, status, opening, slot, reloaded>>
    BY <1>2 DEF Audio!SetChannels
  <2> HIDE DEF e
  <2>3. /\ em' \in EmType /\ em' = Audio!setup_mafifo(em')
        /\ em'.style = em.style /\ em'.audio_mode = em.audio_mode
        /\ em'.pcm_mode = em.pcm_mode /\ em'.speed = em.speed
    BY <2>1, <2>2, SetupFits
  <2>4. write' \subseteq WriteType /\ WriteInv'
    BY <2>2, TornIsMarked
  <2>5. SettingsInv'
    BY <2>2, <2>3 DEF SettingsInv, ModeSet
  <2>6. QED BY <2>2, <2>3, <2>4, <2>5 DEF AudioTypeInv
<1>3. ASSUME NEW f \in Audio!Formats, Audio!SetFormat(f) PROVE AudioInv'
  <2> DEFINE e == Audio!FormatStored(f)
  <2>1. /\ e \in EmType /\ e.style = em.style /\ e.audio_mode = em.audio_mode
        /\ e.pcm_mode = em.pcm_mode /\ e.speed = em.speed /\ e.ratio = em.ratio
        /\ e.cb = em.cb /\ e.channels = em.channels
    BY DEF AudioTypeInv, EmType, Audio!Formats, Audio!FormatStored
  <2>2. /\ em.style = "OSS" /\ opening = "no" /\ Audio!Torn(em')
        /\ UNCHANGED <<opening, slot, reloaded>>
    BY <1>3 DEF Audio!SetFormat
  <2>3. write' \subseteq WriteType /\ WriteInv'
    BY <2>2, TornIsMarked
  <2> HIDE DEF e
  <2>4. CASE Audio!EnterAC3(f)
    <3> DEFINE e1 == [e EXCEPT !.speed = 48000]
               h1 == [hw EXCEPT !.freq = 48000]
               ac3 == "DIGITALAC3"
    <3>1. Audio!SetAudiomode(e1, h1, ac3)
      BY <2>4 DEF Audio!EnterAC3, e
    <3>2. /\ e1 \in EmType /\ h1 \in HwType /\ e1.style = em.style
          /\ e1.speed = 48000 /\ h1.freq = 48000
      BY <2>1 DEF EmType, AudioTypeInv, HwType
    <3>3. ac3 \in Audio!Modes
      BY DEF Audio!Modes
    <3> HIDE DEF e1, h1, ac3
    <3>4. /\ em' \in EmType /\ hw' \in HwType
          /\ status' \in [ac3 : BOOLEAN, rate : Nat, pos : Nat]
          /\ em'.style = "OSS" /\ em'.speed = 48000 /\ hw'.freq = 48000
          /\ em' = Audio!setup_mafifo(em') /\ ModeSet'
      BY <2>2, <3>1, <3>2, <3>3, ModeIsSet
    <3>5. QED BY <2>2, <2>3, <3>4 DEF AudioTypeInv, SettingsInv
  <2>5. CASE Audio!LeaveAC3(f)
    <3>1. Audio!SetAudiomode(e, hw, em.pcm_mode)
      BY <2>5 DEF Audio!LeaveAC3, e
    <3>2. em.pcm_mode \in Audio!Modes /\ hw \in HwType
      BY DEF AudioTypeInv, EmType, Audio!Modes
    <3>3. /\ em' \in EmType /\ hw' \in HwType
          /\ status' \in [ac3 : BOOLEAN, rate : Nat, pos : Nat]
          /\ em'.style = "OSS" /\ em'.speed = em.speed /\ hw'.freq = hw.freq
          /\ em' = Audio!setup_mafifo(em') /\ ModeSet'
      BY <2>1, <2>2, <3>1, <3>2, ModeIsSet
    <3>4. QED BY <2>2, <2>3, <3>3 DEF AudioTypeInv, SettingsInv
  <2>6. CASE em' = Audio!FormatStored(f) /\ UNCHANGED <<hw, status>>
    <3>1. em' = e /\ hw' = hw /\ status' = status
      BY <2>6 DEF e
    <3>2. em' = Audio!setup_mafifo(em')
      BY <2>1, <3>1, StillFits DEF AudioTypeInv, SettingsInv
    <3>3. SettingsInv'
      BY <2>1, <2>2, <3>1, <3>2 DEF SettingsInv, ModeSet
    <3>4. QED BY <2>1, <2>2, <2>3, <3>1, <3>3 DEF AudioTypeInv
  <2>7. QED BY <1>3, <2>4, <2>5, <2>6 DEF Audio!SetFormat
<1>4. ASSUME NEW m \in Audio!Modes, Audio!em8300_ioctl_setaudiomode(m) PROVE AudioInv'
  <2> DEFINE h1 == [hw EXCEPT !.command = IF em.style = "OSS" THEN "PLAY" ELSE hw.command]
  <2>1. /\ Audio!SetAudiomode(em, h1, m) /\ Audio!Torn(em')
        /\ UNCHANGED <<opening, slot, reloaded>>
    BY <1>4 DEF Audio!em8300_ioctl_setaudiomode
  <2>2. h1 \in HwType /\ h1.freq = hw.freq
    BY DEF AudioTypeInv, HwType
  <2> HIDE DEF h1
  <2>3. write' \subseteq WriteType /\ WriteInv'
    BY <2>1, TornIsMarked
  <2>4. QED BY <2>1, <2>2, <2>3, ModeIsSet DEF AudioTypeInv, SettingsInv
<1>5. CASE Audio!em8300_audio_setup
  <2> DEFINE e == [em EXCEPT !.channels = 2, !.format = "S16_LE", !.speed = 48000,
                             !.audio_mode = "ANALOG"]
  <2>1. /\ em' = Audio!setup_mafifo(e) /\ hw' = [hw EXCEPT !.command = "PAUSE"]
        /\ reloaded' = TRUE /\ Audio!Torn(em')
        /\ UNCHANGED <<status, opening, slot>>
    BY <1>5 DEF Audio!em8300_audio_setup
  <2>2. e \in EmType /\ e.style = em.style
    <3>1. em \in EmType
      BY DEF AudioTypeInv
    <3> DEFINE d == [em EXCEPT !.channels = 2, !.format = "S16_LE"]
               hz == 48000
               analog == "ANALOG"
    <3>2. d \in EmType /\ d.style = em.style
      BY ONLY <3>1 DEF EmType
    <3>3. e = [d EXCEPT !.speed = hz, !.audio_mode = analog]
      OBVIOUS
    <3>4. hz \in Nat /\ analog \in Audio!Modes
      BY DEF Audio!Modes
    <3> HIDE DEF d, e, hz, analog
    <3>5. QED BY ONLY <3>2, <3>3, <3>4 DEF EmType
  <2> HIDE DEF e
  <2>3. em' \in EmType /\ em' = Audio!setup_mafifo(em') /\ em'.style = em.style
    BY <2>1, <2>2, SetupFits
  <2>4. write' \subseteq WriteType /\ WriteInv'
    BY <2>1, TornIsMarked
  <2>5. hw' \in HwType
    BY <2>1 DEF AudioTypeInv, HwType
  <2>6. QED BY <2>1, <2>3, <2>4, <2>5 DEF AudioTypeInv, SettingsInv
<1>6. QED BY <1>1, <1>2, <1>3, <1>4, <1>5

\* A step that leaves alone what a write looks at.
LEMMA SameWrite ==
  ASSUME WriteInv, write' = write, em'.ratio = em.ratio, em'.format = em.format,
         em'.channels = em.channels
  PROVE  WriteInv'
BY DEF WriteInv

\* The steps that open and close the audio part.
LEMMA OpensKeepSettings ==
  ASSUME AudioInv,
         \/ Audio!OpenClaim \/ Audio!OpenRate \/ Audio!OpenMode \/ Audio!Release
         \/ \E d \in {"analog", "digital"} : Audio!AlsaOpen(d)
         \/ \E s \in Speeds : Audio!AlsaPrepare(s)
         \/ Audio!AlsaClose
  PROVE  AudioInv'
<1> USE DEF AudioInv, Audio!DspOpen
<1>0. em \in EmType /\ hw \in HwType
  BY DEF AudioTypeInv
<1>1. ASSUME NEW st \in {"NONE", "OSS", "ALSA"}, em' = [em EXCEPT !.style = st]
      PROVE  /\ em' \in EmType /\ em' = Audio!setup_mafifo(em') /\ em'.style = st
             /\ em'.ratio = em.ratio /\ em'.format = em.format
             /\ em'.channels = em.channels
  <2>1. /\ em' \in EmType /\ em'.style = st
        /\ em'.ratio = em.ratio /\ em'.cb = em.cb /\ em'.format = em.format
        /\ em'.channels = em.channels /\ em'.audio_mode = em.audio_mode
    BY <1>0, <1>1 DEF EmType
  <2>2. QED BY <1>0, <2>1, StillFits DEF SettingsInv
<1>2. CASE Audio!OpenClaim
  <2>1. /\ em' = [em EXCEPT !.style = "OSS"] /\ opening' = "claimed"
        /\ reloaded' = FALSE /\ UNCHANGED <<hw, status, write, slot>>
    BY <1>2 DEF Audio!OpenClaim
  <2>2. QED BY <1>1, <2>1, SameWrite DEF AudioTypeInv, SettingsInv
<1>3. CASE Audio!OpenRate
  <2> DEFINE k == Audio!Known(em.speed)
  <2>1. k \in Nat
    BY <1>0 DEF Audio!Known, EmType
  <2>2. /\ em' = [em EXCEPT !.speed = k] /\ hw' = [hw EXCEPT !.freq = k]
        /\ opening' = "rated" /\ opening = "claimed"
        /\ UNCHANGED <<status, write, slot, reloaded>>
    BY <1>3 DEF Audio!OpenRate
  <2> HIDE DEF k
  <2>3. /\ em' \in EmType /\ hw' \in HwType /\ hw'.freq = em'.speed
        /\ em'.style = em.style /\ em'.ratio = em.ratio /\ em'.cb = em.cb
        /\ em'.audio_mode = em.audio_mode
        /\ em'.format = em.format /\ em'.channels = em.channels
    BY <1>0, <2>1, <2>2 DEF EmType, HwType
  <2>4. em' = Audio!setup_mafifo(em')
    BY <1>0, <2>3, StillFits DEF SettingsInv
  <2>5. QED BY <2>2, <2>3, <2>4, SameWrite DEF AudioTypeInv, SettingsInv
<1>4. CASE Audio!OpenMode
  <2> DEFINE h1 == [hw EXCEPT !.command = "PLAY"]
  <2>1. /\ em' = Audio!ModeStored(em, em.audio_mode)
        /\ Audio!CardFollows(em, h1, em.audio_mode) /\ opening' = "no"
        /\ opening = "rated" /\ UNCHANGED <<write, slot, reloaded>>
    BY <1>4 DEF Audio!OpenMode
  <2>2. h1 \in HwType /\ h1.freq = hw.freq /\ em.audio_mode \in Audio!Modes
    BY <1>0 DEF HwType, EmType
  <2> HIDE DEF h1
  <2>3. /\ em' \in EmType
        /\ em'.style = em.style /\ em'.speed = em.speed
        /\ em'.channels = em.channels /\ em'.format = em.format
        /\ em'.ratio = em.ratio /\ em'.cb = em.cb /\ em'.audio_mode = em.audio_mode
        /\ em.style = "OSS" /\ em.audio_mode # "DIGITALAC3" =>
             em'.pcm_mode = em.audio_mode
    BY <1>0, <2>1, <2>2, ModeIsStored
  <2>4. /\ hw' \in HwType /\ status' \in [ac3 : BOOLEAN, rate : Nat, pos : Nat]
        /\ hw'.freq = hw.freq
        /\ em.style = "OSS" =>
             /\ hw'.out = Audio!Out(em.audio_mode) /\ hw'.rate = Audio!Out(em.audio_mode)
             /\ status'.ac3 = (em.audio_mode = "DIGITALAC3")
    BY <1>0, <2>1, <2>2, CardHasFollowed
  <2>5. em' = Audio!setup_mafifo(em')
    BY <1>0, <2>3, StillFits DEF SettingsInv
  <2>6. QED BY <2>1, <2>3, <2>4, <2>5, SameWrite
            DEF AudioTypeInv, SettingsInv, ModeSet
<1>5. CASE Audio!Release
  <2>1. /\ em' = [em EXCEPT !.style = "NONE"] /\ hw' = [hw EXCEPT !.command = "STOP"]
        /\ opening = "no" /\ UNCHANGED <<status, opening, write, slot, reloaded>>
    BY <1>5 DEF Audio!Release
  <2>2. hw' \in HwType
    BY <1>0, <2>1 DEF HwType
  <2>3. QED BY <1>1, <2>1, <2>2, SameWrite DEF AudioTypeInv, SettingsInv
<1>6. ASSUME NEW d \in {"analog", "digital"}, Audio!AlsaOpen(d) PROVE AudioInv'
  <2>1. /\ em' = [em EXCEPT !.style = "ALSA"] /\ em.style = "NONE"
        /\ hw' = [hw EXCEPT !.out = d, !.rate = d]
        /\ UNCHANGED <<status, opening, write, slot, reloaded>>
    BY <1>6 DEF Audio!AlsaOpen
  <2>2. hw' \in HwType
    BY <1>0, <2>1 DEF HwType
  <2>3. QED BY <1>1, <2>1, <2>2, SameWrite DEF AudioTypeInv, SettingsInv
<1>7. ASSUME NEW s \in Speeds, Audio!AlsaPrepare(s) PROVE AudioInv'
  <2>1. /\ em' = em /\ em.style = "ALSA" /\ hw' = [hw EXCEPT !.freq = s]
        /\ s \in Nat /\ UNCHANGED <<status, opening, write, slot, reloaded>>
    BY <1>7, AudioConstants DEF Audio!AlsaPrepare, Audio!AudioAssumption
  <2>2. hw' \in HwType
    BY <1>0, <2>1 DEF HwType
  <2>3. QED BY <2>1, <2>2, SameWrite DEF AudioTypeInv, SettingsInv
<1>8. CASE Audio!AlsaClose
  <2>1. /\ em' = [em EXCEPT !.style = "NONE"] /\ em.style = "ALSA"
        /\ UNCHANGED <<hw, status, opening, write, slot, reloaded>>
    BY <1>8 DEF Audio!AlsaClose
  <2>2. QED BY <1>1, <2>1, SameWrite DEF AudioTypeInv, SettingsInv
<1>9. QED BY <1>2, <1>3, <1>4, <1>5, <1>6, <1>7, <1>8

\* The two steps of a write leave the settings alone.
LEMMA WritesKeepSettings ==
  ASSUME AudioInv, (\E n \in Lengths : Audio!WriteBegin(n)) \/ Audio!WriteCopy
  PROVE  AudioInv'
<1> USE DEF AudioInv
<1>1. ASSUME NEW n \in Lengths, Audio!WriteBegin(n) PROVE AudioInv'
  <2> DEFINE w == [frames |-> n, ratio |-> em.ratio, format |-> em.format,
                   channels |-> em.channels, torn |-> FALSE]
  <2>1. write' = {w} /\ UNCHANGED <<em, hw, status, opening, slot, reloaded>>
    BY <1>1 DEF Audio!WriteBegin
  <2>2. w \in WriteType
    BY DEF AudioTypeInv, EmType, WriteType
  <2>3. QED BY <2>1, <2>2 DEF AudioTypeInv, SettingsInv, ModeSet, WriteInv
<1>2. CASE Audio!WriteCopy
  <2>1. PICK w \in write :
          /\ status' = [status EXCEPT !.pos = IF em.cb = "analog" THEN @
                                              ELSE (@ + w.frames) % BlockFrames]
          /\ write' = {} /\ UNCHANGED <<em, hw, opening, reloaded>>
    BY <1>2 DEF Audio!WriteCopy
  <2>2. w.frames \in Nat /\ BlockFrames \in Nat \ {0} /\ status.pos \in Nat
    BY AudioConstants DEF Audio!AudioAssumption, AudioTypeInv, WriteType
  <2>3. (status.pos + w.frames) % BlockFrames \in Nat
    BY <2>2
  <2>4. /\ status' \in [ac3 : BOOLEAN, rate : Nat, pos : Nat]
        /\ status'.ac3 = status.ac3
    BY <2>1, <2>3 DEF AudioTypeInv
  <2>5. QED BY <2>1, <2>4 DEF AudioTypeInv, SettingsInv, ModeSet, WriteInv
<1>3. QED BY <1>1, <1>2

LEMMA AudioInvHolds == Spec => []AudioInv
<1>1. Init => AudioInv
  <2> SUFFICES ASSUME Audio!Init PROVE AudioInv
    BY DEF Init
  <2>1. /\ em \in EmType /\ hw \in HwType
        /\ em.channels = 2 /\ em.audio_mode = "ANALOG" /\ em.ratio = 1
        /\ em.cb = "analog"
    BY DEF Audio!Init, EmType, HwType, Audio!Modes
  <2>2. em = Audio!setup_mafifo(em)
    <3>1. Audio!setup_mafifo(em) = [em EXCEPT !.ratio = 1, !.cb = "analog"]
      BY <2>1 DEF Audio!setup_mafifo
    <3>2. QED BY <2>1, <3>1 DEF EmType
  <2>3. status \in [ac3 : BOOLEAN, rate : Nat, pos : Nat]
    BY DEF Audio!Init
  <2>4. AudioTypeInv
    <3>1. opening = "no" /\ reloaded = FALSE /\ write = {}
      BY DEF Audio!Init
    <3>2. QED BY <2>1, <2>3, <3>1 DEF AudioTypeInv
  <2>5. SettingsInv /\ WriteInv
    BY <2>2 DEF Audio!Init, SettingsInv, WriteInv
  <2>6. QED BY <2>4, <2>5 DEF AudioInv
<1>2. AudioInv /\ [Next]_vars => AudioInv'
  <2> SUFFICES ASSUME AudioInv, [Next]_vars PROVE AudioInv'
    OBVIOUS
  <2>1. CASE Audio!Next
    BY <2>1, IoctlsKeepSettings, OpensKeepSettings, WritesKeepSettings DEF Audio!Next
  <2>2. CASE UNCHANGED audioVars
    BY <2>2 DEF audioVars, AudioInv, AudioTypeInv, SettingsInv, ModeSet, WriteInv
  <2>3. QED BY <2>1, <2>2 DEF Next, vars
<1>3. QED BY <1>1, <1>2, PTL DEF Spec

\* While a process has the dsp device open, clock generator, rate register and
\* preparation fit the mode and the channels, and the mode to return to from AC3
\* is the PCM mode, whatever ioctls of it, ioctls of the control device and opens
\* of the ALSA driver came before (em8300_audio.c, em8300_alsa.c).
THEOREM AudioSettingsAgree == Spec => []AudioAgrees
<1>1. AudioInv => AudioAgrees
  BY DEF AudioInv, SettingsInv, ModeSet, AudioAgrees, Audio!AudioAgrees, Audio!DspOpen
<1>2. QED BY <1>1, AudioInvHolds, PTL

-------------------------------------------------------------------------------
(* What a write puts into a slot. *)

\* The elements of two pairs, one after the other.
Joined(a, b, c, d) == <<a, b>> \o <<c, d>>

LEMMA TwoPairs ==
  ASSUME NEW a, NEW b, NEW c, NEW d
  PROVE  /\ Joined(a, b, c, d)[1] = a /\ Joined(a, b, c, d)[2] = b
         /\ Joined(a, b, c, d)[3] = c /\ Joined(a, b, c, d)[4] = d
<1> DEFINE S == {a, b, c, d}
<1>1. <<a, b>> \in Seq(S) /\ <<c, d>> \in Seq(S)
  OBVIOUS
<1>2. Len(<<a, b>>) = 2 /\ Len(<<c, d>>) = 2
  OBVIOUS
<1> HIDE DEF S
<1>3. \A k \in 1 .. 4 : (<<a, b>> \o <<c, d>>)[k] =
                          IF k <= 2 THEN <<a, b>>[k] ELSE <<c, d>>[k - 2]
  BY <1>1, <1>2, ConcatProperties
<1>4. QED BY <1>3 DEF Joined

\* The bytes of a sample, in the two orders.
Hi(i, ch) == Audio!Byte([frame |-> i, ch |-> ch], "hi")
Lo(i, ch) == Audio!Byte([frame |-> i, ch |-> ch], "lo")

\* What the user hands over for a frame.
LEMMA FrameOf ==
  ASSUME NEW i, NEW format \in {"S16_LE", "S16_BE", "AC3"}, NEW channels \in {1, 2}
  PROVE  LET f == Audio!FrameBytes(i, format, channels)
         IN  IF format = "S16_BE"
             THEN /\ f[1] = Hi(i, "L") /\ f[2] = Lo(i, "L")
                  /\ channels = 2 => f[3] = Hi(i, "R") /\ f[4] = Lo(i, "R")
             ELSE /\ f[1] = Lo(i, "L") /\ f[2] = Hi(i, "L")
                  /\ channels = 2 => f[3] = Lo(i, "R") /\ f[4] = Hi(i, "R")
<1> DEFINE l == [frame |-> i, ch |-> "L"]
           r == [frame |-> i, ch |-> "R"]
           f == Audio!FrameBytes(i, format, channels)
<1>1. f = IF channels = 2 THEN Audio!Bytes(l, format) \o Audio!Bytes(r, format)
          ELSE Audio!Bytes(l, format)
  BY DEF Audio!FrameBytes
<1>2. /\ Hi(i, "L") = Audio!Byte(l, "hi") /\ Lo(i, "L") = Audio!Byte(l, "lo")
      /\ Hi(i, "R") = Audio!Byte(r, "hi") /\ Lo(i, "R") = Audio!Byte(r, "lo")
  BY DEF Hi, Lo
<1> HIDE DEF l, r
<1>3. CASE format = "S16_BE"
  <2>1. /\ Audio!Bytes(l, format) = <<Hi(i, "L"), Lo(i, "L")>>
        /\ Audio!Bytes(r, format) = <<Hi(i, "R"), Lo(i, "R")>>
    BY <1>2, <1>3 DEF Audio!Bytes
  <2>2. CASE channels = 2
    <3>1. f = Joined(Hi(i, "L"), Lo(i, "L"), Hi(i, "R"), Lo(i, "R"))
      BY <1>1, <2>1, <2>2 DEF Joined
    <3>2. f[1] = Hi(i, "L") /\ f[2] = Lo(i, "L") /\ f[3] = Hi(i, "R") /\ f[4] = Lo(i, "R")
      BY <3>1, TwoPairs
    <3>3. QED BY <1>3, <3>2
  <2>3. CASE channels = 1
    <3>1. f = <<Hi(i, "L"), Lo(i, "L")>>
      BY <1>1, <2>1, <2>3
    <3>2. f[1] = Hi(i, "L") /\ f[2] = Lo(i, "L")
      BY <3>1
    <3>3. QED BY <1>3, <2>3, <3>2
  <2>4. QED BY <2>2, <2>3
<1>4. CASE format # "S16_BE"
  <2>1. /\ Audio!Bytes(l, format) = <<Lo(i, "L"), Hi(i, "L")>>
        /\ Audio!Bytes(r, format) = <<Lo(i, "R"), Hi(i, "R")>>
    BY <1>2, <1>4 DEF Audio!Bytes
  <2>2. CASE channels = 2
    <3>1. f = Joined(Lo(i, "L"), Hi(i, "L"), Lo(i, "R"), Hi(i, "R"))
      BY <1>1, <2>1, <2>2 DEF Joined
    <3>2. f[1] = Lo(i, "L") /\ f[2] = Hi(i, "L") /\ f[3] = Lo(i, "R") /\ f[4] = Hi(i, "R")
      BY <3>1, TwoPairs
    <3>3. QED BY <1>4, <3>2
  <2>3. CASE channels = 1
    <3>1. f = <<Lo(i, "L"), Hi(i, "L")>>
      BY <1>1, <2>1, <2>3
    <3>2. f[1] = Lo(i, "L") /\ f[2] = Hi(i, "L")
      BY <3>1
    <3>3. QED BY <1>4, <2>3, <3>2
  <2>4. QED BY <2>2, <2>3
<1>5. QED BY <1>3, <1>4

\* The four bytes of a frame as the two outputs want them: the high byte of each
\* sample first, the right sample first for the analog output.
LEMMA AnalogFrame ==
  ASSUME NEW i, NEW format \in {"S16_LE", "S16_BE"}, NEW channels \in {1, 2}
  PROVE  LET g == Audio!Reordered(Audio!FrameBytes(i, format, channels),
                                  Audio!OrderAnalog(format, channels))
             R == IF channels = 2 THEN "R" ELSE "L"
         IN  g[1] = Hi(i, R) /\ g[2] = Lo(i, R) /\ g[3] = Hi(i, "L") /\ g[4] = Lo(i, "L")
<1> DEFINE f == Audio!FrameBytes(i, format, channels)
           order == Audio!OrderAnalog(format, channels)
<1>1. order = IF format = "S16_LE" THEN IF channels = 2 THEN <<4, 3, 2, 1>> ELSE <<2, 1, 2, 1>>
              ELSE IF channels = 2 THEN <<3, 4, 1, 2>> ELSE <<1, 2, 1, 2>>
  BY DEF Audio!OrderAnalog
<1>2. Audio!Reordered(f, order) = [p \in 1 .. 4 |-> f[order[p]]]
  BY DEF Audio!Reordered
<1>3. QED BY <1>1, <1>2, FrameOf

LEMMA DigitalFrame ==
  ASSUME NEW i, NEW format \in {"S16_LE", "S16_BE", "AC3"}, NEW channels \in {1, 2}
  PROVE  LET g == Audio!Reordered(Audio!FrameBytes(i, format, channels),
                                  Audio!OrderDigital(format, channels))
             R == IF channels = 2 THEN "R" ELSE "L"
         IN  g[1] = Hi(i, "L") /\ g[2] = Lo(i, "L") /\ g[3] = Hi(i, R) /\ g[4] = Lo(i, R)
<1> DEFINE f == Audio!FrameBytes(i, format, channels)
           order == Audio!OrderDigital(format, channels)
<1>1. order = IF format # "S16_BE" THEN IF channels = 2 THEN <<2, 1, 4, 3>> ELSE <<2, 1, 2, 1>>
              ELSE IF channels = 2 THEN <<1, 2, 3, 4>> ELSE <<1, 2, 1, 2>>
  BY DEF Audio!OrderDigital
<1>2. Audio!Reordered(f, order) = [p \in 1 .. 4 |-> f[order[p]]]
  BY DEF Audio!Reordered
<1>3. QED BY <1>1, <1>2, FrameOf

\* What the user hands over for n frames, and a frame of a prepared slot.
Written(n, format, channels) ==
  [j \in 1 .. n |-> Audio!FrameBytes(j, format, channels)]

LEMMA PreparedFrame ==
  ASSUME NEW n \in Nat, NEW format, NEW channels, NEW cb, NEW pos,
         NEW i \in 1 .. n
  PROVE  LET out == Audio!Prepared(Written(n, format, channels), format, channels, cb, pos)
             f == Audio!FrameBytes(i, format, channels)
         IN  out[i] = IF cb = "analog"
                      THEN Audio!Reordered(f, Audio!OrderAnalog(format, channels))
                      ELSE Audio!sub_prepare_SPDIF(
                             Audio!Reordered(f, Audio!OrderDigital(format, channels)),
                             pos + i - 1)
<1> DEFINE frames == Written(n, format, channels)
<1>1. Len(frames) = n
  BY DEF Written
<1>2. frames[i] = Audio!FrameBytes(i, format, channels)
  BY DEF Written
<1>3. QED BY <1>1, <1>2 DEF Audio!Prepared

\* What the card plays of a frame, and how long the slot is, for a slot written
\* with settings that fit.
LEMMA FramePlayed ==
  ASSUME NEW n \in Nat, NEW format \in {"S16_LE", "S16_BE", "AC3"},
         NEW channels \in {1, 2}, NEW cb \in {"analog", "digital"}, NEW pos \in Nat,
         NEW s, NEW i \in 1 .. n, ~(format = "AC3" /\ cb = "analog"),
         s.cb = cb,
         s.out = Audio!Prepared(Written(n, format, channels), format, channels, cb, pos)
  PROVE  LET R == IF channels = 2 THEN "R" ELSE "L"
         IN  Audio!Played(s, i) = [L |-> <<Hi(i, "L"), Lo(i, "L")>>,
                                   R |-> <<Hi(i, R), Lo(i, R)>>]
<1> DEFINE f == Audio!FrameBytes(i, format, channels)
           R == IF channels = 2 THEN "R" ELSE "L"
<1>1. CASE cb = "analog"
  <2> DEFINE g == Audio!Reordered(f, Audio!OrderAnalog(format, channels))
  <2>1. s.out[i] = g
    BY <1>1, PreparedFrame
  <2>2. g[1] = Hi(i, R) /\ g[2] = Lo(i, R) /\ g[3] = Hi(i, "L") /\ g[4] = Lo(i, "L")
    BY <1>1, AnalogFrame
  <2>3. QED BY <1>1, <2>1, <2>2 DEF Audio!Played
<1>2. CASE cb = "digital"
  <2> DEFINE g == Audio!Reordered(f, Audio!OrderDigital(format, channels))
  <2>1. s.out[i] = Audio!sub_prepare_SPDIF(g, pos + i - 1)
    BY <1>2, PreparedFrame
  <2>2. g[1] = Hi(i, "L") /\ g[2] = Lo(i, "L") /\ g[3] = Hi(i, R) /\ g[4] = Lo(i, R)
    BY DigitalFrame
  <2> HIDE DEF g
  <2>3. /\ s.out[i][1].hi = g[1] /\ s.out[i][1].lo = g[2]
        /\ s.out[i][2].hi = g[3] /\ s.out[i][2].lo = g[4]
    BY <2>1 DEF Audio!sub_prepare_SPDIF
  <2>4. QED BY <1>2, <2>2, <2>3 DEF Audio!Played
<1>3. QED BY <1>1, <1>2

\* The multiplier makes the length that of the prepared frames.
LEMMA LengthFits ==
  ASSUME NEW n \in Nat, em \in EmType, em = Audio!setup_mafifo(em)
  PROVE  em.ratio * (2 * em.channels * n) = n * (IF em.cb = "analog" THEN 4 ELSE 8)
<1> DEFINE r == (IF em.channels = 2 THEN 1 ELSE 2)
                  * (IF em.audio_mode = "ANALOG" THEN 1 ELSE 2)
<1>1. em.channels \in {1, 2} /\ em.ratio \in {1, 2, 4}
  BY DEF EmType
<1>2. em.ratio = r /\ em.cb = IF em.audio_mode = "ANALOG" THEN "analog" ELSE "digital"
  <2>1. em = [em EXCEPT !.ratio = r,
                        !.cb = IF em.audio_mode = "ANALOG" THEN "analog" ELSE "digital"]
    BY DEF Audio!setup_mafifo
  <2> HIDE DEF r
  <2>2. QED BY <2>1 DEF EmType
<1>3. QED BY <1>1, <1>2

LEMMA SlotsKept == AudioInv /\ SamplesKept /\ [Next]_vars => SamplesKept'
<1> SUFFICES ASSUME AudioInv, SamplesKept, [Next]_vars PROVE SamplesKept'
  OBVIOUS
<1>1. CASE slot' = slot
  BY <1>1 DEF SamplesKept, Audio!SamplesKept
<1>2. CASE Audio!WriteCopy
  <2>1. PICK w \in write : slot' = {Audio!Filled(w)}
    BY <1>2 DEF Audio!WriteCopy
  <2> DEFINE s == Audio!Filled(w)
             bytes == 2 * w.channels * w.frames
  <2>2. /\ slot' = {s}
        /\ s.frames = w.frames /\ s.format = w.format /\ s.channels = w.channels
        /\ s.cb = em.cb /\ s.torn = w.torn /\ s.length = w.ratio * bytes
        /\ s.copied = em.ratio * bytes
        /\ ~w.torn => s.out = Audio!Prepared(Written(w.frames, w.format, w.channels),
                                             em.format, em.channels, em.cb, status.pos)
    BY <2>1 DEF Audio!Filled, Written
  <2> HIDE DEF s
  <2>3. w \in WriteType /\ w.frames \in Nat /\ status.pos \in Nat /\ em \in EmType
    BY AudioConstants DEF AudioInv, AudioTypeInv, WriteType, Audio!AudioAssumption
  <2>4. ASSUME ~s.torn, ~(s.format = "AC3" /\ s.cb = "analog")
        PROVE  /\ \A i \in 1 .. s.frames :
                    LET sample(ch) ==
                          LET b == [frame |-> i, ch |-> IF s.channels = 2 THEN ch ELSE "L"]
                          IN  <<Audio!Byte(b, "hi"), Audio!Byte(b, "lo")>>
                    IN  Audio!Played(s, i) = [L |-> sample("L"), R |-> sample("R")]
               /\ s.length = s.frames * (IF s.cb = "analog" THEN 4 ELSE 8)
               /\ s.copied = s.length
    <3>1. w.ratio = em.ratio /\ w.format = em.format /\ w.channels = em.channels
      BY <2>2, <2>4 DEF AudioInv, WriteInv
    <3>2. s.copied = s.length /\ s.length = s.frames * (IF s.cb = "analog" THEN 4 ELSE 8)
      BY <2>2, <2>3, <3>1, LengthFits DEF AudioInv, SettingsInv
    <3>3. ASSUME NEW i \in 1 .. s.frames
          PROVE  LET sample(ch) ==
                       LET b == [frame |-> i, ch |-> IF s.channels = 2 THEN ch ELSE "L"]
                       IN  <<Audio!Byte(b, "hi"), Audio!Byte(b, "lo")>>
                 IN  Audio!Played(s, i) = [L |-> sample("L"), R |-> sample("R")]
      <4> DEFINE R == IF em.channels = 2 THEN "R" ELSE "L"
      <4>1. /\ em.format \in {"S16_LE", "S16_BE", "AC3"} /\ em.channels \in {1, 2}
            /\ em.cb \in {"analog", "digital"}
        BY ONLY <2>3 DEF EmType
      <4>2. s.out = Audio!Prepared(Written(w.frames, em.format, em.channels),
                                   em.format, em.channels, em.cb, status.pos)
        BY <2>2, <2>4, <3>1
      <4>3. Audio!Played(s, i) = [L |-> <<Hi(i, "L"), Lo(i, "L")>>,
                                  R |-> <<Hi(i, R), Lo(i, R)>>]
        BY <2>2, <2>3, <2>4, <3>1, <4>1, <4>2, FramePlayed
      <4>4. QED BY <2>2, <3>1, <4>3 DEF Hi, Lo
    <3>4. QED BY <3>2, <3>3
  <2>5. QED BY <2>2, <2>4 DEF SamplesKept, Audio!SamplesKept
<1>3. QED
  <2>1. Audio!Next => slot' = slot \/ Audio!WriteCopy
    BY DEF Audio!Next, Audio!SetSpeed, Audio!AlsaPrepare, Audio!SetChannels,
           Audio!SetFormat, Audio!em8300_ioctl_setaudiomode, Audio!em8300_audio_setup,
           Audio!OpenClaim, Audio!OpenRate, Audio!OpenMode, Audio!Release,
           Audio!AlsaOpen, Audio!AlsaClose, Audio!WriteBegin
  <2>2. QED BY <1>1, <1>2, <2>1 DEF Next, vars, audioVars

\* Whatever the byte order, the number of channels, the mode and the position in
\* the status block, what the card plays of a slot is the sound that was written,
\* and the length it is given is that of the prepared frames, unless the settings
\* changed in the middle of the write or AC3 data goes to the analog output
\* (em8300_audio.c, mpegaudio_command and the preprocess functions).
THEOREM SoundIsKept == Spec => []SamplesKept
<1>1. Init => SamplesKept
  BY DEF Init, Audio!Init, SamplesKept, Audio!SamplesKept
<1>2. QED BY <1>1, AudioInvHolds, SlotsKept, PTL DEF Spec

-------------------------------------------------------------------------------
(* The ALSA driver: the inductive invariant. *)

Places == 0 .. Slots - 1
RecType ==
  [hw_io : 0 .. HwSize - 1, hw_ready : 0 .. HwSize, sw_data : 0 .. SwSize - 1,
   sw_io : 0 .. SwSize - 1, sw_ready : Nat, appl_ptr : Nat, running : BOOLEAN]
RingType == [slot : [Places -> [data : Nat, bytes : Nat]], rd : Places, wr : Places]
TotalType == [app : Nat, queued : Nat, fetched : Nat, played : Nat, seen : Nat]
CardType == [command : {"PLAY", "PAUSE", "STOP"}, rdptr : 0 .. HwSize - 1]

\* The slots the card has still to fetch.
InUse(r) ==
  {i \in Places : IF r.rd <= r.wr THEN r.rd <= i /\ i < r.wr ELSE i >= r.rd \/ i < r.wr}

\* A slot for the sound that begins at `from`.
SlotFits(s, from, lost) ==
  /\ s.bytes > 0
  /\ s.data + s.bytes <= SwSize
  /\ ~lost => s.data = from % SwSize

\* pos gives the place in the stream of each slot: the first is where the card has
\* come to, each begins where the one before it ends, and the last ends at `end`.
Chain(r, pos, from, end, lost) ==
  /\ r.rd = r.wr => end = from
  /\ r.rd # r.wr => pos[r.rd] = from
  /\ \A i \in InUse(r) :
       /\ SlotFits(r.slot[i], pos[i], lost)
       /\ pos[i] + r.slot[i].bytes <= end
       /\ pos[i] + r.slot[i].bytes =
            IF (i + 1) % Slots = r.wr THEN end ELSE pos[(i + 1) % Slots]

\* The slots hold the stream between what is fetched and what is queued; all of it
\* unless a transfer was lost.
Chained(r, from, queued, lost) ==
  \E pos \in [Places -> Nat], end \in Nat :
    /\ end <= queued /\ (~lost => end = queued)
    /\ Chain(r, pos, from, end, lost)

StateType == [rec : RecType, ring : RingType, queued : Nat, failed : BOOLEAN]

\* What the loop of the transfer keeps, of its state s.
Counted(s, app, seen) ==
  /\ s.queued + s.rec.sw_ready = app
  /\ s.rec.hw_ready = s.queued - seen
  /\ s.rec.sw_data = s.queued % SwSize

Transferred(s, app, seen, fetched) ==
  /\ s \in StateType
  /\ Counted(s, app, seen)
  /\ Chained(s.ring, fetched, s.queued, s.failed)

\* The state of the loop as the callbacks leave it.
Loop == [rec |-> rec, ring |-> ring, queued |-> total.queued, failed |-> failed]

\* What is seen to be played is behind the card by at least what its pointer shows.
SeenInv ==
  /\ total.seen <= total.played /\ total.played <= total.fetched
  /\ rec.sw_io = total.seen % SwSize
  /\ rec.running => (card.rdptr - rec.hw_io) % HwSize <= total.played - total.seen

IndirectInv ==
  /\ total \in TotalType /\ card \in CardType
  /\ Transferred(Loop, total.app, total.seen, total.fetched)
  /\ rec.appl_ptr = total.app
  /\ total.app - total.seen <= SwSize
  /\ SeenInv

\* What is known of the constants.
LEMMA ConstantsFit ==
  /\ Block \in Nat \ {0} /\ HwSize \in Nat \ {0} /\ SwSize \in Nat \ {0}
  /\ Slots \in Nat \ {0}
BY IndirectConstants DEF Indirect!IndirectAssumption

-------------------------------------------------------------------------------
(* The ALSA driver: the ring. *)

\* A new slot goes after the last of those in use.
LEMMA PlaceTaken ==
  ASSUME NEW r \in RingType, NEW q \in RingType, ~Indirect!Full(r),
         q.rd = r.rd, q.wr = (r.wr + 1) % Slots
  PROVE  /\ InUse(q) = InUse(r) \cup {r.wr} /\ r.wr \notin InUse(r) /\ q.wr # r.wr
         /\ q.rd # q.wr
         /\ \A i \in InUse(r) : (i + 1) % Slots \in Places /\ (i + 1) % Slots # q.wr
<1>1. \A i \in Places : (i + 1) % Slots = IF i + 1 = Slots THEN 0 ELSE i + 1
  BY ConstantsFit, NextPlace DEF Places
<1>2. r.rd \in Places /\ r.wr \in Places
  BY DEF RingType
<1>3. r.rd # q.wr
  BY DEF Indirect!Full
<1>4. QED BY <1>1, <1>2, <1>3, ConstantsFit DEF Places, InUse

\* The oldest slot is given back.
LEMMA PlaceFreed ==
  ASSUME NEW r \in RingType, NEW q \in RingType, r.rd # r.wr,
         q.wr = r.wr, q.rd = (r.rd + 1) % Slots
  PROVE  InUse(q) = InUse(r) \ {r.rd} /\ r.rd \in InUse(r)
<1>1. \A i \in Places : (i + 1) % Slots = IF i + 1 = Slots THEN 0 ELSE i + 1
  BY ConstantsFit, NextPlace DEF Places
<1>2. r.rd \in Places /\ r.wr \in Places
  BY DEF RingType
<1>3. QED BY <1>1, <1>2, ConstantsFit DEF Places, InUse

\* A slot that was filled keeps the chain; one that found no place ends it.
LEMMA ChainGrows ==
  ASSUME NEW r \in RingType, NEW from \in Nat, NEW queued \in Nat, NEW lost \in BOOLEAN,
         NEW data \in Nat, NEW bytes \in Nat \ {0}, data + bytes <= SwSize,
         data = queued % SwSize, Chained(r, from, queued, lost),
         NEW q, q = Indirect!snd_em8300_pcm_trans_dma(r, data, bytes)
  PROVE  q \in RingType /\ Chained(q, from, queued + bytes, lost \/ Indirect!Full(r))
<1> DEFINE new == [data |-> data, bytes |-> bytes]
<1>1. /\ q.slot = [r.slot EXCEPT ![r.wr] = new] /\ q.rd = r.rd
      /\ q.wr = IF Indirect!Full(r) THEN r.wr ELSE (r.wr + 1) % Slots
      /\ q = [slot |-> q.slot, rd |-> q.rd, wr |-> q.wr]
  <2> DEFINE w == IF Indirect!Full(r) THEN r.wr ELSE (r.wr + 1) % Slots
  <2>1. q = [[r EXCEPT !.slot = [r.slot EXCEPT ![r.wr] = new]] EXCEPT !.wr = w]
    BY DEF Indirect!snd_em8300_pcm_trans_dma
  <2> HIDE DEF w, new
  <2>2. r = [slot |-> r.slot, rd |-> r.rd, wr |-> r.wr]
    BY ONLY r \in RingType DEF RingType
  <2>3. q = [slot |-> [r.slot EXCEPT ![r.wr] = new], rd |-> r.rd, wr |-> w]
    BY ONLY <2>1, <2>2
  <2>4. QED BY ONLY <2>3 DEF w
<1>2. r.rd \in Places /\ r.wr \in Places /\ r.slot \in [Places -> [data : Nat, bytes : Nat]]
  BY ONLY r \in RingType DEF RingType
<1>3. (r.wr + 1) % Slots \in Places
  BY ONLY <1>2, ConstantsFit, NextPlace DEF Places
<1>4. q \in RingType
  <2>1. q.slot \in [Places -> [data : Nat, bytes : Nat]]
    BY <1>1, <1>2
  <2>2. q.rd \in Places /\ q.wr \in Places
    BY <1>1, <1>2, <1>3
  <2>3. QED BY <1>1, <2>1, <2>2 DEF RingType
<1>5. PICK pos \in [Places -> Nat], end \in Nat :
        /\ end <= queued /\ (~lost => end = queued)
        /\ Chain(r, pos, from, end, lost)
  BY DEF Chained
<1>6. CASE Indirect!Full(r)
  <2>1. InUse(q) = InUse(r) /\ r.wr \notin InUse(r)
    <3>1. q.rd = r.rd /\ q.wr = r.wr
      BY <1>1, <1>6
    <3>2. r.rd \in Nat /\ r.wr \in Nat
      BY <1>2, ConstantsFit DEF Places
    <3>3. QED BY ONLY <3>1, <3>2 DEF InUse
  <2>2. \A i \in InUse(r) : i \in Places /\ q.slot[i] = r.slot[i]
    BY <1>1, <1>2, <2>1 DEF InUse
  <2>3. Chain(q, pos, from, end, TRUE)
    BY <1>1, <1>5, <1>6, <2>1, <2>2 DEF Chain, SlotFits
  <2>4. end <= queued + bytes
    BY <1>5
  <2>5. QED BY <1>4, <1>5, <1>6, <2>3, <2>4 DEF Chained
<1>7. CASE ~Indirect!Full(r)
  <2> DEFINE pos2 == [pos EXCEPT ![r.wr] = end]
             end2 == end + bytes
  <2>1. /\ InUse(q) = InUse(r) \cup {r.wr} /\ r.wr \notin InUse(r) /\ q.wr # r.wr
        /\ q.rd # q.wr
        /\ \A i \in InUse(r) : (i + 1) % Slots \in Places /\ (i + 1) % Slots # q.wr
    BY <1>1, <1>4, <1>7, PlaceTaken
  <2>2. \A i \in InUse(r) : i \in Places /\ q.slot[i] = r.slot[i] /\ pos2[i] = pos[i]
    BY <1>1, <1>2, <2>1 DEF InUse
  <2>3. q.slot[r.wr] = new /\ pos2[r.wr] = end
    BY <1>1, <1>2
  <2>4. pos2[r.rd] = from
    BY <1>2, <1>5 DEF Chain
  <2>5. ASSUME NEW i \in InUse(r)
        PROVE  /\ SlotFits(q.slot[i], pos2[i], lost)
               /\ pos2[i] + q.slot[i].bytes <= end2
               /\ pos2[i] + q.slot[i].bytes = pos2[(i + 1) % Slots]
    <3> DEFINE j == (i + 1) % Slots
    <3>1. /\ SlotFits(r.slot[i], pos[i], lost)
          /\ pos[i] + r.slot[i].bytes <= end
          /\ pos[i] + r.slot[i].bytes = IF j = r.wr THEN end ELSE pos[j]
      BY <1>5 DEF Chain
    <3>2. j \in Places
      BY <2>1
    <3> HIDE DEF j
    <3>3. pos2[j] = IF j = r.wr THEN end ELSE pos[j]
      BY <3>2
    <3>4. pos[i] + r.slot[i].bytes \in Nat
      BY <1>2, <2>2
    <3>5. pos[i] + r.slot[i].bytes <= end2
      BY <3>1, <3>4
    <3> HIDE DEF pos2, end2
    <3>6. QED BY <2>2, <3>1, <3>3, <3>5 DEF j
  <2>6. /\ SlotFits(q.slot[r.wr], pos2[r.wr], lost)
        /\ pos2[r.wr] + q.slot[r.wr].bytes = end2
    BY <1>5, <2>3 DEF SlotFits
  <2>7. pos2 \in [Places -> Nat] /\ end2 \in Nat /\ end2 <= queued + bytes
        /\ (~lost => end2 = queued + bytes)
    <3>1. pos2 \in [Places -> Nat]
      BY ONLY pos \in [Places -> Nat], end \in Nat
    <3>2. /\ end2 \in Nat /\ end2 <= queued + bytes
          /\ (~lost => end2 = queued + bytes)
      BY ONLY end \in Nat, queued \in Nat, bytes \in Nat \ {0}, <1>5
    <3>3. QED BY <3>1, <3>2
  <2>8. Chain(q, pos2, from, end2, lost)
    <3>1. \A i \in InUse(r) : (i + 1) % Slots # q.wr
      BY <2>1
    <3>2. (r.wr + 1) % Slots = q.wr
      BY <1>1, <1>7
    <3>3. end2 <= end2
      BY <2>7
    <3> HIDE DEF pos2, end2
    <3>4. QED BY <1>1, <2>1, <2>4, <2>5, <2>6, <3>1, <3>2, <3>3 DEF Chain
  <2>9. (lost \/ Indirect!Full(r)) = lost
    BY <1>7
  <2> HIDE DEF pos2, end2
  <2>10. QED BY <1>4, <2>7, <2>8, <2>9 DEF Chained
<1>8. QED BY <1>6, <1>7

\* The card takes the first slot of the chain.
LEMMA ChainShrinks ==
  ASSUME NEW r \in RingType, NEW from \in Nat, NEW queued \in Nat, NEW lost \in BOOLEAN,
         Chained(r, from, queued, lost), r.rd # r.wr,
         NEW q, q.slot = [r.slot EXCEPT ![r.rd] = Indirect!Empty], q.wr = r.wr,
         q.rd = (r.rd + 1) % Slots, q = [slot |-> q.slot, rd |-> q.rd, wr |-> q.wr]
  PROVE  /\ q \in RingType /\ r.slot[r.rd] \in [data : Nat, bytes : Nat]
         /\ SlotFits(r.slot[r.rd], from, lost)
         /\ from + r.slot[r.rd].bytes <= queued
         /\ Chained(q, from + r.slot[r.rd].bytes, queued, lost)
<1>1. /\ q.slot = [r.slot EXCEPT ![r.rd] = Indirect!Empty] /\ q.wr = r.wr
      /\ q.rd = (r.rd + 1) % Slots /\ q = [slot |-> q.slot, rd |-> q.rd, wr |-> q.wr]
  OBVIOUS
<1>2. r.rd \in Places /\ r.wr \in Places /\ r.slot \in [Places -> [data : Nat, bytes : Nat]]
  BY ONLY r \in RingType DEF RingType
<1>3. q \in RingType
  <2>1. (r.rd + 1) % Slots \in Places
    BY ONLY <1>2, ConstantsFit, NextPlace DEF Places
  <2>2. Indirect!Empty \in [data : Nat, bytes : Nat]
    BY DEF Indirect!Empty
  <2>3. q.slot \in [Places -> [data : Nat, bytes : Nat]]
    BY <1>1, <1>2, <2>2
  <2>4. QED BY <1>1, <1>2, <2>1, <2>3 DEF RingType
<1>4. PICK pos \in [Places -> Nat], end \in Nat :
        /\ end <= queued /\ (~lost => end = queued)
        /\ Chain(r, pos, from, end, lost)
  BY DEF Chained
<1>5. InUse(q) = InUse(r) \ {r.rd} /\ r.rd \in InUse(r)
  BY <1>1, <1>3, PlaceFreed
<1>6. /\ pos[r.rd] = from /\ SlotFits(r.slot[r.rd], from, lost)
      /\ from + r.slot[r.rd].bytes <= end
      /\ from + r.slot[r.rd].bytes = IF q.rd = q.wr THEN end ELSE pos[q.rd]
  BY <1>1, <1>4, <1>5 DEF Chain
<1>7. from + r.slot[r.rd].bytes <= queued
  BY <1>2, <1>4, <1>6
<1>8. \A i \in InUse(q) : i \in InUse(r) /\ q.slot[i] = r.slot[i]
  BY <1>1, <1>2, <1>5 DEF InUse
<1>9. Chain(q, pos, from + r.slot[r.rd].bytes, end, lost)
  BY ONLY <1>1, <1>4, <1>6, <1>8 DEF Chain
<1>10. QED BY <1>2, <1>3, <1>4, <1>6, <1>7, <1>9 DEF Chained

-------------------------------------------------------------------------------
(* The ALSA driver: the loop of the transfer. *)

\* A transfer fits the queue, what is ready and the rest of the buffer.
LEMMA BytesFit ==
  ASSUME NEW r \in RecType, NEW b, b = Indirect!Bytes(r)
  PROVE  /\ b \in Nat
         /\ b # 0 => /\ r.hw_ready + b <= HwSize /\ b <= r.sw_ready
                     /\ r.sw_data + b <= SwSize
<1> DEFINE h == r.hw_ready
           w == r.sw_ready
           d == r.sw_data
<1>1. h \in 0 .. HwSize /\ w \in Nat /\ d \in 0 .. SwSize - 1
  BY DEF RecType
<1>2. b = IF h < HwSize - Block /\ w > 0
          THEN Indirect!Least(Indirect!Least(HwSize - h, w),
                              Indirect!Least(SwSize - d, 2 * Block))
          ELSE 0
  BY DEF Indirect!Bytes
<1> HIDE DEF h, w, d
<1>3. b \in Nat /\ (b # 0 => h + b <= HwSize /\ b <= w /\ d + b <= SwSize)
  BY <1>1, <1>2, ConstantsFit DEF Indirect!Least
<1>4. QED BY <1>3 DEF h, w, d

\* A turn of the loop keeps what the loop is to keep.
LEMMA TurnKeeps ==
  ASSUME NEW s, NEW app \in Nat, NEW seen \in Nat, NEW fetched \in Nat,
         Transferred(s, app, seen, fetched)
  PROVE  /\ Transferred(Indirect!Turn(s), app, seen, fetched)
         /\ Indirect!Turn(s).rec.hw_io = s.rec.hw_io
         /\ Indirect!Turn(s).rec.sw_io = s.rec.sw_io
         /\ Indirect!Turn(s).rec.appl_ptr = s.rec.appl_ptr
         /\ Indirect!Turn(s).rec.running = s.rec.running
         /\ IF Indirect!Bytes(s.rec) = 0 THEN Indirect!Turn(s) = s
            ELSE Indirect!Turn(s).rec.sw_ready < s.rec.sw_ready
<1> DEFINE r == s.rec
           b == Indirect!Bytes(r)
           t == Indirect!Turn(s)
<1>1. /\ s \in StateType /\ r \in RecType /\ s.ring \in RingType /\ s.queued \in Nat
      /\ s.failed \in BOOLEAN
  BY DEF Transferred, StateType
<1>2. CASE b = 0
  <2>1. t = s
    BY <1>2 DEF Indirect!Turn
  <2>2. QED BY <1>2, <2>1
<1>3. CASE b # 0
  <2>1. /\ b \in Nat \ {0} /\ r.hw_ready + b <= HwSize /\ b <= r.sw_ready
        /\ r.sw_data + b <= SwSize
    <3> HIDE DEF r
    <3>1. QED BY <1>1, <1>3, BytesFit
  <2>2. /\ t.rec = [r EXCEPT !.sw_data = Indirect!Wrapped(@ + b, SwSize),
                             !.hw_ready = @ + b, !.sw_ready = @ - b]
        /\ t.ring = Indirect!snd_em8300_pcm_trans_dma(s.ring, r.sw_data, b)
        /\ t.queued = s.queued + b
        /\ t.failed = (s.failed \/ Indirect!Full(s.ring))
        /\ t = [rec |-> t.rec, ring |-> t.ring, queued |-> t.queued, failed |-> t.failed]
    BY <1>3 DEF Indirect!Turn
  <2>3. /\ s.queued + r.sw_ready = app /\ r.hw_ready = s.queued - seen
        /\ r.sw_data = s.queued % SwSize
        /\ Chained(s.ring, fetched, s.queued, s.failed)
    BY DEF Transferred, Counted
  <2>4. /\ r.hw_io \in 0 .. HwSize - 1 /\ r.hw_ready \in 0 .. HwSize
        /\ r.sw_data \in 0 .. SwSize - 1 /\ r.sw_io \in 0 .. SwSize - 1
        /\ r.sw_ready \in Nat /\ r.appl_ptr \in Nat /\ r.running \in BOOLEAN
    BY <1>1 DEF RecType
  <2> HIDE DEF b, t
  <2>5. /\ t.rec = [hw_io |-> r.hw_io, hw_ready |-> r.hw_ready + b,
                    sw_data |-> Indirect!Wrapped(r.sw_data + b, SwSize),
                    sw_io |-> r.sw_io, sw_ready |-> r.sw_ready - b,
                    appl_ptr |-> r.appl_ptr, running |-> r.running]
    BY <1>1, <2>2 DEF RecType
  <2> HIDE DEF r
  <2>6. /\ Indirect!Wrapped(r.sw_data + b, SwSize) = (s.queued + b) % SwSize
        /\ Indirect!Wrapped(r.sw_data + b, SwSize) \in 0 .. SwSize - 1
    <3> DEFINE m == s.queued % SwSize
    <3>1. b \in 0 .. SwSize /\ m = r.sw_data
      BY <2>1, <2>3, <2>4, ConstantsFit
    <3>2. (s.queued + b) % SwSize = IF m + b >= SwSize THEN m + b - SwSize ELSE m + b
      BY <1>1, <3>1, ConstantsFit, RemainderOfSum
    <3> HIDE DEF m
    <3>3. QED BY <2>1, <2>4, <3>1, <3>2, ConstantsFit DEF Indirect!Wrapped
  <2>7. /\ r.hw_ready + b \in 0 .. HwSize /\ r.sw_ready - b \in Nat
        /\ r.hw_ready + b = s.queued + b - seen
        /\ s.queued + b + (r.sw_ready - b) = app /\ s.queued + b \in Nat
    BY <1>1, <2>1, <2>3, <2>4, ConstantsFit
  <2>8. t.rec \in RecType
    BY <2>4, <2>5, <2>6, <2>7 DEF RecType
  <2>9. t.ring \in RingType /\ Chained(t.ring, fetched, t.queued, t.failed)
    <3>1. r.sw_data \in Nat
      BY <2>4, ConstantsFit
    <3>2. QED BY <1>1, <2>1, <2>2, <2>3, <3>1, ChainGrows
  <2>10. t.failed \in BOOLEAN
    BY <2>2
  <2>11. t \in StateType
    BY <2>2, <2>7, <2>8, <2>9, <2>10 DEF StateType
  <2>12. Counted(t, app, seen)
    <3>1. /\ t.rec.sw_ready = r.sw_ready - b /\ t.rec.hw_ready = r.hw_ready + b
          /\ t.rec.sw_data = Indirect!Wrapped(r.sw_data + b, SwSize)
      BY ONLY <2>5
    <3>2. t.queued = s.queued + b
      BY <2>2
    <3>3. t.queued + t.rec.sw_ready = app /\ t.rec.hw_ready = t.queued - seen
      BY ONLY <1>1, <2>1, <2>3, <2>4, <3>1, <3>2, seen \in Nat
    <3>4. t.rec.sw_data = t.queued % SwSize
      BY ONLY <2>6, <3>1, <3>2
    <3>5. QED BY ONLY <3>3, <3>4 DEF Counted
  <2>13. b # 0 /\ t.rec.sw_ready < r.sw_ready
    <3>1. t.rec.sw_ready = r.sw_ready - b
      BY ONLY <2>5
    <3>2. QED BY <2>1, <2>4, <3>1
  <2>14. /\ t.rec.hw_io = r.hw_io /\ t.rec.sw_io = r.sw_io
         /\ t.rec.appl_ptr = r.appl_ptr /\ t.rec.running = r.running
    BY ONLY <2>5
  <2>15. QED BY <2>9, <2>11, <2>12, <2>13, <2>14 DEF Transferred, t, r, b
<1>4. QED BY <1>2, <1>3

\* The loop keeps it too, and it has come to its end.
Kept(s, t, app, seen, fetched) ==
  /\ Transferred(t, app, seen, fetched)
  /\ t.rec.hw_io = s.rec.hw_io /\ t.rec.sw_io = s.rec.sw_io
  /\ t.rec.appl_ptr = s.rec.appl_ptr /\ t.rec.running = s.rec.running

LEMMA LoopKeeps ==
  ASSUME NEW s, NEW app \in Nat, NEW seen \in Nat, NEW fetched \in Nat,
         Transferred(s, app, seen, fetched), app - seen <= SwSize,
         NEW e, e = Indirect!snd_em8300_pcm_indirect_playback_transfer(s)
  PROVE  Kept(s, e, app, seen, fetched) /\ Indirect!Bytes(e.rec) = 0
<1> DEFINE Turns(f, k) == [n \in 0 .. k |-> IF n = 0 THEN s ELSE Indirect!Turn(f[n - 1])]
           after == CHOOSE f : f = Turns(f, SwSize)
<1>1. e = after[SwSize]
  BY DEF Indirect!snd_em8300_pcm_indirect_playback_transfer
<1>2. after = Turns(after, SwSize)
  <2> DEFINE Defined == {k \in Nat : \E f : f = Turns(f, k)}
  <2>1. 0 \in Defined
    <3>1. [n \in 0 .. 0 |-> s] = Turns([n \in 0 .. 0 |-> s], 0)
      OBVIOUS
    <3>2. QED BY <3>1
  <2>2. ASSUME NEW k \in Nat, k \in Defined PROVE k + 1 \in Defined
    <3>1. PICK f : f = Turns(f, k)
      BY <2>2
    <3> DEFINE g == [n \in 0 .. k + 1 |-> IF n = k + 1 THEN Indirect!Turn(f[k]) ELSE f[n]]
    <3>2. ASSUME NEW n \in 0 .. k + 1
          PROVE  g[n] = IF n = 0 THEN s ELSE Indirect!Turn(g[n - 1])
      <4>1. CASE n = 0
        BY <3>1, <4>1
      <4>2. CASE n \in 1 .. k
        <5>1. g[n] = f[n] /\ g[n - 1] = f[n - 1]
          BY <4>2
        <5>2. f[n] = Indirect!Turn(f[n - 1])
          BY <3>1, <4>2
        <5>3. QED BY <4>2, <5>1, <5>2
      <4>3. CASE n = k + 1
        <5>1. g[n] = Indirect!Turn(f[k]) /\ g[n - 1] = f[k]
          BY <4>3
        <5>2. QED BY <4>3, <5>1
      <4>4. QED BY <4>1, <4>2, <4>3
    <3> HIDE DEF g
    <3>3. g = Turns(g, k + 1)
      <4>1. g = [n \in 0 .. k + 1 |-> g[n]]
        BY DEF g
      <4>2. QED BY <3>2, <4>1
    <3>4. QED BY <3>3
  <2>3. SwSize \in Defined
    <3> HIDE DEF Defined
    <3>1. QED BY <2>1, <2>2, SetInduction, ConstantsFit
  <2>4. \E f : f = Turns(f, SwSize)
    BY <2>3
  <2>5. QED BY <2>4
<1> HIDE DEF after
<1>3. /\ after[0] = s
      /\ \A n \in 0 .. SwSize - 1 : after[n + 1] = Indirect!Turn(after[n])
  <2>1. \A n \in 0 .. SwSize : after[n] = IF n = 0 THEN s ELSE Indirect!Turn(after[n - 1])
    BY <1>2
  <2>2. ASSUME NEW n \in 0 .. SwSize - 1 PROVE after[n + 1] = Indirect!Turn(after[n])
    <3>1. n + 1 \in 0 .. SwSize /\ n + 1 # 0 /\ (n + 1) - 1 = n
      BY ConstantsFit
    <3>2. QED BY <2>1, <3>1
  <2>3. QED BY <2>1, <2>2, ConstantsFit
<1> HIDE DEF Turns
<1> DEFINE Left(n, t) == Indirect!Bytes(t.rec) = 0 \/ t.rec.sw_ready <= SwSize - n
           Good == {n \in Nat : n <= SwSize =>
                      Kept(s, after[n], app, seen, fetched) /\ Left(n, after[n])}
<1>4. 0 \in Good
  <2>1. Kept(s, s, app, seen, fetched)
    BY DEF Kept
  <2>2. /\ s.queued + s.rec.sw_ready = app /\ s.rec.hw_ready = s.queued - seen
        /\ s.rec.sw_ready \in Nat /\ s.rec.hw_ready \in Nat /\ s.queued \in Nat
    BY ConstantsFit DEF Transferred, Counted, StateType, RecType
  <2>3. s.rec.sw_ready <= SwSize - 0
    BY <2>2, ConstantsFit
  <2>4. QED BY <1>3, <2>1, <2>3
<1>5. ASSUME NEW n \in Nat, n \in Good PROVE n + 1 \in Good
  <2> SUFFICES ASSUME n + 1 <= SwSize
               PROVE  Kept(s, after[n + 1], app, seen, fetched) /\ Left(n + 1, after[n + 1])
    BY <1>5
  <2> DEFINE t == after[n]
             u == after[n + 1]
  <2>1. Kept(s, t, app, seen, fetched) /\ Left(n, t)
    BY <1>5, ConstantsFit
  <2>2. u = Indirect!Turn(t)
    BY <1>3, ConstantsFit
  <2> HIDE DEF t, u
  <2>3. Transferred(t, app, seen, fetched)
    BY <2>1 DEF Kept
  <2>4. /\ Transferred(u, app, seen, fetched)
        /\ u.rec.hw_io = t.rec.hw_io /\ u.rec.sw_io = t.rec.sw_io
        /\ u.rec.appl_ptr = t.rec.appl_ptr /\ u.rec.running = t.rec.running
        /\ IF Indirect!Bytes(t.rec) = 0 THEN u = t ELSE u.rec.sw_ready < t.rec.sw_ready
    BY <2>2, <2>3, TurnKeeps
  <2>5. Kept(s, u, app, seen, fetched)
    BY <2>1, <2>4 DEF Kept
  <2>6. Left(n + 1, u)
    <3>1. t.rec.sw_ready \in Nat /\ u.rec.sw_ready \in Nat
      BY <2>3, <2>4 DEF Transferred, StateType, RecType
    <3>2. QED BY <2>1, <2>4, <3>1, ConstantsFit
  <2>7. QED BY <2>5, <2>6 DEF u
<1>6. Kept(s, e, app, seen, fetched) /\ Left(SwSize, e)
  <2>1. SwSize \in Good
    <3> HIDE DEF Good
    <3>1. QED BY <1>4, <1>5, SetInduction, ConstantsFit
  <2>2. QED BY <1>1, <2>1, ConstantsFit
<1>7. e.rec.sw_ready \in Nat
  BY <1>6 DEF Kept, Transferred, StateType, RecType
<1>8. Indirect!Bytes(e.rec) = 0
  <2>1. CASE Indirect!Bytes(e.rec) = 0
    BY <2>1
  <2>2. CASE e.rec.sw_ready <= SwSize - SwSize
    <3>1. ~(e.rec.sw_ready > 0)
      BY <1>7, <2>2, ConstantsFit
    <3>2. QED BY <3>1 DEF Indirect!Bytes
  <2>3. QED BY <1>6, <2>1, <2>2
<1>9. QED BY <1>6, <1>8

-------------------------------------------------------------------------------
(* The ALSA driver: the callbacks and the card. *)

\* An empty ring holds an empty stretch of the stream.
LEMMA EmptyChain ==
  ASSUME NEW r, r.rd = 0, r.wr = 0, NEW lost \in BOOLEAN
  PROVE  Chained(r, 0, 0, lost)
<1> DEFINE pos == [i \in Places |-> 0]
<1>1. InUse(r) = {}
  BY DEF InUse, Places
<1>2. Chain(r, pos, 0, 0, lost)
  BY <1>1 DEF Chain
<1>3. pos \in [Places -> Nat] /\ 0 \in Nat /\ 0 <= 0
  OBVIOUS
<1> HIDE DEF pos
<1>4. QED BY <1>2, <1>3 DEF Chained

\* Nothing of a stream is nothing of a buffer.
LEMMA StartOfBuffer == 0 % SwSize = 0
<1>1. 0 \in 0 .. SwSize - 1 /\ SwSize * 0 + 0 = 0
  BY ConstantsFit
<1>2. QED BY <1>1, ConstantsFit, RestIsRemainder

\* The invariant holds at the start.
LEMMA IndirectInit == Indirect!Init => IndirectInv
<1> SUFFICES ASSUME Indirect!Init PROVE IndirectInv
  OBVIOUS
<1> USE DEF Indirect!Init
<1>1. rec \in RecType
  BY ConstantsFit DEF RecType
<1>2. ring \in RingType
  BY ConstantsFit DEF RingType, Places, Indirect!Empty
<1>3. total \in TotalType /\ card \in CardType
  BY ConstantsFit DEF TotalType, CardType
<1>4. Chained(ring, 0, 0, failed)
  BY EmptyChain
<1>5. Loop \in StateType
  BY <1>1, <1>2 DEF StateType, Loop
<1>6. Counted(Loop, 0, 0)
  BY StartOfBuffer DEF Counted, Loop
<1>7. Transferred(Loop, 0, 0, 0)
  BY <1>4, <1>5, <1>6 DEF Transferred, Loop
<1>8. SeenInv
  BY StartOfBuffer DEF SeenInv
<1>9. QED BY <1>3, <1>7, <1>8, ConstantsFit DEF IndirectInv

\* What the parts of the invariant say of the variables.
LEMMA InvFacts ==
  ASSUME IndirectInv
  PROVE  /\ rec \in RecType /\ ring \in RingType /\ failed \in BOOLEAN
         /\ total.app \in Nat /\ total.queued \in Nat /\ total.fetched \in Nat
         /\ total.played \in Nat /\ total.seen \in Nat
         /\ card.rdptr \in 0 .. HwSize - 1
         /\ total.queued + rec.sw_ready = total.app
         /\ rec.hw_ready = total.queued - total.seen
         /\ rec.sw_data = total.queued % SwSize
         /\ Chained(ring, total.fetched, total.queued, failed)
BY DEF IndirectInv, Transferred, Counted, StateType, Loop, TotalType, CardType

\* What the card has fetched was queued.
LEMMA FetchedWasQueued ==
  ASSUME IndirectInv PROVE total.fetched <= total.queued
<1>1. PICK pos \in [Places -> Nat], end \in Nat :
        end <= total.queued /\ Chain(ring, pos, total.fetched, end, failed)
  BY InvFacts DEF Chained
<1>2. /\ ring.rd \in Places /\ ring.wr \in Places
      /\ ring.slot \in [Places -> [data : Nat, bytes : Nat]]
  BY InvFacts DEF RingType
<1>3. CASE ring.rd = ring.wr
  BY <1>1, <1>3 DEF Chain
<1>4. CASE ring.rd # ring.wr
  <2>1. ring.rd \in InUse(ring)
    BY <1>2, <1>4, ConstantsFit DEF InUse, Places
  <2>2. pos[ring.rd] + ring.slot[ring.rd].bytes <= end /\ pos[ring.rd] = total.fetched
    BY <1>1, <1>4, <2>1 DEF Chain
  <2>3. QED BY <1>1, <1>2, <2>2, InvFacts
<1>5. QED BY <1>3, <1>4

\* An ack with a record in which more may be seen, or more be written, than before.
LEMMA AckKeeps ==
  ASSUME IndirectInv, NEW r \in RecType, NEW appl \in Nat, NEW seen \in Nat,
         Indirect!snd_em8300_pcm_ack(r, appl), card' \in CardType,
         seen = total.seen + (rec.hw_ready - r.hw_ready),
         appl >= total.app, appl - seen <= SwSize, seen <= total.played,
         r.sw_ready = rec.sw_ready, r.sw_data = rec.sw_data, r.appl_ptr = rec.appl_ptr,
         r.sw_io = seen % SwSize,
         r.running => (card'.rdptr - r.hw_io) % HwSize <= total.played - seen
  PROVE  IndirectInv'
<1> DEFINE r1 == [r EXCEPT !.sw_ready = @ + appl - r.appl_ptr, !.appl_ptr = appl]
           s == [rec |-> r1, ring |-> ring, queued |-> total.queued, failed |-> failed]
           e == Indirect!snd_em8300_pcm_indirect_playback_transfer(s)
<1>1. /\ rec' = e.rec /\ ring' = e.ring /\ failed' = e.failed
      /\ total' = [total EXCEPT !.app = appl, !.queued = e.queued,
                                !.seen = @ + rec.hw_ready - r.hw_ready]
  BY DEF Indirect!snd_em8300_pcm_ack
<1>2. /\ rec.appl_ptr = total.app /\ total \in TotalType
      /\ total.played <= total.fetched
  BY DEF IndirectInv, SeenInv
<1>3. /\ r.hw_io \in 0 .. HwSize - 1 /\ r.hw_ready \in 0 .. HwSize
      /\ r.sw_data \in 0 .. SwSize - 1 /\ r.sw_io \in 0 .. SwSize - 1
      /\ r.sw_ready \in Nat /\ r.appl_ptr \in Nat /\ r.running \in BOOLEAN
  BY DEF RecType
<1>4. r1 = [hw_io |-> r.hw_io, hw_ready |-> r.hw_ready, sw_data |-> r.sw_data,
            sw_io |-> r.sw_io, sw_ready |-> r.sw_ready + appl - r.appl_ptr,
            appl_ptr |-> appl, running |-> r.running]
  <2>1. r = [hw_io |-> r.hw_io, hw_ready |-> r.hw_ready, sw_data |-> r.sw_data,
             sw_io |-> r.sw_io, sw_ready |-> r.sw_ready,
             appl_ptr |-> r.appl_ptr, running |-> r.running]
    BY ONLY r \in RecType DEF RecType
  <2>2. r1 = [[r EXCEPT !.sw_ready = @ + appl - r.appl_ptr] EXCEPT !.appl_ptr = appl]
    OBVIOUS
  <2> HIDE DEF r1
  <2>3. QED BY ONLY <2>1, <2>2
<1> HIDE DEF r1
<1>5. r.sw_ready + appl - r.appl_ptr \in Nat
      /\ total.queued + (r.sw_ready + appl - r.appl_ptr) = appl
  BY <1>2, <1>3, InvFacts
<1>6. r1 \in RecType
  BY <1>3, <1>4, <1>5 DEF RecType
<1>7. Transferred(s, appl, seen, total.fetched)
  <2>1. s \in StateType
    BY <1>6, InvFacts DEF StateType
  <2>2. total.queued + r1.sw_ready = appl
    BY <1>4, <1>5
  <2>3. r1.hw_ready = total.queued - seen
    <3>1. r1.hw_ready = r.hw_ready
      BY ONLY <1>4
    <3>2. /\ rec.hw_ready = total.queued - total.seen
          /\ total.queued \in Nat /\ total.seen \in Nat
      BY InvFacts
    <3>3. seen = total.seen + (rec.hw_ready - r.hw_ready)
      OBVIOUS
    <3>4. QED BY ONLY <1>3, <3>1, <3>2, <3>3, ConstantsFit
  <2>4. r1.sw_data = total.queued % SwSize
    <3>1. r1.sw_data = r.sw_data
      BY ONLY <1>4
    <3>2. QED BY <3>1, InvFacts
  <2>5. Counted(s, appl, seen)
    BY <2>2, <2>3, <2>4 DEF Counted
  <2>6. QED BY <2>1, <2>5, InvFacts DEF Transferred
<1> HIDE DEF s, e
<1>8. Kept(s, e, appl, seen, total.fetched)
  BY <1>7, InvFacts, LoopKeeps DEF e
<1>9. /\ total'.app = appl /\ total'.queued = e.queued /\ total'.seen = seen
      /\ total'.fetched = total.fetched /\ total'.played = total.played
      /\ total' \in TotalType
  <2>1. e.queued \in Nat
    BY <1>8 DEF Kept, Transferred, StateType
  <2>2. total.seen + rec.hw_ready - r.hw_ready = seen
    <3>1. rec.hw_ready \in Nat
      BY InvFacts, ConstantsFit DEF RecType
    <3>2. total.seen \in Nat
      BY InvFacts
    <3>3. seen = total.seen + (rec.hw_ready - r.hw_ready)
      OBVIOUS
    <3>4. QED BY ONLY <1>3, <3>1, <3>2, <3>3, ConstantsFit
  <2>3. total' = [app |-> appl, queued |-> e.queued, fetched |-> total.fetched,
                  played |-> total.played, seen |-> seen]
    BY <1>1, <1>2, <2>2 DEF TotalType
  <2>4. QED BY <2>1, <2>3, InvFacts DEF TotalType
<1>10. Loop' = e
  <2>1. e \in StateType
    BY <1>8 DEF Kept, Transferred
  <2>2. e = [rec |-> e.rec, ring |-> e.ring, queued |-> e.queued, failed |-> e.failed]
    BY <2>1 DEF StateType
  <2>3. QED BY <1>1, <1>9, <2>2 DEF Loop
<1>11. Transferred(Loop', total'.app, total'.seen, total'.fetched)
  BY <1>8, <1>9, <1>10 DEF Kept
<1>12. /\ rec'.hw_io = r.hw_io /\ rec'.sw_io = r.sw_io
       /\ rec'.appl_ptr = appl /\ rec'.running = r.running
  <2>1. /\ rec'.hw_io = r1.hw_io /\ rec'.sw_io = r1.sw_io
        /\ rec'.appl_ptr = r1.appl_ptr /\ rec'.running = r1.running
    BY <1>1, <1>8 DEF Kept, s
  <2>2. QED BY ONLY <1>4, <2>1
<1>13. SeenInv'
  BY <1>2, <1>9, <1>12 DEF SeenInv
<1>14. total'.app - total'.seen <= SwSize /\ rec'.appl_ptr = total'.app
  BY <1>9, <1>12
<1>15. QED BY <1>9, <1>11, <1>13, <1>14 DEF IndirectInv

\* snd_em8300_pcm_prepare: everything begins again.
LEMMA PrepareKeeps ==
  ASSUME IndirectInv, Indirect!snd_em8300_pcm_prepare PROVE IndirectInv'
<1> USE DEF Indirect!snd_em8300_pcm_prepare
<1>1. rec' \in RecType /\ ~rec'.running /\ rec'.appl_ptr = 0
      /\ rec'.sw_ready = 0 /\ rec'.hw_ready = 0 /\ rec'.sw_data = 0 /\ rec'.sw_io = 0
  <2>1. rec' = [hw_io |-> 0, hw_ready |-> 0, sw_data |-> 0, sw_io |-> 0,
                sw_ready |-> 0, appl_ptr |-> 0, running |-> rec.running]
    BY InvFacts DEF RecType
  <2>2. ~rec.running /\ rec.running \in BOOLEAN
    BY InvFacts DEF RecType
  <2> HIDE DEF Indirect!snd_em8300_pcm_prepare
  <2>3. QED BY <2>1, <2>2, ConstantsFit DEF RecType
<1>2. ring' \in RingType /\ ring'.rd = 0 /\ ring'.wr = 0
  <2>1. DOMAIN ring.slot = Places /\ ring = [slot |-> ring.slot, rd |-> ring.rd, wr |-> ring.wr]
    BY InvFacts DEF RingType
  <2>2. ring' = [slot |-> [i \in Places |-> Indirect!Empty], rd |-> 0, wr |-> 0]
    BY <2>1
  <2>3. QED BY <2>2, ConstantsFit DEF RingType, Places, Indirect!Empty
<1>3. total' \in TotalType /\ card' \in CardType /\ failed' \in BOOLEAN
      /\ total'.app = 0 /\ total'.seen = 0 /\ total'.fetched = 0 /\ total'.queued = 0
      /\ total'.played = 0
  BY DEF IndirectInv, TotalType
<1> HIDE DEF Indirect!snd_em8300_pcm_prepare
<1>4. Chained(ring', 0, 0, failed')
  BY <1>2, <1>3, EmptyChain
<1>5. Loop' \in StateType
  BY <1>1, <1>2, <1>3 DEF StateType, Loop
<1>6. Counted(Loop', 0, 0)
  BY <1>1, <1>3, StartOfBuffer DEF Counted, Loop
<1>7. Transferred(Loop', 0, 0, 0)
  BY <1>3, <1>4, <1>5, <1>6 DEF Transferred, Loop
<1>8. SeenInv'
  BY <1>1, <1>3, StartOfBuffer DEF SeenInv
<1>9. QED BY <1>1, <1>3, <1>7, <1>8, ConstantsFit DEF IndirectInv

\* START: what the card's pointer has gone over so far is not counted.
LEMMA StartKeeps ==
  ASSUME IndirectInv, Indirect!Trigger("START") PROVE IndirectInv'
<1> DEFINE r == [rec EXCEPT !.hw_io = card.rdptr, !.running = TRUE]
<1>1. /\ Indirect!snd_em8300_pcm_ack(r, total.app)
      /\ card' = [card EXCEPT !.command = "PLAY"]
  BY DEF Indirect!Trigger
<1>2. card' \in CardType /\ card'.rdptr = card.rdptr
  BY <1>1 DEF IndirectInv, CardType
<1>3. r = [hw_io |-> card.rdptr, hw_ready |-> rec.hw_ready, sw_data |-> rec.sw_data,
           sw_io |-> rec.sw_io, sw_ready |-> rec.sw_ready,
           appl_ptr |-> rec.appl_ptr, running |-> TRUE]
  <2>1. rec = [hw_io |-> rec.hw_io, hw_ready |-> rec.hw_ready, sw_data |-> rec.sw_data,
               sw_io |-> rec.sw_io, sw_ready |-> rec.sw_ready,
               appl_ptr |-> rec.appl_ptr, running |-> rec.running]
    BY InvFacts DEF RecType
  <2>2. r = [[rec EXCEPT !.hw_io = card.rdptr] EXCEPT !.running = TRUE]
    OBVIOUS
  <2> HIDE DEF r
  <2>3. QED BY ONLY <2>1, <2>2
<1> HIDE DEF r
<1>4. r \in RecType
  BY <1>3, InvFacts DEF RecType
<1>5. (card'.rdptr - r.hw_io) % HwSize = 0
  BY <1>2, <1>3, InvFacts, ConstantsFit, RemainderOfDifference
<1>6. /\ total.seen <= total.played /\ rec.sw_io = total.seen % SwSize
      /\ total.app - total.seen <= SwSize
  BY DEF IndirectInv, SeenInv
<1>7. total.seen = total.seen + (rec.hw_ready - r.hw_ready) /\ 0 <= total.played - total.seen
  BY <1>3, <1>6, InvFacts DEF RecType
<1>8. total.app >= total.app
  BY InvFacts
<1>9. QED BY <1>1, <1>2, <1>3, <1>4, <1>5, <1>6, <1>7, <1>8, InvFacts, AckKeeps

\* The invariant, of a step that leaves the record, the ring and what is counted there.
LEMMA CardKeeps ==
  ASSUME IndirectInv, rec' = rec \/ (rec' \in RecType /\ ~rec'.running
                                   /\ rec' = [rec EXCEPT !.running = rec'.running]),
         UNCHANGED <<ring, failed>>, card' \in CardType,
         NEW played \in Nat, total' = [total EXCEPT !.played = played],
         total.played <= played, played <= total.fetched,
         rec'.running => (card'.rdptr - rec.hw_io) % HwSize <= played - total.seen
  PROVE  IndirectInv'
<1>1. /\ total'.app = total.app /\ total'.queued = total.queued
      /\ total'.fetched = total.fetched /\ total'.seen = total.seen
      /\ total'.played = played /\ total' \in TotalType
  BY DEF IndirectInv, TotalType
<1>2. /\ rec'.hw_io = rec.hw_io /\ rec'.hw_ready = rec.hw_ready
      /\ rec'.sw_data = rec.sw_data /\ rec'.sw_io = rec.sw_io
      /\ rec'.sw_ready = rec.sw_ready /\ rec'.appl_ptr = rec.appl_ptr /\ rec' \in RecType
  BY InvFacts DEF RecType
<1>3. Loop' \in StateType
  BY <1>1, <1>2, InvFacts DEF StateType, Loop
<1>4. Counted(Loop', total.app, total.seen)
  BY <1>1, <1>2, InvFacts DEF Counted, Loop
<1>5. Transferred(Loop', total.app, total.seen, total.fetched)
  BY <1>1, <1>3, <1>4, InvFacts DEF Transferred, Loop
<1>6. /\ total.seen <= total.played /\ total.played <= total.fetched
      /\ rec.sw_io = total.seen % SwSize
  BY DEF IndirectInv, SeenInv
<1>7. total.seen <= played
  BY <1>6, InvFacts
<1>8. SeenInv'
  BY <1>1, <1>2, <1>6, <1>7 DEF SeenInv
<1>9. QED BY <1>1, <1>2, <1>5, <1>8 DEF IndirectInv

\* STOP: what the card had fetched is gone from its buffer.
LEMMA StopKeeps ==
  ASSUME IndirectInv, Indirect!Trigger("STOP") PROVE IndirectInv'
<1>1. /\ rec' = [rec EXCEPT !.running = FALSE]
      /\ card' = [command |-> "STOP",
                  rdptr |-> (card.rdptr + total.fetched - total.played) % HwSize]
      /\ total' = [total EXCEPT !.played = total.fetched]
      /\ UNCHANGED <<ring, failed>>
  BY DEF Indirect!Trigger
<1>2. rec' \in RecType /\ ~rec'.running /\ rec' = [rec EXCEPT !.running = rec'.running]
  BY <1>1, InvFacts DEF RecType
<1>3. card' \in CardType
  <2>1. card.rdptr + total.fetched - total.played \in Int
    BY InvFacts, ConstantsFit
  <2>2. (card.rdptr + total.fetched - total.played) % HwSize \in 0 .. HwSize - 1
    BY <2>1, ConstantsFit, DivMod
  <2>3. QED BY <1>1, <2>2 DEF CardType
<1>4. total.played <= total.fetched /\ total.fetched <= total.fetched
  BY InvFacts DEF IndirectInv, SeenInv
<1>5. QED BY <1>1, <1>2, <1>3, <1>4, InvFacts, CardKeeps

\* PAUSE_PUSH and PAUSE_RELEASE.
LEMMA PauseKeeps ==
  ASSUME IndirectInv, NEW cmd \in {"PAUSE_PUSH", "PAUSE_RELEASE"}, Indirect!Trigger(cmd)
  PROVE  IndirectInv'
<1>1. /\ card' = [card EXCEPT !.command = IF cmd = "PAUSE_PUSH" THEN "PAUSE" ELSE "PLAY"]
      /\ UNCHANGED <<rec, ring, total, failed>>
  <2>1. cmd # "START" /\ cmd # "STOP"
    OBVIOUS
  <2>2. QED BY <2>1 DEF Indirect!Trigger
<1>2. card' \in CardType /\ card'.rdptr = card.rdptr
  BY <1>1 DEF IndirectInv, CardType
<1>3. total' = [total EXCEPT !.played = total.played]
  BY <1>1 DEF IndirectInv, TotalType
<1>4. /\ total.played <= total.played /\ total.played <= total.fetched
      /\ rec.running => (card.rdptr - rec.hw_io) % HwSize <= total.played - total.seen
  BY InvFacts DEF IndirectInv, SeenInv
<1>5. QED BY <1>1, <1>2, <1>3, <1>4, InvFacts, CardKeeps

\* The application writes more.
LEMMA AppendKeeps ==
  ASSUME IndirectInv, NEW n \in 1 .. SwSize, Indirect!Append(n) PROVE IndirectInv'
<1>1. /\ total.app + n - total.seen <= SwSize /\ Indirect!snd_em8300_pcm_ack(rec, total.app + n)
      /\ card' = card
  BY DEF Indirect!Append
<1>2. /\ total.seen <= total.played /\ rec.sw_io = total.seen % SwSize
      /\ rec.running => (card.rdptr - rec.hw_io) % HwSize <= total.played - total.seen
      /\ card \in CardType
  BY DEF IndirectInv, SeenInv
<1>3. total.seen = total.seen + (rec.hw_ready - rec.hw_ready)
  BY InvFacts DEF RecType
<1>4. total.app + n \in Nat /\ total.app + n >= total.app
  BY InvFacts, ConstantsFit
<1>5. QED BY <1>1, <1>2, <1>3, <1>4, InvFacts, AckKeeps

\* The pointer callback: what the card's pointer has gone over was played.
LEMMA PointerKeeps ==
  ASSUME IndirectInv, Indirect!snd_em8300_pcm_pointer PROVE IndirectInv'
<1> DEFINE bytes == (card.rdptr - rec.hw_io) % HwSize
           io == IF rec.sw_io + bytes >= SwSize THEN rec.sw_io + bytes - SwSize
                 ELSE rec.sw_io + bytes
           r == [rec EXCEPT !.hw_io = card.rdptr, !.hw_ready = @ - bytes, !.sw_io = io]
           seen == total.seen + bytes
<1>1. rec.running /\ Indirect!snd_em8300_pcm_ack(r, total.app) /\ card' = card
  BY DEF Indirect!snd_em8300_pcm_pointer
<1>2. bytes \in Nat
  <2>1. card.rdptr - rec.hw_io \in Int
    BY InvFacts, ConstantsFit DEF RecType
  <2>2. QED BY <2>1, DivMod, ConstantsFit
<1>3. /\ bytes <= total.played - total.seen /\ rec.sw_io = total.seen % SwSize
      /\ total.played <= total.fetched /\ total.app - total.seen <= SwSize
      /\ card \in CardType
  BY <1>1 DEF IndirectInv, SeenInv
<1>4. r = [hw_io |-> card.rdptr, hw_ready |-> rec.hw_ready - bytes, sw_data |-> rec.sw_data,
           sw_io |-> io, sw_ready |-> rec.sw_ready,
           appl_ptr |-> rec.appl_ptr, running |-> rec.running]
  <2> HIDE DEF bytes, io
  <2>1. rec = [hw_io |-> rec.hw_io, hw_ready |-> rec.hw_ready, sw_data |-> rec.sw_data,
               sw_io |-> rec.sw_io, sw_ready |-> rec.sw_ready,
               appl_ptr |-> rec.appl_ptr, running |-> rec.running]
    BY InvFacts DEF RecType
  <2>2. r = [[[rec EXCEPT !.hw_io = card.rdptr] EXCEPT !.hw_ready = @ - bytes]
               EXCEPT !.sw_io = io]
    OBVIOUS
  <2> HIDE DEF r
  <2>3. QED BY ONLY <2>1, <2>2
<1> HIDE DEF bytes, r
<1>5. total.fetched <= total.queued
  BY FetchedWasQueued
<1>6. /\ rec.hw_ready \in 0 .. HwSize /\ rec.sw_io \in 0 .. SwSize - 1
      /\ rec.sw_ready \in Nat
  BY InvFacts DEF RecType
<1>7. bytes <= rec.hw_ready
  BY <1>2, <1>3, <1>5, InvFacts
<1>8. bytes <= SwSize
  BY <1>2, <1>3, <1>5, <1>6, InvFacts, ConstantsFit
<1>9. io = seen % SwSize /\ io \in 0 .. SwSize - 1
  <2>1. bytes \in 0 .. SwSize
    BY <1>2, <1>8, ConstantsFit
  <2>2. seen % SwSize = IF (total.seen % SwSize) + bytes >= SwSize
                        THEN (total.seen % SwSize) + bytes - SwSize
                        ELSE (total.seen % SwSize) + bytes
    BY <2>1, InvFacts, ConstantsFit, RemainderOfSum
  <2>3. io = seen % SwSize
    BY <1>3, <2>2
  <2>4. QED BY <1>6, <2>1, <2>3, ConstantsFit
<1> HIDE DEF io
<1>10. r \in RecType
  <2>1. rec.hw_ready - bytes \in 0 .. HwSize
    BY <1>2, <1>6, <1>7, ConstantsFit
  <2>2. rec.sw_data \in 0 .. SwSize - 1 /\ rec.appl_ptr \in Nat /\ rec.running \in BOOLEAN
    BY InvFacts DEF RecType
  <2>3. QED BY <1>4, <1>6, <1>9, <2>1, <2>2, InvFacts DEF RecType
<1>11. seen \in Nat /\ seen = total.seen + (rec.hw_ready - r.hw_ready)
       /\ total.app - seen <= SwSize /\ seen <= total.played /\ total.app >= total.app
  <2>1. r.hw_ready = rec.hw_ready - bytes
    BY ONLY <1>4
  <2>2. QED BY <1>2, <1>3, <1>6, <2>1, InvFacts, ConstantsFit
<1>12. (card'.rdptr - r.hw_io) % HwSize <= total.played - seen
  <2>1. r.hw_io = card.rdptr
    BY ONLY <1>4
  <2>2. (card'.rdptr - r.hw_io) % HwSize = 0
    BY <1>1, <2>1, InvFacts, ConstantsFit, RemainderOfDifference
  <2>3. QED BY <1>11, <2>2, InvFacts
<1>13. /\ r.sw_ready = rec.sw_ready /\ r.sw_data = rec.sw_data
       /\ r.appl_ptr = rec.appl_ptr /\ r.sw_io = io
  BY ONLY <1>4
<1> HIDE DEF seen
<1>14. card' \in CardType
  BY <1>1, <1>3
<1>15. QED BY <1>1, <1>9, <1>10, <1>11, <1>12, <1>13, <1>14, InvFacts, AckKeeps

\* The card fetches a slot.
LEMMA FetchKeeps ==
  ASSUME IndirectInv, Indirect!Fetch PROVE IndirectInv'
<1> DEFINE b == ring.slot[ring.rd].bytes
<1>1. /\ ring.rd # ring.wr
      /\ total' = [total EXCEPT !.fetched = @ + b]
      /\ ring' = [ring EXCEPT !.rd = (@ + 1) % Slots, !.slot[ring.rd] = Indirect!Empty]
      /\ UNCHANGED <<rec, card, failed>>
  BY DEF Indirect!Fetch
<1>2. /\ ring' \in RingType /\ ring.slot[ring.rd] \in [data : Nat, bytes : Nat]
      /\ Chained(ring', total.fetched + b, total.queued, failed)
  <2>1. /\ ring'.slot = [ring.slot EXCEPT ![ring.rd] = Indirect!Empty]
        /\ ring'.wr = ring.wr /\ ring'.rd = (ring.rd + 1) % Slots
        /\ ring' = [slot |-> ring'.slot, rd |-> ring'.rd, wr |-> ring'.wr]
    BY <1>1, InvFacts DEF RingType
  <2>2. ring.rd # ring.wr
    BY <1>1
  <2>3. QED BY <2>1, <2>2, InvFacts, ChainShrinks
<1>3. b \in Nat
  BY <1>2
<1> HIDE DEF b
<1>4. /\ total'.app = total.app /\ total'.queued = total.queued
      /\ total'.fetched = total.fetched + b /\ total'.seen = total.seen
      /\ total'.played = total.played /\ total' \in TotalType
  BY <1>1, <1>3 DEF IndirectInv, TotalType
<1>5. Loop' \in StateType
  BY <1>1, <1>2, <1>4, InvFacts DEF StateType, Loop
<1>6. Counted(Loop', total.app, total.seen)
  BY <1>1, <1>4, InvFacts DEF Counted, Loop
<1>7. Transferred(Loop', total.app, total.seen, total.fetched + b)
  BY <1>1, <1>2, <1>4, <1>5, <1>6 DEF Transferred, Loop
<1>8. SeenInv'
  BY <1>1, <1>3, <1>4, InvFacts DEF IndirectInv, SeenInv
<1>9. QED BY <1>1, <1>4, <1>7, <1>8 DEF IndirectInv

\* The card plays a unit.
LEMMA PlayKeeps ==
  ASSUME IndirectInv, Indirect!Play PROVE IndirectInv'
<1>1. /\ total.played < total.fetched
      /\ total' = [total EXCEPT !.played = total.played + 1]
      /\ card' = [card EXCEPT !.rdptr = (card.rdptr + 1) % HwSize]
      /\ UNCHANGED <<rec, ring, failed>>
  BY DEF Indirect!Play
<1> DEFINE a == card.rdptr
           b == (card.rdptr + 1) % HwSize
           h == rec.hw_io
<1>2. a \in 0 .. HwSize - 1 /\ h \in 0 .. HwSize - 1
  BY InvFacts DEF RecType
<1>3. b = (IF a + 1 = HwSize THEN 0 ELSE a + 1) /\ b \in 0 .. HwSize - 1
  BY <1>2, ConstantsFit, NextPlace
<1>4. card' \in CardType /\ card'.rdptr = b
  BY <1>1, <1>3 DEF IndirectInv, CardType
<1> HIDE DEF a, b, h
<1>5. /\ (a - h) % HwSize = IF a >= h THEN a - h ELSE a - h + HwSize
      /\ (b - h) % HwSize = IF b >= h THEN b - h ELSE b - h + HwSize
  BY <1>2, <1>3, ConstantsFit, RemainderOfDifference
<1> DEFINE before == (a - h) % HwSize
           after == (b - h) % HwSize
<1>6. before \in Nat /\ after \in Nat /\ after <= before + 1
  BY <1>2, <1>3, <1>5, ConstantsFit
<1>7. rec.running => before <= total.played - total.seen
  BY DEF IndirectInv, SeenInv, a, h
<1> HIDE DEF before, after
<1>8. rec.running => after <= (total.played + 1) - total.seen
  BY <1>6, <1>7, InvFacts
<1>9. /\ total.played + 1 \in Nat /\ total.played <= total.played + 1
      /\ total.played + 1 <= total.fetched
  BY <1>1, InvFacts
<1>10. rec'.running => (card'.rdptr - rec.hw_io) % HwSize <= (total.played + 1) - total.seen
  BY <1>1, <1>4, <1>8 DEF after, h
<1> DEFINE p == total.played + 1
<1>11. /\ p \in Nat /\ total.played <= p /\ p <= total.fetched
       /\ total' = [total EXCEPT !.played = p]
       /\ rec'.running => (card'.rdptr - rec.hw_io) % HwSize <= p - total.seen
  <2>1. p \in Nat /\ total.played <= p /\ p <= total.fetched
    BY <1>9
  <2>2. total' = [total EXCEPT !.played = p]
    BY <1>1
  <2>3. rec'.running => (card'.rdptr - rec.hw_io) % HwSize <= p - total.seen
    BY ONLY <1>10 DEF p
  <2>4. QED BY <2>1, <2>2, <2>3
<1> HIDE DEF p
<1>12. card' \in CardType /\ rec' = rec /\ UNCHANGED <<ring, failed>>
  BY <1>1, <1>4
<1>13. QED BY ONLY IndirectInv, <1>11, <1>12, CardKeeps

-------------------------------------------------------------------------------
(* The ALSA driver: the theorems. *)

\* Every step keeps the invariant.
LEMMA IndirectNext ==
  ASSUME IndirectInv, [Next]_vars PROVE IndirectInv'
<1>1. CASE Indirect!Next
  <2>1. CASE Indirect!snd_em8300_pcm_prepare
    BY <2>1, PrepareKeeps
  <2>2. CASE \E cmd \in {"START", "STOP", "PAUSE_PUSH", "PAUSE_RELEASE"} :
               Indirect!snd_em8300_pcm_trigger(cmd)
    <3>1. PICK cmd \in {"START", "STOP", "PAUSE_PUSH", "PAUSE_RELEASE"} : Indirect!Trigger(cmd)
      BY <2>2 DEF Indirect!snd_em8300_pcm_trigger
    <3>2. CASE cmd = "START"
      BY <3>1, <3>2, StartKeeps
    <3>3. CASE cmd = "STOP"
      BY <3>1, <3>3, StopKeeps
    <3>4. CASE cmd \in {"PAUSE_PUSH", "PAUSE_RELEASE"}
      BY <3>1, <3>4, PauseKeeps
    <3>5. QED BY <3>2, <3>3, <3>4
  <2>3. CASE \E n \in 1 .. SwSize : Indirect!Append(n)
    BY <2>3, AppendKeeps
  <2>4. CASE Indirect!snd_em8300_pcm_pointer
    BY <2>4, PointerKeeps
  <2>5. CASE Indirect!Fetch
    BY <2>5, FetchKeeps
  <2>6. CASE Indirect!Play
    BY <2>6, PlayKeeps
  <2>7. QED BY <1>1, <2>1, <2>2, <2>3, <2>4, <2>5, <2>6 DEF Indirect!Next
<1>2. CASE UNCHANGED indirectVars
  <2>1. UNCHANGED <<rec, ring, card, total, failed>>
    BY <1>2 DEF indirectVars
  <2>2. Loop' = Loop
    BY <2>1 DEF Loop
  <2>3. SeenInv' = SeenInv
    BY <2>1 DEF SeenInv
  <2>4. QED BY <2>1, <2>2, <2>3 DEF IndirectInv
<1>3. QED BY <1>1, <1>2 DEF Next, vars

\* The driver's account of the playback is kept by every step.
THEOREM PlaybackIsAccounted == Spec => []IndirectInv
<1>1. Init => IndirectInv
  BY IndirectInit DEF Init
<1>2. IndirectInv /\ [Next]_vars => IndirectInv'
  BY IndirectNext
<1>3. QED BY <1>1, <1>2, PTL DEF Spec

\* The application is never told of room that the card has yet to fetch or play.
THEOREM NothingIsOverwritten == Spec => []NothingOverwritten
<1>1. IndirectInv => NothingOverwritten
  <2> SUFFICES ASSUME IndirectInv PROVE NothingOverwritten
    OBVIOUS
  <2>1. /\ total.seen <= total.played /\ total.played <= total.fetched
        /\ rec.sw_io = total.seen % SwSize /\ total.app - total.seen <= SwSize
    BY DEF IndirectInv, SeenInv
  <2>2. total.app - total.fetched <= SwSize
    BY <2>1, InvFacts, ConstantsFit
  <2>3. rec.hw_ready = total.queued - total.seen /\ rec.hw_ready \in 0 .. HwSize
    BY InvFacts DEF RecType
  <2>4. QED BY <2>1, <2>2, <2>3 DEF NothingOverwritten, Indirect!NothingOverwritten
<1>2. QED BY <1>1, PlaybackIsAccounted, PTL

\* The card is given the stream in order and without a gap, unless a transfer found
\* the ring full.
THEOREM StreamIsQueuedInOrder == Spec => []QueuedInOrder
<1>1. IndirectInv => QueuedInOrder
  <2> SUFFICES ASSUME IndirectInv, ring.rd # ring.wr, ~failed
               PROVE  /\ ring.slot[ring.rd].bytes > 0
                      /\ ring.slot[ring.rd].data = total.fetched % SwSize
                      /\ ring.slot[ring.rd].data + ring.slot[ring.rd].bytes <= SwSize
    BY DEF QueuedInOrder, Indirect!QueuedInOrder
  <2>1. PICK pos \in [Places -> Nat], end \in Nat :
          Chain(ring, pos, total.fetched, end, failed)
    BY InvFacts DEF Chained
  <2>2. ring.rd \in InUse(ring) /\ pos[ring.rd] = total.fetched
    <3>1. ring.rd \in Places /\ ring.wr \in Places
      BY InvFacts DEF RingType
    <3>2. ring.rd \in InUse(ring)
      BY <3>1, ConstantsFit DEF InUse, Places
    <3>3. QED BY <2>1, <3>2 DEF Chain
  <2>3. SlotFits(ring.slot[ring.rd], total.fetched, failed)
    BY <2>1, <2>2 DEF Chain
  <2>4. QED BY <2>3 DEF SlotFits
<1>2. QED BY <1>1, PlaybackIsAccounted, PTL
===============================================================================
