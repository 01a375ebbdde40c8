------------------------------ MODULE Em8300Open ------------------------------
(***************************************************************************)
(* Who may have a card's devices open: the open, write, mmap and release    *)
(* operations of the character devices (em8300_main.c) and the open and     *)
(* close of the ALSA playback stream (em8300_alsa.c).                       *)
(*                                                                          *)
(* Three drivers share the audio part of a card: the character device, the  *)
(* OSS dsp device and ALSA.  em->audio_driver_style, tested and set under a *)
(* semaphore, arbitrates; but em->inuse, em->memory and em8300_alsa's       *)
(* substream are read and written outside of it, and opening sleeps while   *)
(* the microcode is loaded, so that an open and a release of two processes  *)
(* interleave at every step below.                                          *)
(***************************************************************************)
EXTENDS Integers, FiniteSets

CONSTANTS
  Procs,      \* the processes that open devices
  Kinds,      \* the devices they open
  Blocks,     \* memory that mmap can hand out
  MaxOpens,   \* bound on the opens of one process
  NoOne       \* the value of a NULL pointer

ASSUME KindsAssumption ==
  Kinds \subseteq {"control", "audio", "video", "spu", "dsp", "alsa"}
ASSUME NoOneAssumption == NoOne \notin Procs \cup Blocks /\ MaxOpens \in Nat

VARIABLES
  \* struct em8300_s
  style,      \* em->audio_driver_style
  ucode,      \* em->ucodeloaded
  inuse,      \* em->inuse
  nonblock,   \* em->nonblock
  memory,     \* em->memory, the list of the mapped blocks
  substream,  \* em8300_alsa->substream
  \* the processes
  pc,         \* where each process is
  kind,       \* the device it opens
  flag,       \* O_NONBLOCK of its file
  opens,      \* how many opens it has made
  info,       \* the block its release is freeing
  \* history
  live,       \* the blocks allocated and not freed
  said,       \* the complaints the driver has printed
  disobeyed,  \* a write blocked or not against the flag of its file
  overlap,    \* the list was changed while another process was freeing
  refreed     \* a block was freed twice

card == <<style, ucode, inuse, nonblock, memory, substream>>
local == <<kind, flag, opens, info>>
history == <<live, said, disobeyed, overlap, refreed>>
vars == <<style, ucode, inuse, nonblock, memory, substream, pc, kind, flag,
          opens, info, live, said, disobeyed, overlap, refreed>>

Subdevices == {"control", "audio", "video", "spu"}

\* The subdevice that a device is counted under.
Sub(k) == IF k \in {"dsp", "alsa"} THEN "audio" ELSE k

AudioKinds == {"audio", "dsp", "alsa"}
StyleOf(k) == IF k = "alsa" THEN "ALSA" ELSE "OSS"

Goto(p, to) == pc' = [pc EXCEPT ![p] = to]

Init ==
  /\ style = "NONE"
  /\ ucode \in BOOLEAN
  /\ inuse = [d \in Subdevices |-> 0]
  /\ nonblock = [d \in Subdevices |-> FALSE]
  /\ memory = {}
  /\ substream = NoOne
  /\ pc = [p \in Procs |-> "idle"]
  /\ kind \in [Procs -> Kinds]
  /\ flag = [p \in Procs |-> FALSE]
  /\ opens = [p \in Procs |-> 0]
  /\ info = [p \in Procs |-> NoOne]
  /\ live = {}
  /\ said = {}
  /\ disobeyed = FALSE /\ overlap = FALSE /\ refreed = FALSE

\* The list is being changed under a release that has picked its head.
Overlap == overlap' = (overlap \/ \E q \in Procs : pc[q] = "freeing")

Begin(p, k, nb) ==
  /\ pc[p] = "idle"
  /\ opens[p] < MaxOpens
  /\ opens' = [opens EXCEPT ![p] = @ + 1]
  /\ kind' = [kind EXCEPT ![p] = k]
  /\ flag' = [flag EXCEPT ![p] = nb]

-------------------------------------------------------------------------------
(* Opening. *)

\* em8300_io_open, up to the point where it sleeps.  A device in use is
\* refused; the control device may be open any number of times; and every open
\* makes the list of the mapped blocks empty.
IoOpen(p, k, nb) ==
  /\ k \in Subdevices
  /\ Begin(p, k, nb)
  /\ IF k # "control" /\ inuse[k] > 0
     THEN UNCHANGED <<pc, card, overlap>>
     ELSE /\ memory' = {}
          /\ Overlap
          /\ nonblock' = [nonblock EXCEPT !["control"] =
                            IF k = "control" THEN nb ELSE @]
          /\ Goto(p, IF k = "control" THEN "count"
                  ELSE IF k = "audio" THEN "claim" ELSE "ucode")
          /\ UNCHANGED <<style, ucode, inuse, substream>>
  /\ UNCHANGED <<info, live, said, disobeyed, refreed>>

\* em8300_dsp_open and snd_em8300_playback_open.
DspOpen(p, nb) ==
  /\ Begin(p, "dsp", nb)
  /\ Goto(p, "claim")
  /\ UNCHANGED <<card, info, history>>

AlsaOpen(p) ==
  /\ Begin(p, "alsa", FALSE)
  /\ Goto(p, "ucode")
  /\ UNCHANGED <<card, info, history>>

\* Variant: the driver style is set without being tested.
ClaimUntested(p) ==
  /\ pc[p] = "claim"
  /\ style' = StyleOf(kind[p])
  /\ nonblock' = [nonblock EXCEPT !["audio"] =
                    IF kind[p] = "audio" THEN flag[p] ELSE @]
  /\ Goto(p, IF kind[p] = "audio" THEN "ucode"
          ELSE IF kind[p] = "dsp" THEN "inuse" ELSE "substream")
  /\ UNCHANGED <<ucode, inuse, memory, substream, local, history>>

\* Test and set of the driver style under em->audio_driver_style_lock.
Claim(p) ==
  /\ pc[p] = "claim"
  /\ IF style # "NONE"
     THEN Goto(p, "idle") /\ UNCHANGED <<style, nonblock>>
     ELSE /\ style' = StyleOf(kind[p])
          /\ nonblock' = [nonblock EXCEPT !["audio"] =
                            IF kind[p] = "audio" THEN flag[p] ELSE @]
          /\ Goto(p, IF kind[p] = "audio" THEN "ucode"
                  ELSE IF kind[p] = "dsp" THEN "inuse" ELSE "substream")
  /\ UNCHANGED <<ucode, inuse, memory, substream, local, history>>

\* em8300_dsp_open looks at the use count after its claim.
DspCheck(p) ==
  /\ pc[p] = "inuse"
  /\ IF inuse["audio"] > 0
     THEN /\ said' = said \cup {"inuse"}
          /\ style' = "NONE"
          /\ Goto(p, "idle")
     ELSE Goto(p, "ucode") /\ UNCHANGED <<said, style>>
  /\ UNCHANGED <<ucode, inuse, nonblock, memory, substream, local, live,
                 disobeyed, overlap, refreed>>

\* snd_em8300_playback_open looks at the substream after its claim.
AlsaCheck(p) ==
  /\ pc[p] = "substream"
  /\ IF substream # NoOne
     THEN /\ said' = said \cup {"substream"}
          /\ style' = "NONE"
          /\ Goto(p, "idle")
          /\ UNCHANGED substream
     ELSE /\ substream' = p
          /\ Goto(p, "open")
          /\ UNCHANGED <<said, style>>
  /\ UNCHANGED <<ucode, inuse, nonblock, memory, local, live, disobeyed,
                 overlap, refreed>>

\* em8300_require_ucode sleeps, and either loads the microcode (if nobody has)
\* or fails; then the subdevice is started, or the open fails with ENODEV.
RequireUcode(p, ok) ==
  /\ pc[p] = "ucode"
  /\ ucode' = (ucode \/ ok)
  /\ IF ~ucode'
     THEN /\ style' = IF kind[p] \in {"audio", "dsp"} THEN "NONE" ELSE style
          /\ Goto(p, "idle")
          /\ UNCHANGED nonblock
     ELSE /\ nonblock' = [nonblock EXCEPT ![Sub(kind[p])] =
                            IF kind[p] \in {"video", "spu"} THEN flag[p] ELSE @]
          /\ Goto(p, IF kind[p] = "alsa" THEN "claim" ELSE "count")
          /\ UNCHANGED style
  /\ UNCHANGED <<inuse, memory, substream, local, history>>

\* em->inuse[subdevice]++
Count(p) ==
  /\ pc[p] = "count"
  /\ inuse' = [inuse EXCEPT ![Sub(kind[p])] = @ + 1]
  /\ Goto(p, "open")
  /\ UNCHANGED <<style, ucode, nonblock, memory, substream, local, history>>

-------------------------------------------------------------------------------
(* Using an open device. *)

\* fcntl changes O_NONBLOCK of an open file.
Fcntl(p) ==
  /\ pc[p] = "open" /\ kind[p] # "alsa"
  /\ flag' = [flag EXCEPT ![p] = ~@]
  /\ UNCHANGED <<card, pc, kind, opens, info, history>>

\* em8300_io_write takes the flag of the file; em8300_dsp_write does not.  The
\* write itself waits for room according to em->nonblock.
Write(p) ==
  /\ pc[p] = "open" /\ kind[p] \in {"audio", "video", "spu", "dsp"}
  /\ nonblock' = [nonblock EXCEPT ![Sub(kind[p])] =
                    IF kind[p] = "dsp" THEN @ ELSE flag[p]]
  /\ disobeyed' = (disobeyed \/ nonblock'[Sub(kind[p])] # flag[p])
  /\ UNCHANGED <<style, ucode, inuse, memory, substream, pc, local, live, said,
                 overlap, refreed>>

\* em8300_io_mmap of offset 1 allocates a block and puts it on the list.
Mmap(p, b) ==
  /\ pc[p] = "open" /\ kind[p] = "control"
  /\ b \notin live \cup memory
  /\ live' = live \cup {b}
  /\ memory' = memory \cup {b}
  /\ Overlap
  /\ UNCHANGED <<style, ucode, inuse, nonblock, substream, pc, local, said,
                 disobeyed, refreed>>

-------------------------------------------------------------------------------
(* Closing. *)

\* em8300_io_release, em8300_dsp_release and snd_em8300_playback_close begin;
\* the first two sleep until the FIFO of the subdevice has drained.
Close(p) ==
  /\ pc[p] = "open"
  /\ Goto(p, IF kind[p] \in {"audio", "dsp"} THEN "unclaim"
          ELSE IF kind[p] = "alsa" THEN "detach" ELSE "free")
  /\ UNCHANGED <<card, local, history>>

\* Variant: the claim is given up before the substream.
DetachLate(p) ==
  /\ pc[p] = "detach"
  /\ style' = "NONE"
  /\ Goto(p, "unclaim")
  /\ UNCHANGED <<ucode, inuse, nonblock, memory, substream, local, history>>

\* em8300_alsa->substream = NULL
Detach(p) ==
  /\ pc[p] = "detach"
  /\ substream' = NoOne
  /\ Goto(p, "unclaim")
  /\ UNCHANGED <<style, ucode, inuse, nonblock, memory, local, history>>

\* Variant: the close of the ALSA stream takes a count back.
UnclaimUncountsAlsa(p) ==
  /\ pc[p] = "unclaim"
  /\ style' = "NONE"
  /\ Goto(p, IF kind[p] = "audio" THEN "free" ELSE "uncount")
  /\ UNCHANGED <<ucode, inuse, nonblock, memory, substream, local, history>>

\* em->audio_driver_style = NONE, without the semaphore.
Unclaim(p) ==
  /\ pc[p] = "unclaim"
  /\ style' = "NONE"
  /\ Goto(p, IF kind[p] = "audio" THEN "free"
          ELSE IF kind[p] = "dsp" THEN "uncount" ELSE "idle")
  /\ UNCHANGED <<ucode, inuse, nonblock, memory, substream, local, history>>

\* The release of any character device frees every block of the list: it
\* looks at the head of the list ...
FreePick(p) ==
  /\ pc[p] = "free"
  /\ IF memory = {}
     THEN Goto(p, "uncount") /\ UNCHANGED <<info, overlap>>
     ELSE /\ \E b \in memory : info' = [info EXCEPT ![p] = b]
          /\ Overlap
          /\ Goto(p, "freeing")
  /\ UNCHANGED <<card, kind, flag, opens, live, said, disobeyed, refreed>>

\* Variant: the freed block stays on the list.
FreeBlockKeepsEntry(p) ==
  /\ pc[p] = "freeing"
  /\ live' = live \ {info[p]}
  /\ refreed' = (refreed \/ info[p] \notin live)
  /\ info' = [info EXCEPT ![p] = NoOne]
  /\ Goto(p, "uncount")
  /\ UNCHANGED <<card, kind, flag, opens, said, disobeyed, overlap>>

\* ... and takes it off and frees it.
FreeBlock(p) ==
  /\ pc[p] = "freeing"
  /\ memory' = memory \ {info[p]}
  /\ live' = live \ {info[p]}
  /\ refreed' = (refreed \/ info[p] \notin live)
  /\ info' = [info EXCEPT ![p] = NoOne]
  /\ Goto(p, "free")
  /\ UNCHANGED <<style, ucode, inuse, nonblock, substream, kind, flag, opens,
                 said, disobeyed, overlap>>

\* em->inuse[subdevice]--
Uncount(p) ==
  /\ pc[p] = "uncount"
  /\ inuse' = [inuse EXCEPT ![Sub(kind[p])] = @ - 1]
  /\ Goto(p, "idle")
  /\ UNCHANGED <<style, ucode, nonblock, memory, substream, local, history>>

-------------------------------------------------------------------------------
Opening(p) ==
  \/ \E k \in Kinds \cap Subdevices, nb \in BOOLEAN : IoOpen(p, k, nb)
  \/ "dsp" \in Kinds /\ \E nb \in BOOLEAN : DspOpen(p, nb)
  \/ "alsa" \in Kinds /\ AlsaOpen(p)
  \/ Claim(p) \/ DspCheck(p) \/ AlsaCheck(p) \/ Count(p)
  \/ \E ok \in BOOLEAN : RequireUcode(p, ok)

Using(p) == Fcntl(p) \/ Write(p) \/ \E b \in Blocks : Mmap(p, b)

Closing(p) ==
  Close(p) \/ Detach(p) \/ Unclaim(p) \/ FreePick(p) \/ FreeBlock(p) \/ Uncount(p)

Next == \E p \in Procs : Opening(p) \/ Using(p) \/ Closing(p)

Spec == Init /\ [][Next]_vars

-------------------------------------------------------------------------------
(* Properties. *)

TypeInv ==
  /\ style \in {"NONE", "OSS", "ALSA"}
  /\ ucode \in BOOLEAN
  /\ inuse \in [Subdevices -> Int]
  /\ nonblock \in [Subdevices -> BOOLEAN]
  /\ memory \subseteq Blocks
  /\ substream \in Procs \cup {NoOne}
  /\ pc \in [Procs -> {"idle", "claim", "inuse", "substream", "ucode", "count",
                       "open", "detach", "unclaim", "free", "freeing",
                       "uncount"}]
  /\ kind \in [Procs -> Kinds]
  /\ flag \in [Procs -> BOOLEAN]
  /\ opens \in [Procs -> 0 .. MaxOpens]
  /\ info \in [Procs -> Blocks \cup {NoOne}]
  /\ live \subseteq Blocks
  /\ said \subseteq {"inuse", "substream"}
  /\ disobeyed \in BOOLEAN /\ overlap \in BOOLEAN /\ refreed \in BOOLEAN

\* Every variable has its type, and no use count drops below zero: every release
\* takes back a count that an open has made (em->inuse).
TypeOK == TypeInv /\ \A d \in Subdevices : inuse[d] >= 0

\* The process has set the driver style and not given it up yet.
Claims(p) ==
  /\ kind[p] \in AudioKinds
  /\ pc[p] \in {"inuse", "substream", "count", "open", "detach", "unclaim"}
       \cup (IF kind[p] = "alsa" THEN {} ELSE {"ucode"})

\* The audio part of a card has one user at a time, of whichever of the three
\* drivers, and the driver style names it as long as it is there and no longer:
\* neither an open that fails half way nor a release that another open overtakes
\* leaves the card claimed by nobody or by two (em->audio_driver_style).
AudioExclusive ==
  /\ \A p, q \in Procs : Claims(p) /\ Claims(q) => p = q
  /\ style = "NONE" <=> \A p \in Procs : ~Claims(p)
  /\ \A p \in Procs : Claims(p) => style = StyleOf(kind[p])

\* snd_em8300_playback_open never finds a substream of another process when it
\* has claimed the card, as its message says it should not: the close gives up
\* the substream first.
NoStaleSubstream == "substream" \notin said

\* No block is freed twice, whatever processes open, map and close in whatever
\* order, unless one changes the list while another walks it, which no lock
\* prevents (em8300_io_release).
FreedOnce == ~overlap => ~refreed

\* em8300_dsp_open never finds the audio device in use when it has claimed it.
DspNeverComplains == "inuse" \notin said

\* The list keeps track of the memory that has been allocated through mmap.
MemoryTracked == live \subseteq memory

\* O_NONBLOCK is looked at whenever a write is attempted.
WritesObeyFlag == ~disobeyed
===============================================================================
