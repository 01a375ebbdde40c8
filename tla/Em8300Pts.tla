------------------------------- MODULE Em8300Pts -------------------------------
(***************************************************************************)
(* Presentation times: em8300_video_write and em8300_spu_write, the SETPTS  *)
(* ioctls before them, and the PTS FIFO of the card that they fill.         *)
(*                                                                          *)
(* A player sets the time of the data it is about to write; the write posts *)
(* it, with the offset of the data in the stream, in a ring of entries in   *)
(* the card's memory, waiting up to a second for the entry at its pointer   *)
(* to be free, and only then writes the data.  Bit 0 of the last word says  *)
(* that an entry is occupied; the card takes the entries in turn and clears *)
(* it.  The vertical blanking interrupt wakes the waiting write, if it is   *)
(* enabled: only the video device and the VBI ioctl enable it.              *)
(*                                                                          *)
(* Other processes flush the FIFOs and stop and start playback meanwhile,   *)
(* which moves the pointer and the offset under a write.                    *)
(***************************************************************************)
EXTENDS Integers, Em8300Bits

CONSTANTS
  Streams,    \* "video", "spu": which of the two writes is looked at
  Entries,    \* how many entries the PTS FIFO has
  Times,      \* the presentation times a player sets
  Sizes,      \* how many bytes a write may offer
  MaxWrites,  \* bound on the writes
  MaxResets   \* bound on the flushes, stops, starts, opens and releases

ASSUME StreamAssumption == Streams \subseteq {"video", "spu"}
ASSUME EntriesAssumption == Entries \in Words \ {0}
ASSUME BoundAssumption ==
  /\ Times \subseteq Nat /\ Sizes \subseteq Nat
  /\ MaxWrites \in Nat /\ MaxResets \in Nat

VARIABLES
  \* struct em8300_s (the sp_ fields when stream = "spu")
  stream,     \* constant: the write that is looked at
  pts,        \* video_pts
  ptsvalid,   \* video_ptsvalid
  lastpts,    \* video_lastpts
  ptr,        \* video_ptsfifo_ptr
  offset,     \* video_offset
  playing,    \* video_playmode is PLAY, not STOPPED
  mode,       \* sp_mode
  open,       \* the device of the stream is open
  \* the card
  vbl,        \* the vertical blanking interrupt is enabled
  entry,      \* the entries of the PTS FIFO
  crd,        \* the entry the card takes next
  \* the write
  pc,
  slot,       \* ptsfifoptr
  count,      \* bytes offered
  written,    \* bytes the FIFO has accepted of them
  \* bounds and history
  writes,     \* how many writes were begun
  resets,     \* how many flushes, stops, starts, opens and releases there were
  asked,      \* the last time the player set
  accepted,   \* bytes the FIFO has accepted since the offset was last reset
  lost,       \* those of them that belong to writes that returned an error
  undisturbed, \* the pending time has met no failed wait of a video write, no
              \* start, and no SETPTS or flush while it was being posted
  steady,     \* the last reset of the offset did not come between a write's
              \* acceptance and its end
  posted,     \* how many entries were posted
  taken       \* how many the card has taken

device == <<stream, open, vbl>>
state == <<device, pts, ptsvalid, lastpts, ptr, offset, playing, mode>>
write == <<pc, slot, count, written, writes>>
history == <<asked, accepted, lost, undisturbed, steady, posted, taken>>
vars == <<state, entry, crd, write, resets, history>>

\* A write between its look at the pointer and its time being posted.
Posting == pc \in {"wait", "sleep", "post", "commit"}

Half(t) == t \div 2

Free == [valid |-> FALSE, off |-> 0, pts |-> 0,
         want |-> 0, exact |-> FALSE, no |-> 0]

\* The device has been opened; for the video stream that has enabled the interrupt.
Init ==
  /\ stream \in Streams
  /\ pts = 0 /\ lastpts = 0
  /\ ptsvalid = FALSE
  /\ ptr = 0 /\ offset = 0
  /\ playing = TRUE
  /\ mode = TRUE
  /\ open = TRUE /\ vbl \in IF stream = "video" THEN {TRUE} ELSE BOOLEAN
  /\ entry = [i \in 0 .. Entries - 1 |-> Free]
  /\ crd = 0
  /\ pc = "idle"
  /\ slot = 0 /\ count = 0 /\ written = 0
  /\ writes = 0 /\ resets = 0
  /\ asked = 0 /\ accepted = 0 /\ lost = 0
  /\ undisturbed = TRUE /\ steady = TRUE
  /\ posted = 0 /\ taken = 0

-------------------------------------------------------------------------------
(* The player. *)

\* EM8300_IOCTL_VIDEO_SETPTS ignores the time it was given last.
VideoSetPts(t) ==
  /\ stream = "video"
  /\ pts' = t
  /\ ptsvalid' = (ptsvalid \/ t # lastpts)
  /\ lastpts' = t

\* Variant: both the ioctl and the write halve the time.
SpuSetPtsHalvedTwice(t) ==
  /\ stream = "spu"
  /\ pts' = Half(Half(t))
  /\ ptsvalid' = TRUE
  /\ UNCHANGED lastpts

\* EM8300_IOCTL_SPU_SETPTS halves the time at once.
SpuSetPts(t) ==
  /\ stream = "spu"
  /\ pts' = Half(t)
  /\ ptsvalid' = TRUE
  /\ UNCHANGED lastpts

SetPts(t) ==
  /\ open
  /\ VideoSetPts(t) \/ SpuSetPts(t)
  /\ asked' = t
  /\ undisturbed' = ~Posting
  /\ UNCHANGED <<device, ptr, offset, playing, mode, entry, crd, write, resets,
                 accepted, lost, steady, posted, taken>>

\* The write begins.  Without subpictures (sp_mode) it returns 0 at once; the
\* video write halves the pending time before it waits.
Write(n) ==
  /\ open /\ pc = "idle" /\ writes < MaxWrites
  /\ writes' = writes + 1
  /\ count' = n /\ written' = 0
  /\ IF ~mode THEN UNCHANGED <<pts, slot, pc>>
     ELSE IF ptsvalid
     THEN /\ pts' = IF stream = "video" THEN Half(pts) ELSE pts
          /\ slot' = ptr
          /\ pc' = "wait"
     ELSE pc' = "fifo" /\ UNCHANGED <<pts, slot>>
  /\ UNCHANGED <<device, ptsvalid, lastpts, ptr, offset, playing, mode,
                 entry, crd, resets, history>>

\* The condition of the wait.
WaitForEntry ==
  /\ pc = "wait"
  /\ pc' = IF entry[slot].valid THEN "sleep" ELSE "post"
  /\ UNCHANGED <<state, entry, crd, slot, count, written, writes, resets,
                 history>>

\* Variant: a wait that timed out goes on to post.
WaitFailsPosting ==
  /\ pc = "sleep"
  /\ pc' = "post"
  /\ UNCHANGED <<state, entry, crd, slot, count, written, writes, resets,
                 history>>

\* A second passes or a signal comes: the time stays pending, and a video write
\* that is tried again halves it once more.
WaitFails ==
  /\ pc = "sleep"
  /\ pc' = "idle"
  /\ undisturbed' = (undisturbed /\ stream = "spu")
  /\ UNCHANGED <<state, entry, crd, slot, count, written, writes, resets,
                 asked, accepted, lost, steady, posted, taken>>

\* The words before the last one, of which only those of the offset matter ...
Post ==
  /\ pc = "post"
  /\ entry' = [entry EXCEPT ![slot].off =
                               IF stream = "video" THEN offset ELSE @]
  /\ pc' = "commit"
  /\ UNCHANGED <<state, crd, slot, count, written, writes, resets, history>>

\* Variant: the pointer is not reduced.
NextEntryUnreduced(i) == i + 1

\* Variant: the size is divided once too often.
NextEntryHalfMask(i) == And[<<i + 1, Entries \div 2 - 1>>]

\* The remainder for video, a mask for subpictures.
NextEntry(i) ==
  IF stream = "video" THEN (i + 1) % Entries ELSE And[<<i + 1, Entries - 1>>]

\* Variant: the time stays pending after it was posted.
CommitKeepsPending ==
  /\ pc = "commit"
  /\ entry' = [entry EXCEPT ![slot] =
                 [@ EXCEPT !.valid = TRUE, !.pts = pts, !.want = Half(asked),
                           !.exact = undisturbed, !.no = posted + 1]]
  /\ posted' = posted + 1
  /\ ptr' = NextEntry(ptr)
  /\ pc' = "fifo"
  /\ UNCHANGED <<device, pts, ptsvalid, lastpts, offset, playing, mode, crd,
                 slot, count, written, writes, resets, asked, accepted, lost,
                 undisturbed, steady, taken>>

\* ... and the time, whose lowest bit gives way to the occupied bit.
Commit ==
  /\ pc = "commit"
  /\ entry' = [entry EXCEPT ![slot] =
                 [@ EXCEPT !.valid = TRUE, !.pts = pts, !.want = Half(asked),
                           !.exact = undisturbed, !.no = posted + 1]]
  /\ posted' = posted + 1
  /\ ptr' = NextEntry(ptr)
  /\ ptsvalid' = FALSE
  /\ pc' = "fifo"
  /\ UNCHANGED <<device, pts, lastpts, offset, playing, mode, crd, slot,
                 count, written, writes, resets, asked, accepted, lost,
                 undisturbed, steady, taken>>

\* The FIFO accepts some of the bytes (see Em8300Fifo), here all at once.
Accept(k) ==
  /\ pc = "fifo" /\ written = 0
  /\ written' = k
  /\ accepted' = accepted + k
  /\ UNCHANGED <<state, entry, crd, pc, slot, count, writes, resets, asked, lost,
                 undisturbed, steady, posted, taken>>

\* Variant: the offset moves by what was offered.
WriteReturnsCount(ok) ==
  /\ pc = "fifo"
  /\ offset' = IF stream = "video" /\ ok THEN offset + count ELSE offset
  /\ lost' = IF ok THEN lost ELSE lost + written
  /\ pc' = "idle" /\ written' = 0
  /\ UNCHANGED <<device, pts, ptsvalid, lastpts, ptr, playing, mode, entry,
                 crd, slot, count, writes, resets, asked, accepted,
                 undisturbed, steady, posted, taken>>

\* The write returns.  The offset of the video stream moves by what it returns,
\* which is an error (~ok) also when the FIFO accepted bytes before it met a bad
\* address (em8300_fifo_writeblocking_nolock): the card then has them and the offset
\* stays behind.
WriteReturns(ok) ==
  /\ pc = "fifo"
  /\ offset' = IF stream = "video" /\ ok THEN offset + written ELSE offset
  /\ lost' = IF ok THEN lost ELSE lost + written
  /\ pc' = "idle" /\ written' = 0
  /\ UNCHANGED <<device, pts, ptsvalid, lastpts, ptr, playing, mode, entry,
                 crd, slot, count, writes, resets, asked, accepted,
                 undisturbed, steady, posted, taken>>

-------------------------------------------------------------------------------
(* Other processes. *)

Reset ==
  /\ resets < MaxResets
  /\ resets' = resets + 1

ResetOffset ==
  /\ offset' = 0
  /\ accepted' = 0 /\ lost' = 0
  /\ steady' = (written = 0)

\* em8300_video_flush
Flush ==
  /\ Reset
  /\ ResetOffset
  /\ ptsvalid' = FALSE /\ pts' = 0 /\ ptr' = 0
  /\ undisturbed' = (undisturbed /\ ~Posting)
  /\ UNCHANGED <<device, lastpts, playing, mode, entry, crd, write, asked, posted,
                 taken>>

\* em8300_video_setplaymode, also called by a write whose FIFO stays full.  It
\* concerns the video stream alone.
Stop ==
  /\ stream = "video" /\ playing
  /\ Reset
  /\ playing' = FALSE
  /\ ResetOffset
  /\ ptr' = 0
  /\ UNCHANGED <<device, pts, ptsvalid, lastpts, mode, entry, crd, write, asked,
                 undisturbed, posted, taken>>

\* What a start of playback sets: the time is forgotten, but not that it is pending.
Started ==
  /\ playing' = TRUE
  /\ pts' = 0 /\ lastpts' = 0
  /\ undisturbed' = FALSE

Start ==
  /\ stream = "video" /\ ~playing
  /\ Reset
  /\ Started
  /\ UNCHANGED <<device, ptsvalid, ptr, offset, mode, entry, crd, write, asked,
                 accepted, lost, steady, posted, taken>>

\* EM8300_IOCTL_SET_SPUMODE
SetSpuMode(on) ==
  /\ stream = "spu"
  /\ mode' = on
  /\ UNCHANGED <<device, pts, ptsvalid, lastpts, ptr, offset, playing, entry,
                 crd, write, resets, history>>

-------------------------------------------------------------------------------
(* Opens and releases.  A device is released when no call on it is under way. *)

\* em8300_video_release, whose waits for the FIFO to run empty change nothing here.
VideoRelease ==
  /\ stream = "video" /\ open /\ pc = "idle"
  /\ Reset
  /\ open' = FALSE /\ vbl' = FALSE
  /\ ResetOffset
  /\ ptsvalid' = FALSE /\ ptr' = 0
  /\ playing' = FALSE
  /\ UNCHANGED <<stream, pts, lastpts, mode, entry, crd, write, asked, undisturbed,
                 posted, taken>>

\* em8300_video_open and the setplaymode(PLAY) after it.
VideoOpen ==
  /\ stream = "video" /\ ~open
  /\ Reset
  /\ open' = TRUE /\ vbl' = TRUE
  /\ IF playing THEN UNCHANGED <<playing, pts, lastpts, undisturbed>> ELSE Started
  /\ UNCHANGED <<stream, ptsvalid, ptr, offset, mode, entry, crd, write, asked,
                 accepted, lost, steady, posted, taken>>

\* em8300_spu_open and em8300_spu_release leave the interrupt as it is.
SpuRelease ==
  /\ stream = "spu" /\ open /\ pc = "idle"
  /\ Reset
  /\ open' = FALSE
  /\ ptsvalid' = FALSE /\ pts' = 0 /\ ptr' = 0
  /\ UNCHANGED <<stream, vbl, lastpts, offset, playing, mode, entry, crd, write,
                 history>>

SpuOpen ==
  /\ stream = "spu" /\ ~open
  /\ Reset
  /\ open' = TRUE
  /\ ptsvalid' = FALSE /\ ptr' = 0 /\ mode' = TRUE
  /\ UNCHANGED <<stream, vbl, pts, lastpts, offset, playing, entry, crd, write,
                 history>>

\* While subpictures are looked at, the video device comes and goes on its own.
VideoElsewhere ==
  /\ stream = "spu"
  /\ vbl' = ~vbl
  /\ UNCHANGED <<stream, open, pts, ptsvalid, lastpts, ptr, offset, playing, mode,
                 entry, crd, write, resets, history>>

\* EM8300_IOCTL_VBI enables the interrupt, which stays on.
Vbi ==
  /\ vbl' = TRUE
  /\ UNCHANGED <<stream, open, pts, ptsvalid, lastpts, ptr, offset, playing, mode,
                 entry, crd, write, resets, history>>

-------------------------------------------------------------------------------
(* The card and the interrupt handler. *)

\* The card takes the next entry; what is left in a free entry does not matter.
Take ==
  /\ entry[crd].valid
  /\ entry' = [entry EXCEPT ![crd] = Free]
  /\ crd' = (crd + 1) % Entries
  /\ taken' = taken + 1
  /\ UNCHANGED <<state, write, resets, asked, accepted, lost, undisturbed, steady,
                 posted>>

\* Variant: the test of the occupied bit is inverted.
CheckPtsFifoInverted ==
  /\ vbl /\ pc = "sleep" /\ entry[ptr].valid
  /\ pc' = "wait"
  /\ UNCHANGED <<state, entry, crd, slot, count, written, writes, resets,
                 history>>

\* em8300_video_check_ptsfifo and em8300_spu_check_ptsfifo, at every vertical
\* blanking: the entry at the pointer, not the one waited for, is looked at.
CheckPtsFifo ==
  /\ vbl /\ pc = "sleep" /\ ~entry[ptr].valid
  /\ pc' = "wait"
  /\ UNCHANGED <<state, entry, crd, slot, count, written, writes, resets,
                 history>>

-------------------------------------------------------------------------------
Writing ==
  \/ WaitForEntry \/ Post \/ Commit
  \/ \E k \in 1 .. count : Accept(k)
  \/ \E ok \in BOOLEAN : WriteReturns(ok)

Player ==
  \/ \E t \in Times : SetPts(t)
  \/ \E n \in Sizes : Write(n)
  \/ WaitFails

Devices == VideoRelease \/ VideoOpen \/ SpuRelease \/ SpuOpen \/ VideoElsewhere \/ Vbi

Others == Flush \/ Stop \/ Start \/ \E on \in BOOLEAN : SetSpuMode(on)

Next == Player \/ Writing \/ Devices \/ Others \/ Take \/ CheckPtsFifo

Spec == Init /\ [][Next]_vars

\* A write under way goes on, the vertical blanking interrupts keep coming while they
\* are enabled, and the card, as a hypothesis on its microcode, keeps taking entries.
\* No time limit needs to pass.
FairSpec ==
  Spec /\ WF_vars(Writing) /\ WF_vars(Take) /\ WF_vars(CheckPtsFifo)

-------------------------------------------------------------------------------
(* Properties. *)

\* Every variable has its type: in particular the pointer stays an entry of the
\* FIFO.
TypeOK ==
  /\ {pts, lastpts, offset, accepted, lost, posted, taken} \subseteq Nat
  /\ {ptsvalid, playing, mode, open, vbl, undisturbed, steady} \subseteq BOOLEAN
  /\ {ptr, crd, slot} \subseteq 0 .. Entries - 1
  /\ pc \in {"idle", "wait", "sleep", "post", "commit", "fifo"}
  /\ written \in 0 .. count
  /\ asked \in Times \cup {0}

\* A write never fills an entry that the card has not taken yet, although the
\* pointer it read may have been reset since (em8300_video_write).
NoOverwrite == pc \in {"post", "commit"} => ~entry[slot].valid

\* The card is told the time the player set, halved exactly once, also when a write of
\* subpictures is tried again after a failed wait, and whatever stops, releases and
\* opens there were.  Not claimed, since the code does otherwise: a video write tried
\* again after a failed wait halves the time again; a start makes a pending time 0; and
\* a SETPTS or a flush during the wait changes the time that is posted.
TimeExact ==
  \A i \in 0 .. Entries - 1 :
    entry[i].valid /\ entry[i].exact => entry[i].pts = entry[i].want

\* The offset of the video stream counts the bytes the FIFO has accepted since the last
\* reset, so that a posted time belongs to the data written next, but for the bytes of
\* writes that returned an error, by which it stays behind, and unless the stream was
\* last reset between a write's acceptance and its end.
OffsetExact ==
  stream = "video" /\ steady /\ pc = "idle" => offset + lost = accepted

\* The card takes the times in the order they were posted, none is skipped and
\* none comes twice, as long as nobody resets the pointer.
InOrder ==
  resets = 0 => \A i \in 0 .. Entries - 1 :
    entry[i].valid => entry[i].no = taken + 1 + ((i - crd + Entries) % Entries)

\* A write that sleeps for an entry gets it when the card has taken it, and does not
\* depend on its time limit for that, as long as no reset moves the pointer that the
\* handler looks at (em8300_video_check_ptsfifo).  A write of subpictures has the
\* interrupt only while the video device or the VBI ioctl enables it (em8300_spu_open
\* does not); without it only the limit of a second ends its sleep.
SleepersWake ==
  pc = "sleep" /\ resets = 0 ~>
    pc \in {"idle", "post"} \/ resets > 0 \/ (stream = "spu" /\ ~vbl)
===============================================================================
