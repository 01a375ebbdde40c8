------------------------------ MODULE Em8300Flush ------------------------------
(***************************************************************************)
(* Flushing a FIFO that is in use: em8300_video_flush and                   *)
(* em8300_audio_flush, reached from EM8300_IOCTL_FLUSH on the control       *)
(* device, from SNDCTL_DSP_RESET and from a change of the audio mode, while *)
(* another process writes.                                                  *)
(*                                                                          *)
(* A flush reads the card's pointer and then stores it as the write         *)
(* pointer; it takes no lock and wakes nobody.  The audio flush does so     *)
(* twice in a row.                                                          *)
(*                                                                          *)
(* The properties checked of this module are those of Em8300Fifo: what they *)
(* say of the ring and its writers must survive a flush.                    *)
(***************************************************************************)
EXTENDS Em8300Fifo

CONSTANTS
  Passes,       \* how often a flush may copy the pointer: 1 video, 2 audio
  MaxFlushes,   \* bound on the number of flushes
  CardStopped   \* the card takes nothing while a flush is under way

ASSUME FlushAssumption ==
  Passes \subseteq Nat \ {0} /\ MaxFlushes \in Nat /\ CardStopped \in BOOLEAN

VARIABLES
  fpc,          \* the passes of the present flush that are still to do
  loaded,       \* the present pass has read the read pointer
  frd,          \* the value it read
  flushes       \* how many flushes were started

flushvars == <<fpc, loaded, frd, flushes>>
allvars == <<vars, flushvars>>

FlushInit ==
  /\ Init
  /\ fpc = 0
  /\ loaded = FALSE
  /\ frd = 0
  /\ flushes = 0

FlushStart ==
  /\ fpc = 0
  /\ flushes < MaxFlushes
  /\ fpc' \in Passes
  /\ flushes' = flushes + 1
  /\ UNCHANGED <<vars, loaded, frd>>

\* readl(fifo->readptr)
FlushLoad ==
  /\ fpc > 0 /\ ~loaded
  /\ frd' = rd
  /\ loaded' = TRUE
  /\ UNCHANGED <<vars, fpc, flushes>>

\* Variant: the write pointer is left one slot past the read pointer.
FlushStoreOneAhead ==
  /\ fpc > 0 /\ loaded
  /\ wr' = NextSlot(frd)
  /\ loaded' = FALSE
  /\ fpc' = fpc - 1
  /\ UNCHANGED <<rd, slot, irq, nfetched, bytes, lock, env, pc, call, local,
                 result, mark, faulted, frd, flushes>>

\* writel(..., fifo->writeptr)
FlushStore ==
  /\ fpc > 0 /\ loaded
  /\ wr' = frd
  /\ loaded' = FALSE
  /\ fpc' = fpc - 1
  /\ UNCHANGED <<rd, slot, irq, nfetched, bytes, lock, env, pc, call, local,
                 result, mark, faulted, frd, flushes>>

\* A step of the rest of the driver or of the card.  Flushing and setting the
\* clock are ioctls, which exclude each other (em->ioctl_lock).
FifoStep ==
  /\ Next
  /\ fpc > 0 => clock' = clock
  /\ CardStopped /\ fpc > 0 => rd' = rd
  /\ UNCHANGED flushvars

FlushStep == FlushLoad \/ FlushStore

FlushNext == FifoStep \/ FlushStart \/ FlushStep

FlushSpec == FlushInit /\ [][FlushNext]_allvars

\* The fairness of Em8300Fifo, for the larger set of variables; the card may
\* freeze.
FlushFairness ==
  /\ \A w \in Writers : WF_allvars(WriterStep(w) /\ FifoStep)
  /\ \A w \in Writers : SF_allvars(Down(w) /\ FifoStep)
  /\ \A w \in Writers : WF_allvars(TimeLimit(w) /\ FifoStep)
  /\ WF_allvars(Interrupt /\ FifoStep)
  /\ WF_allvars(FlushStep)

FairFlushSpec == FlushSpec /\ FlushFairness

===============================================================================
