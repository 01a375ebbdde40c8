----------------------------- MODULE Em8300Indirect -----------------------------
(***************************************************************************)
(* The playback of the ALSA driver (em8300_alsa.c): the card fetches the    *)
(* sound from ALSA's own buffer, through the slots of the audio FIFO, into  *)
(* its internal one, and the driver follows how far both have come.         *)
(*                                                                          *)
(* A callback of the driver is a step; ALSA calls them one at a time.  The  *)
(* card is external: while it plays it fetches slots in order and plays     *)
(* what it fetched, and its stop command empties its buffer.  Bytes are     *)
(* counted in units, Block of which are 4096.                               *)
(***************************************************************************)
EXTENDS Integers

CONSTANTS
  Block,     \* units in EM8300_BLOCK_SIZE, 4096 bytes
  HwSize,    \* MA_BuffSize
  SwSize,    \* the buffer of ALSA, a multiple of a block
  Slots,     \* MA_PCISize / 3
  MaxUnits,  \* bound on the units played between two prepares
  MaxStarts  \* bound on the prepares

\* What the constants must satisfy.
IndirectAssumption ==
  /\ {Block, HwSize, SwSize, Slots, MaxStarts} \subseteq Nat \ {0} /\ MaxUnits \in Nat
  /\ SwSize % Block = 0 /\ Block < HwSize

VARIABLES
  rec,      \* the snd_em8300_pcm_indirect_t (but hw_data, which nothing reads), and
            \* whether the stream runs
  ring,     \* the slots, MA_PCIRdPtr and MA_PCIWrPtr; a fetched slot is cleared
  card,     \* the card's play command, and its read pointer MA_Rdptr
  total,    \* units since prepare: written by the application, queued in slots,
            \* fetched and played by the card, and seen to be played
  failed,   \* a transfer found no slot since prepare
  starts    \* prepares made

vars == <<rec, ring, card, total, failed, starts>>

Empty == [data |-> 0, bytes |-> 0]
Least(a, b) == IF a < b THEN a ELSE b

-------------------------------------------------------------------------------
(* The transfer to the card.  Its state is [rec, ring, queued, failed]. *)

\* The ring has no slot to give away: to move the write pointer would make it empty.
Full(r) == r.rd = (r.wr + 1) % Slots

\* snd_em8300_pcm_trans_dma: the slot is filled, and the write pointer moved only
\* if the ring is not full.
snd_em8300_pcm_trans_dma(r, data, bytes) ==
  [r EXCEPT !.slot[r.wr] = [data |-> data, bytes |-> bytes],
            !.wr = IF Full(r) THEN @ ELSE (@ + 1) % Slots]

Wrapped(offset, size) == IF offset = size THEN 0 ELSE offset

\* Variant: a transfer may pass the end of the buffer.
BytesUnsplit(r) ==
  IF r.hw_ready < HwSize - Block /\ r.sw_ready > 0
  THEN Least(Least(HwSize - r.hw_ready, r.sw_ready), 2 * Block)
  ELSE 0

\* Variant: the room in the queue is not looked at.
BytesUnbounded(r) ==
  IF r.sw_ready > 0
  THEN Least(Least(SwSize - r.sw_data, r.sw_ready), 2 * Block)
  ELSE 0

\* The size of the next transfer; none if the queue is within a block of full.
Bytes(r) ==
  IF r.hw_ready < HwSize - Block /\ r.sw_ready > 0
  THEN Least(Least(HwSize - r.hw_ready, r.sw_ready),
             Least(SwSize - r.sw_data, 2 * Block))
  ELSE 0

\* One turn of the loop of snd_em8300_pcm_indirect_playback_transfer.
Turn(s) ==
  LET bytes == Bytes(s.rec)
  IN  IF bytes = 0 THEN s
      ELSE [rec |-> [s.rec EXCEPT !.sw_data = Wrapped(@ + bytes, SwSize),
                                  !.hw_ready = @ + bytes, !.sw_ready = @ - bytes],
            ring |-> snd_em8300_pcm_trans_dma(s.ring, s.rec.sw_data, bytes),
            queued |-> s.queued + bytes,
            failed |-> s.failed \/ Full(s.ring)]

\* The loop: every turn but the last queues at least one unit.
snd_em8300_pcm_indirect_playback_transfer(s) ==
  LET after[n \in 0 .. SwSize] == IF n = 0 THEN s ELSE Turn(after[n - 1])
  IN  after[SwSize]

\* snd_em8300_pcm_ack with the record r, when the application has written `appl`.
snd_em8300_pcm_ack(r, appl) ==
  LET end == snd_em8300_pcm_indirect_playback_transfer(
               [rec |-> [r EXCEPT !.sw_ready = @ + appl - r.appl_ptr, !.appl_ptr = appl],
                ring |-> ring, queued |-> total.queued, failed |-> failed])
  IN  /\ rec' = end.rec /\ ring' = end.ring /\ failed' = end.failed
      /\ total' = [total EXCEPT !.app = appl, !.queued = end.queued,
                                !.seen = @ + rec.hw_ready - r.hw_ready]

-------------------------------------------------------------------------------
(* The callbacks. *)

\* The record is zeroed, and both pointers of the ring go to its start.
snd_em8300_pcm_prepare ==
  /\ ~rec.running /\ starts < MaxStarts
  /\ rec' = [rec EXCEPT !.hw_io = 0, !.hw_ready = 0, !.sw_data = 0,
                        !.sw_io = 0, !.sw_ready = 0, !.appl_ptr = 0]
  /\ ring' = [ring EXCEPT !.rd = 0, !.wr = 0, !.slot = [i \in DOMAIN @ |-> Empty]]
  /\ total' = [app |-> 0, queued |-> 0, fetched |-> 0, played |-> 0, seen |-> 0]
  /\ failed' = FALSE /\ starts' = starts + 1
  /\ UNCHANGED card

Trigger(cmd) ==
  CASE cmd = "START" ->
         /\ ~rec.running /\ starts > 0
         /\ snd_em8300_pcm_ack([rec EXCEPT !.hw_io = card.rdptr, !.running = TRUE], total.app)
         /\ card' = [card EXCEPT !.command = "PLAY"]
    [] cmd = "STOP" ->
         /\ rec.running
         /\ rec' = [rec EXCEPT !.running = FALSE]
         /\ card' = [command |-> "STOP",
                     rdptr |-> (card.rdptr + total.fetched - total.played) % HwSize]
         /\ total' = [total EXCEPT !.played = total.fetched]
         /\ UNCHANGED <<ring, failed>>
    [] cmd \in {"PAUSE_PUSH", "PAUSE_RELEASE"} ->
         /\ rec.running
         /\ card' = [card EXCEPT !.command = IF cmd = "PAUSE_PUSH" THEN "PAUSE" ELSE "PLAY"]
         /\ UNCHANGED <<rec, ring, total, failed>>

snd_em8300_pcm_trigger(cmd) == Trigger(cmd) /\ UNCHANGED starts

\* The application writes n units, for which ALSA knows that there is room, and
\* ALSA calls snd_em8300_pcm_ack.
Append(n) ==
  /\ starts > 0 /\ total.app + n <= MaxUnits
  /\ total.app + n - total.seen <= SwSize
  /\ snd_em8300_pcm_ack(rec, total.app + n)
  /\ UNCHANGED <<card, starts>>

\* How far the card has come, asked by ALSA at an interrupt or for the application.
\* The distance is found modulo the size of the card's buffer.
snd_em8300_pcm_pointer ==
  LET bytes == (card.rdptr - rec.hw_io) % HwSize
  IN  /\ rec.running
      /\ snd_em8300_pcm_ack(
           [rec EXCEPT !.hw_io = card.rdptr, !.hw_ready = @ - bytes,
                       !.sw_io = IF @ + bytes >= SwSize THEN @ + bytes - SwSize
                                 ELSE @ + bytes],
           total.app)
      /\ UNCHANGED <<card, starts>>

-------------------------------------------------------------------------------
(* The card. *)

Fetch ==
  /\ card.command = "PLAY" /\ ring.rd # ring.wr
  /\ total.fetched - total.played + ring.slot[ring.rd].bytes <= HwSize
  /\ total' = [total EXCEPT !.fetched = @ + ring.slot[ring.rd].bytes]
  /\ ring' = [ring EXCEPT !.rd = (@ + 1) % Slots, !.slot[ring.rd] = Empty]
  /\ UNCHANGED <<rec, card, failed, starts>>

Play ==
  /\ card.command = "PLAY" /\ total.played < total.fetched
  /\ total' = [total EXCEPT !.played = @ + 1]
  /\ card' = [card EXCEPT !.rdptr = (@ + 1) % HwSize]
  /\ UNCHANGED <<rec, ring, failed, starts>>

-------------------------------------------------------------------------------
(* The specification. *)

Init ==
  /\ rec = [hw_io |-> 0, hw_ready |-> 0, sw_data |-> 0, sw_io |-> 0,
            sw_ready |-> 0, appl_ptr |-> 0, running |-> FALSE]
  /\ ring = [slot |-> [i \in 0 .. Slots - 1 |-> Empty],
             rd |-> 0, wr |-> 0]
  /\ card = [command |-> "STOP", rdptr |-> 0]
  /\ total = [app |-> 0, queued |-> 0, fetched |-> 0, played |-> 0, seen |-> 0]
  /\ failed = FALSE /\ starts = 0

Next ==
  \/ snd_em8300_pcm_prepare
  \/ \E cmd \in {"START", "STOP", "PAUSE_PUSH", "PAUSE_RELEASE"} :
       snd_em8300_pcm_trigger(cmd)
  \/ \E n \in 1 .. SwSize : Append(n)
  \/ snd_em8300_pcm_pointer
  \/ Fetch
  \/ Play

Spec == Init /\ [][Next]_vars

-------------------------------------------------------------------------------
(* Properties. *)

\* The slot the card fetches next goes on where the last one ended, inside the
\* buffer, so that the card plays what the application wrote, in order and without
\* a gap, unless a transfer has found the ring full.
QueuedInOrder ==
  ring.rd # ring.wr /\ ~failed =>
    LET s == ring.slot[ring.rd]
    IN  /\ s.bytes > 0
        /\ s.data = total.fetched % SwSize
        /\ s.data + s.bytes <= SwSize

\* The application is never told of room that the card has yet to fetch or play:
\* what is seen to be played has been played, the rest is in the queue and fits
\* the card's buffer, and the buffer offset told to ALSA is that of the seen part.
NothingOverwritten ==
  /\ total.seen <= total.played /\ total.played <= total.fetched
  /\ ~failed => total.app - total.fetched <= SwSize
  /\ rec.hw_ready = total.queued - total.seen /\ rec.hw_ready \in 0 .. HwSize
  /\ rec.sw_io = total.seen % SwSize
===============================================================================
