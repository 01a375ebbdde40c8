------------------------------ MODULE Em8300Fifo ------------------------------
(***************************************************************************)
(* A bus-master FIFO of the driver (struct fifo_s, em8300_fifo.c): a ring   *)
(* of DMA slots in the card's memory, filled by write() calls and emptied   *)
(* by the card.                                                             *)
(*                                                                          *)
(* The actors are the writers, serialised by the semaphore fifo->lock; the  *)
(* callers of em8300_fifo_sync, who take no lock; the DMA engine of the     *)
(* card, which owns the read pointer; the interrupt handler, which wakes    *)
(* the wait queue through em8300_fifo_check; and a player that changes the  *)
(* play mode and the clock speed through ioctls.  A step of a writer ends   *)
(* where it has read or written a pointer register, so that every           *)
(* interleaving with the card, the handler and the other processes at       *)
(* those points is a behaviour.                                             *)
(*                                                                          *)
(* Data are counted in chunks, a chunk being what one slot carries; its     *)
(* content is where it came from, the writer, the call and the offset in    *)
(* the buffer of that call, and whether all its data could be read there:   *)
(* the driver drops what copy_from_user says of that.                       *)
(***************************************************************************)
EXTENDS Integers

CONSTANTS
  Slots,      \* fifo->nslots
  Writers,    \* processes that call em8300_fifo_write or _writeblocking
  Syncers,    \* processes that call em8300_fifo_sync
  Sizes,      \* how many chunks a write may ask for
  MaxCalls,   \* bound on the writes of one process
  Holes,      \* the chunks, by writer, call and offset, whose data cannot all
              \* be read where the caller says they are
  NoOne,      \* the holder of a free semaphore
  Torn        \* the content of a slot no round of a copy loop has been through

ASSUME SlotsAssumption == Slots \in Nat \ {0}
ASSUME ProcessAssumption ==
  /\ Writers \cap Syncers = {}
  /\ NoOne \notin Writers \cup Syncers
ASSUME SizesAssumption == Sizes \subseteq Nat /\ MaxCalls \in Nat
ASSUME HolesAssumption == Holes \subseteq Writers \X Nat \X Nat

\* The error numbers a write can return.
EINTR == -4
EFAULT == -14
ERESTARTSYS == -512

Procs == Writers \cup Syncers
Index == 0 .. Slots - 1
Chunks == Writers \X (1 .. MaxCalls) \X (Nat \ {0}) \X BOOLEAN

\* What a slot holds after a round for chunk k of call c of w: the last part
\* tells whether all the data got there.
Chunk(w, c, k) == <<w, c, k, <<w, c, k>> \notin Holes>>

ASSUME TornAssumption == Torn \notin Chunks

VARIABLES
  \* the card
  rd,         \* the slot *fifo->readptr points at
  wr,         \* the slot *fifo->writeptr points at
  slot,       \* slot[i]: what slot i of the DMA memory holds
  irq,        \* a FIFO interrupt is pending
  nfetched,   \* history: how many slots the card has taken
  \* the driver
  bytes,      \* fifo->bytes, in chunks
  lock,       \* who holds fifo->lock
  playmode,   \* em->video_playmode
  clock,      \* MV_SCRSpeed > 0
  \* the processes
  pc,         \* where each process is in its call
  call,       \* how many writes each writer has made
  nonblock,   \* the write is an O_NONBLOCK one: em8300_fifo_write
  left,       \* n: chunks of the call not copied yet
  pos,        \* chunks of the call copied
  got,        \* chunks copied in this pass of em8300_fifo_write_nolock
  widx,       \* writeindex
  room,       \* freeslots - i
  timed,      \* the wait is the one with a time limit
  tries,      \* time limits that have passed in it
  err,        \* what ended the call, 0 if nothing did
  result,     \* what the last call returned
  mark,       \* history: chunks published when the present sync began
  faulted     \* history: access_ok has refused some write's buffer

ring == <<rd, wr, slot>>
env == <<playmode, clock>>
local == <<nonblock, left, pos, got, widx, room, timed, tries, err>>
vars == <<rd, wr, slot, irq, nfetched, bytes, lock, playmode, clock, pc, call,
          nonblock, left, pos, got, widx, room, timed, tries, err, result,
          mark, faulted>>

-------------------------------------------------------------------------------
\* em8300_fifo_freeslots: one slot of the ring always stays empty.
FreeSlots == ((rd - wr) + Slots - 1) % Slots

\* em8300_fifo_isempty, and the condition em8300_fifo_sync waits for.
IsEmpty == wr = rd

Threshold == Slots \div 2

\* Variant: the index is not reduced.
NextSlotUnreduced(i) == i + 1

NextSlot(i) == (i + 1) % Slots

\* How far slot i lies ahead of the card, and the number of slots between the
\* pointers: those em8300_fifo_calcbuffered adds up.
Ahead(i) == (i - rd + Slots) % Slots
Used == Ahead(wr)

\* The state of the card in which a full ring is taken for a frozen engine.
Running == clock /\ playmode = "PLAY"

Goto(p, to) == pc' = [pc EXCEPT ![p] = to]

Init ==
  /\ rd \in Index /\ wr = rd
  /\ slot = [i \in Index |-> Torn]
  /\ irq = FALSE
  /\ nfetched = 0
  /\ bytes = 0
  /\ lock = NoOne
  /\ playmode = "STOPPED"
  /\ clock = FALSE
  /\ pc = [p \in Procs |-> "idle"]
  /\ call = [w \in Writers |-> 0]
  /\ nonblock = [w \in Writers |-> FALSE]
  /\ left = [w \in Writers |-> 0]
  /\ pos = [w \in Writers |-> 0]
  /\ got = [w \in Writers |-> 0]
  /\ widx = [w \in Writers |-> 0]
  /\ room = [w \in Writers |-> 0]
  /\ timed = [w \in Writers |-> FALSE]
  /\ tries = [w \in Writers |-> 0]
  /\ err = [w \in Writers |-> 0]
  /\ result = [w \in Writers |-> 0]
  /\ mark = [s \in Syncers |-> 0]
  /\ faulted = FALSE

-------------------------------------------------------------------------------
(* The writers. *)

\* write() of n chunks reaches the FIFO and queues for the semaphore.
Write(w, n, nb) ==
  /\ pc[w] = "idle"
  /\ call[w] < MaxCalls
  /\ call' = [call EXCEPT ![w] = @ + 1]
  /\ nonblock' = [nonblock EXCEPT ![w] = nb]
  /\ left' = [left EXCEPT ![w] = n]
  /\ pos' = [pos EXCEPT ![w] = 0]
  /\ got' = [got EXCEPT ![w] = 0]
  /\ err' = [err EXCEPT ![w] = 0]
  /\ Goto(w, "down")
  /\ UNCHANGED <<ring, irq, nfetched, bytes, lock, env, widx, room, timed,
                 tries, result, mark, faulted>>

\* Variant: the copy runs without the semaphore.
DownUnlocked(w) ==
  /\ pc[w] = "down"
  /\ lock' = w
  /\ Goto(w, IF left[w] = 0 /\ ~nonblock[w] THEN "up" ELSE "index")
  /\ UNCHANGED <<ring, irq, nfetched, bytes, env, call, local, result, mark,
                 faulted>>

\* down(&fifo->lock); the loop of a blocking write of nothing does not run.
Down(w) ==
  /\ pc[w] = "down"
  /\ lock = NoOne
  /\ lock' = w
  /\ Goto(w, IF left[w] = 0 /\ ~nonblock[w] THEN "up" ELSE "index")
  /\ UNCHANGED <<ring, irq, nfetched, bytes, env, call, local, result, mark,
                 faulted>>

\* em8300_fifo_write_nolock starts: the write pointer is read ...
ReadIndex(w) ==
  /\ pc[w] = "index"
  /\ widx' = [widx EXCEPT ![w] = wr]
  /\ Goto(w, "room")
  /\ UNCHANGED <<ring, irq, nfetched, bytes, lock, env, call, nonblock, left,
                 pos, got, room, timed, tries, err, result, mark, faulted>>

\* ... and then both pointers, for the number of free slots.
ReadRoom(w) ==
  /\ pc[w] = "room"
  /\ room' = [room EXCEPT ![w] = FreeSlots]
  /\ got' = [got EXCEPT ![w] = 0]
  /\ Goto(w, "copy")
  /\ UNCHANGED <<ring, irq, nfetched, bytes, lock, env, call, nonblock, left,
                 pos, widx, timed, tries, err, result, mark, faulted>>

\* Variant: fifo->bytes grows by what is left instead of what was copied.
CopySlotCountsLeft(w) ==
  /\ pc[w] = "copy"
  /\ room[w] > 0 /\ left[w] > 0
  /\ slot' = [slot EXCEPT ![widx[w]] = Chunk(w, call[w], pos[w] + 1)]
  /\ widx' = [widx EXCEPT ![w] = NextSlot(@)]
  /\ room' = [room EXCEPT ![w] = @ - 1]
  /\ left' = [left EXCEPT ![w] = @ - 1]
  /\ pos' = [pos EXCEPT ![w] = @ + 1]
  /\ got' = [got EXCEPT ![w] = @ + 1]
  /\ bytes' = bytes + left[w]
  /\ UNCHANGED <<rd, wr, irq, nfetched, lock, env, pc, call, nonblock, timed,
                 tries, err, result, mark, faulted>>

\* One round of the copy loop: the descriptor and the data area.  If the data
\* cannot all be read (copy_from_user, or get_user in a preprocess callback,
\* meets an address that is not mapped) the round goes on as if they could.
CopySlot(w) ==
  /\ pc[w] = "copy"
  /\ room[w] > 0 /\ left[w] > 0
  /\ slot' = [slot EXCEPT ![widx[w]] = Chunk(w, call[w], pos[w] + 1)]
  /\ widx' = [widx EXCEPT ![w] = NextSlot(@)]
  /\ room' = [room EXCEPT ![w] = @ - 1]
  /\ left' = [left EXCEPT ![w] = @ - 1]
  /\ pos' = [pos EXCEPT ![w] = @ + 1]
  /\ got' = [got EXCEPT ![w] = @ + 1]
  /\ bytes' = bytes + 1
  /\ UNCHANGED <<rd, wr, irq, nfetched, lock, env, pc, call, nonblock, timed,
                 tries, err, result, mark, faulted>>

\* Variant: the copy loop is left by a break, so the refused slot is published.
CopyFaultPublishes(w) ==
  /\ pc[w] = "copy"
  /\ room[w] > 0 /\ left[w] > 0
  /\ slot' = [slot EXCEPT ![widx[w]] = Torn]
  /\ wr' = NextSlot(widx[w])
  /\ err' = [err EXCEPT ![w] = EFAULT]
  /\ faulted' = TRUE
  /\ Goto(w, "up")
  /\ UNCHANGED <<rd, irq, nfetched, bytes, lock, env, call, nonblock,
                 left, pos, got, widx, room, timed, tries, result, mark>>

\* Variant: the error is returned past the up of the semaphore.
CopyFaultLeavesLock(w) ==
  /\ pc[w] = "copy"
  /\ room[w] > 0 /\ left[w] > 0
  /\ slot' = [slot EXCEPT ![widx[w]] = Torn]
  /\ err' = [err EXCEPT ![w] = EFAULT]
  /\ faulted' = TRUE
  /\ result' = [result EXCEPT ![w] = EFAULT]
  /\ Goto(w, "idle")
  /\ UNCHANGED <<rd, wr, irq, nfetched, bytes, lock, env, call, nonblock,
                 left, pos, got, widx, room, timed, tries, mark>>

\* access_ok refuses the buffer, which is not in the range of user addresses
\* (it does not look whether they are mapped): the slot's descriptor has its
\* new size but not its data, and what this pass copied is never published.
CopyFault(w) ==
  /\ pc[w] = "copy"
  /\ room[w] > 0 /\ left[w] > 0
  /\ slot' = [slot EXCEPT ![widx[w]] = Torn]
  /\ err' = [err EXCEPT ![w] = EFAULT]
  /\ faulted' = TRUE
  /\ Goto(w, "up")
  /\ UNCHANGED <<rd, wr, irq, nfetched, bytes, lock, env, call, nonblock,
                 left, pos, got, widx, room, timed, tries, result, mark>>

\* The write pointer moves over the copied slots; a blocking write goes round
\* again, or, when nothing was copied, looks at the state of the card.
Publish(w) ==
  /\ pc[w] = "copy"
  /\ room[w] = 0 \/ left[w] = 0
  /\ wr' = widx[w]
  /\ got' = [got EXCEPT ![w] = 0]
  /\ Goto(w, IF nonblock[w] \/ left[w] = 0 THEN "up"
             ELSE IF got[w] > 0 THEN "index" ELSE "full")
  /\ UNCHANGED <<rd, slot, irq, nfetched, bytes, lock, env, call, nonblock,
                 left, pos, widx, room, timed, tries, err, result, mark,
                 faulted>>

\* The ring is full: a running engine is given a time limit.
Decide(w) ==
  /\ pc[w] = "full"
  /\ timed' = [timed EXCEPT ![w] = Running]
  /\ tries' = [tries EXCEPT ![w] = 0]
  /\ Goto(w, "wait")
  /\ UNCHANGED <<ring, irq, nfetched, bytes, lock, env, call, nonblock, left,
                 pos, got, widx, room, err, result, mark, faulted>>

\* The condition of the wait: any free slot at all.
WaitForRoom(w) ==
  /\ pc[w] = "wait"
  /\ Goto(w, IF FreeSlots # 0 THEN "index" ELSE "sleep")
  /\ UNCHANGED <<ring, irq, nfetched, bytes, lock, env, call, local, result,
                 mark, faulted>>

\* Variant: the time limits are not counted.
TimeLimitUncounted(w) ==
  /\ pc[w] = "sleep" /\ timed[w]
  /\ playmode' = "PLAY"
  /\ Goto(w, "wait")
  /\ UNCHANGED <<ring, irq, nfetched, bytes, lock, clock, call, local, result,
                 mark, faulted>>

\* The time limit passes (the macro does not look at the condition then): the
\* engine is stopped and started, and after the second time the write gives up.
TimeLimit(w) ==
  /\ pc[w] = "sleep" /\ timed[w]
  /\ playmode' = "PLAY"
  /\ tries' = [tries EXCEPT ![w] = @ + 1]
  /\ IF tries[w] = 0
     THEN Goto(w, "wait") /\ UNCHANGED err
     ELSE Goto(w, "up") /\ err' = [err EXCEPT ![w] = EINTR]
  /\ UNCHANGED <<ring, irq, nfetched, bytes, lock, clock, call, nonblock, left,
                 pos, got, widx, room, timed, result, mark, faulted>>

\* A signal ends either wait.
Signal(w) ==
  /\ pc[w] = "sleep"
  /\ err' = [err EXCEPT ![w] = ERESTARTSYS]
  /\ Goto(w, "up")
  /\ UNCHANGED <<ring, irq, nfetched, bytes, lock, env, call, nonblock, left,
                 pos, got, widx, room, timed, tries, result, mark, faulted>>

\* Variant: a wait that failed is reported whatever was written before.
ReturnedError(w) == IF err[w] # 0 THEN err[w] ELSE pos[w]

\* What the call returns: a wait that failed after some chunks were written
\* reports those.
Returned(w) ==
  IF err[w] = EFAULT \/ (err[w] # 0 /\ pos[w] = 0) THEN err[w] ELSE pos[w]

\* up(&fifo->lock), and the call returns.
Up(w) ==
  /\ pc[w] = "up"
  /\ lock' = NoOne
  /\ result' = [result EXCEPT ![w] = Returned(w)]
  /\ Goto(w, "idle")
  /\ UNCHANGED <<ring, irq, nfetched, bytes, env, call, local, mark, faulted>>

-------------------------------------------------------------------------------
(* The callers of em8300_fifo_sync, such as SNDCTL_DSP_SYNC. *)

Sync(s) ==
  /\ pc[s] = "idle"
  /\ mark' = [mark EXCEPT ![s] = nfetched + Used]
  /\ Goto(s, "wait")
  /\ UNCHANGED <<ring, irq, nfetched, bytes, lock, env, call, local, result,
                 faulted>>

\* Variant: the sync ends when a writer's wait would.
WaitForAnyRoom(s) ==
  /\ pc[s] = "wait"
  /\ Goto(s, IF FreeSlots # 0 THEN "drained" ELSE "sleep")
  /\ UNCHANGED <<ring, irq, nfetched, bytes, lock, env, call, local, result,
                 mark, faulted>>

\* The condition of the wait: the pointers meet.
WaitForEmpty(s) ==
  /\ pc[s] = "wait"
  /\ Goto(s, IF IsEmpty THEN "drained" ELSE "sleep")
  /\ UNCHANGED <<ring, irq, nfetched, bytes, lock, env, call, local, result,
                 mark, faulted>>

\* Three seconds pass, or a signal comes, and the sync fails.
SyncGivesUp(s) ==
  /\ pc[s] = "sleep"
  /\ Goto(s, "failed")
  /\ UNCHANGED <<ring, irq, nfetched, bytes, lock, env, call, local, result,
                 mark, faulted>>

\* The ioctl returns 0 in either case; the callers drop the return value.
SyncReturns(s) ==
  /\ pc[s] \in {"drained", "failed"}
  /\ Goto(s, "idle")
  /\ UNCHANGED <<ring, irq, nfetched, bytes, lock, env, call, local, result,
                 mark, faulted>>

-------------------------------------------------------------------------------
(* The card, the interrupt handler and the player. *)

\* The DMA engine takes the slot at the read pointer and raises an interrupt.
Fetch ==
  /\ ~IsEmpty
  /\ rd' = NextSlot(rd)
  /\ nfetched' = nfetched + 1
  /\ irq' = TRUE
  /\ UNCHANGED <<wr, slot, bytes, lock, env, pc, call, local, result, mark,
                 faulted>>

\* Variant: the threshold is the whole ring, which never is free.
FifoCheckWholeRing ==
  pc' = IF FreeSlots > Slots - 1
        THEN [p \in Procs |-> IF pc[p] = "sleep" THEN "wait" ELSE pc[p]]
        ELSE pc

\* em8300_fifo_check: the sleepers look again once the ring is half empty.
FifoCheck ==
  pc' = IF FreeSlots > Threshold
        THEN [p \in Procs |-> IF pc[p] = "sleep" THEN "wait" ELSE pc[p]]
        ELSE pc

\* The part of em8300_irq that concerns this FIFO.
Interrupt ==
  /\ irq
  /\ irq' = FALSE
  /\ FifoCheck
  /\ UNCHANGED <<ring, nfetched, bytes, lock, env, call, local, result, mark,
                 faulted>>

\* Another process sets the play mode or the clock speed.
SetPlaymode(m) ==
  /\ playmode' = m
  /\ UNCHANGED <<ring, irq, nfetched, bytes, lock, clock, pc, call, local,
                 result, mark, faulted>>

SetClock(on) ==
  /\ clock' = on
  /\ UNCHANGED <<ring, irq, nfetched, bytes, lock, playmode, pc, call, local,
                 result, mark, faulted>>

-------------------------------------------------------------------------------
\* "STOPPED" stands for every play mode other than EM8300_PLAYMODE_PLAY.
PlayModes == {"STOPPED", "PLAY"}

\* A step of a write already under way that waits for nobody.
WriterStep(w) ==
  \/ ReadIndex(w) \/ ReadRoom(w) \/ CopySlot(w) \/ Publish(w)
  \/ Decide(w) \/ WaitForRoom(w) \/ Up(w)

SyncStep(s) == WaitForEmpty(s) \/ SyncReturns(s)

\* What the player and the applications may do and need not.
Application ==
  \/ \E w \in Writers, n \in Sizes, nb \in BOOLEAN : Write(w, n, nb)
  \/ \E w \in Writers : CopyFault(w) \/ Signal(w)
  \/ \E s \in Syncers : Sync(s)

Player ==
  \/ \E m \in PlayModes : SetPlaymode(m)
  \/ \E on \in BOOLEAN : SetClock(on)

Next ==
  \/ Application
  \/ Player
  \/ \E w \in Writers : Down(w) \/ WriterStep(w) \/ TimeLimit(w)
  \/ \E s \in Syncers : SyncStep(s) \/ SyncGivesUp(s)
  \/ Fetch
  \/ Interrupt

Spec == Init /\ [][Next]_vars

\* Every process that can run does, the semaphore starves nobody, timers run
\* out, and the pending interrupt is delivered.
DriverFairness ==
  /\ \A w \in Writers : WF_vars(WriterStep(w)) /\ SF_vars(Down(w))
  /\ \A w \in Writers : WF_vars(TimeLimit(w))
  /\ \A s \in Syncers : WF_vars(SyncStep(s)) /\ WF_vars(SyncGivesUp(s))
  /\ WF_vars(Interrupt)

\* The card may freeze: nothing makes it take slots.
FairSpec == Spec /\ DriverFairness

\* The card keeps taking slots.
CardDrains == WF_vars(Fetch)

-------------------------------------------------------------------------------
(* Properties. *)

Locked == {"index", "room", "copy", "full", "up"}
WriterPc == {"idle", "down", "wait", "sleep"} \cup Locked
SyncPc == {"idle", "wait", "sleep", "drained", "failed"}

\* Every variable has its type: in particular both pointers stay slots of the
\* ring and every published descriptor is a slot of the DMA memory.
TypeOK ==
  /\ rd \in Index /\ wr \in Index
  /\ slot \in [Index -> Chunks \cup {Torn}]
  /\ irq \in BOOLEAN
  /\ nfetched \in Nat /\ bytes \in Nat
  /\ lock \in Writers \cup {NoOne}
  /\ playmode \in PlayModes /\ clock \in BOOLEAN
  /\ pc \in [Procs -> WriterPc \cup SyncPc]
  /\ \A w \in Writers : pc[w] \in WriterPc
  /\ call \in [Writers -> 0 .. MaxCalls]
  /\ nonblock \in [Writers -> BOOLEAN]
  /\ left \in [Writers -> Nat]
  /\ pos \in [Writers -> Nat] /\ got \in [Writers -> Nat]
  /\ widx \in [Writers -> Index]
  /\ room \in [Writers -> Index]
  /\ timed \in [Writers -> BOOLEAN]
  /\ tries \in [Writers -> 0 .. 2]
  /\ err \in [Writers -> {0, EFAULT, EINTR, ERESTARTSYS}]
  /\ result \in [Writers -> Nat \cup {EFAULT, EINTR, ERESTARTSYS}]
  /\ mark \in [Syncers -> Nat]
  /\ faulted \in BOOLEAN

\* The slot i lies between the pointers, so the card may take it at any time.
Published(i) == Ahead(i) < Used

\* The card never takes a slot in the middle of its rewriting: whatever lies
\* between the pointers has been through a whole round of some call's copy loop,
\* the descriptor and the copy behind it (em8300_fifo_write_nolock writes the
\* pointer only after the loop, and leaves it alone when access_ok refuses the
\* buffer).  That the caller's data have arrived is not promised: a copy that
\* fails is published like any other.
WindowWritten == \A i \in Index : Published(i) => slot[i] # Torn

\* A slot that a writer is about to fill is not one the card may be taking,
\* although the card moves its pointer while the writer works from the number
\* of free slots it read at the start of its pass.
NoOverrun ==
  \A w \in Writers :
    pc[w] = "copy" /\ room[w] > 0 /\ left[w] > 0 => ~Published(widx[w])

\* fifo->lock is held over the whole call, the waits included, by one writer at
\* a time (em8300_fifo_writeblocking), and no way out of a call leaves it held.
Exclusive ==
  \A w \in Writers : pc[w] \in {"wait", "sleep"} \cup Locked <=> lock = w

\* fifo->bytes less the chunks that em8300_fifo_calcbuffered adds up is what the
\* card has taken, whenever no write is under way and access_ok has refused no
\* buffer.  SNDCTL_DSP_GETOPTR starts from the two; what it does besides (the
\* card's own buffer, the preprocess ratio, the clamp) is not in this model.
PlayedIsFetched ==
  lock = NoOne /\ ~faulted => bytes - Used = nfetched

\* em8300_fifo_sync succeeds only after the card has taken everything that had
\* been published when it was called, although writers go on meanwhile.
SyncDrains == \A s \in Syncers : pc[s] = "drained" => nfetched >= mark[s]

\* The chunks between the pointers, oldest first.
Buffered == [k \in 1 .. Used |-> slot[(rd + k - 1) % Slots]]

Stream == INSTANCE Em8300Stream WITH
  Capacity <- Slots - 1,
  queue <- Buffered,
  owner <- lock,
  appended <- [w \in Writers |-> pos[w] - got[w]]

\* The ring, its lock and its waits implement the bounded queue: chunks reach
\* the card in order, each once, a call's chunks together, and a call returns
\* exactly what it appended, unless access_ok refused its buffer.
ImplementsStream == Stream!Spec

\* While the card takes slots, every write returns, and so does one that
\* queues for the semaphore behind another.
WritesReturn ==
  CardDrains => \A w \in Writers : pc[w] = "down" ~> pc[w] = "idle"

\* Even with a frozen card, a write that found the engine running returns, if
\* the player leaves it running: the second time limit ends it
\* (em8300_fifo_writeblocking_nolock).
TimedWritesReturn ==
  \A w \in Writers :
    pc[w] = "wait" /\ timed[w] ~> pc[w] = "idle" \/ ~Running

\* What the comment on SNDCTL_DSP_SYNC says: when the ioctl has returned, the
\* last byte written before it has been taken.
SyncWaitsForLastByte ==
  \A s \in Syncers : pc[s] = "idle" => nfetched >= mark[s]

-------------------------------------------------------------------------------
(* The inductive invariant behind TypeOK, WindowWritten, NoOverrun, Exclusive, *)
(* PlayedIsFetched and SyncDrains.                                             *)

InCall == Locked \cup {"down", "wait", "sleep"}

\* A pass starts at the write pointer, which only the lock holder moves; and
\* what it copied lies right behind the published slots, with room to go on
\* that the card can only widen.
PassInv ==
  \A w \in Writers :
    /\ pc[w] \in InCall => call[w] >= 1
    /\ pc[w] \in {"wait", "sleep"} => tries[w] < 2
    /\ pc[w] = "room" => widx[w] = wr
    /\ pc[w] = "copy" =>
         /\ Ahead(widx[w]) = Used + got[w]
         /\ Used + got[w] + room[w] <= Slots - 1
         /\ \A i \in Index :
              Used <= Ahead(i) /\ Ahead(i) < Used + got[w] => slot[i] # Torn

\* fifo->bytes runs ahead of the published chunks by what the present pass has
\* copied, and by nothing else until a refused buffer abandons a pass.
BytesInv ==
  ~faulted =>
    /\ lock = NoOne => bytes = nfetched + Used
    /\ \A w \in Writers : lock = w => bytes = nfetched + Used + got[w]
    /\ \A w \in Writers : pc[w] \in InCall \ {"copy"} => got[w] = 0

SyncInv ==
  \A s \in Syncers :
    pc[s] \in {"wait", "sleep"} => mark[s] <= nfetched + Used

Inv ==
  /\ TypeOK /\ Exclusive /\ PassInv /\ WindowWritten /\ BytesInv
  /\ SyncInv /\ SyncDrains

===============================================================================
