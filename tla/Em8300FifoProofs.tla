--------------------------- MODULE Em8300FifoProofs ---------------------------
(***************************************************************************)
(* Proofs about Em8300Fifo and about a flush of it (Em8300Flush), for every *)
(* number of slots, writers, sync callers and calls, and of flushes and     *)
(* passes of a flush; the card takes nothing while a flush is under way.    *)
(*                                                                          *)
(* Ring arithmetic is reduced to linear arithmetic once, by the lemmas      *)
(* AheadLinear, FreeLinear and NextLinear; the proofs about steps use only   *)
(* those.                                                                   *)
(*                                                                          *)
(* PassInv does not survive a flush: a pass that has read the write pointer *)
(* goes on behind slots that are no longer published, and one that has not  *)
(* yet counted the free slots believes in more of them than there are       *)
(* behind its index.  What saves it is that the ring is empty then, and     *)
(* stays empty until the pass publishes (FlushedPass).                      *)
(***************************************************************************)
EXTENDS Em8300Flush, SequenceTheorems, TLAPS

\* The distance from one slot of the ring to another, without a remainder.
LEMMA AheadLinear ==
  ASSUME NEW i \in Index, rd \in Index
  PROVE  /\ Ahead(i) = IF i >= rd THEN i - rd ELSE i - rd + Slots
         /\ Ahead(i) \in Index
<1>1. CASE i >= rd
  BY <1>1, SlotsAssumption DEF Index, Ahead
<1>2. CASE ~(i >= rd)
  BY <1>2, SlotsAssumption DEF Index, Ahead
<1>3. QED
  BY <1>1, <1>2

\* The used slots, likewise.
LEMMA UsedLinear ==
  ASSUME rd \in Index, wr \in Index
  PROVE  /\ Used = IF wr >= rd THEN wr - rd ELSE wr - rd + Slots
         /\ Used \in Index
BY AheadLinear DEF Used

\* The free slots (em8300_fifo_freeslots) are all but one of those not used.
LEMMA FreeLinear ==
  ASSUME rd \in Index, wr \in Index
  PROVE  FreeSlots = Slots - 1 - Used /\ FreeSlots \in Index
<1>1. Used = IF wr >= rd THEN wr - rd ELSE wr - rd + Slots
  BY AheadLinear DEF Used
<1>2. CASE wr >= rd
  BY <1>1, <1>2, SlotsAssumption DEF Index, FreeSlots
<1>3. CASE ~(wr >= rd)
  BY <1>1, <1>3, SlotsAssumption DEF Index, FreeSlots
<1>4. QED
  BY <1>2, <1>3

\* The next slot of the ring (writeindex++ and writeindex %= nslots).
LEMMA NextLinear ==
  ASSUME NEW i \in Index
  PROVE  /\ NextSlot(i) = IF i = Slots - 1 THEN 0 ELSE i + 1
         /\ NextSlot(i) \in Index
<1>1. CASE i = Slots - 1
  BY <1>1, SlotsAssumption DEF Index, NextSlot
<1>2. CASE i # Slots - 1
  BY <1>2, SlotsAssumption DEF Index, NextSlot
<1>3. QED
  BY <1>1, <1>2

\* Slots are at different distances from the card.
LEMMA AheadInjective ==
  ASSUME NEW i \in Index, NEW j \in Index, rd \in Index, Ahead(i) = Ahead(j)
  PROVE  i = j
BY AheadLinear, SlotsAssumption DEF Index

-------------------------------------------------------------------------------

-------------------------------------------------------------------------------
(* Type correctness. *)

LEMMA TypeInit == Init => TypeOK
<1> SUFFICES ASSUME Init PROVE TypeOK
  OBVIOUS
<1>1. 0 \in Index /\ 0 \in 0 .. MaxCalls /\ 0 \in 0 .. 2
  BY SlotsAssumption, SizesAssumption DEF Index
<1>2. /\ rd \in Index /\ wr \in Index
      /\ slot \in [Index -> Chunks \cup {Torn}]
      /\ widx \in [Writers -> Index] /\ room \in [Writers -> Index]
      /\ call \in [Writers -> 0 .. MaxCalls] /\ tries \in [Writers -> 0 .. 2]
  BY <1>1 DEF Init
<1>3. /\ pc \in [Procs -> WriterPc \cup SyncPc]
      /\ \A w \in Writers : pc[w] \in WriterPc
  BY DEF Init, Procs, WriterPc, SyncPc
<1>4. QED
  BY <1>2, <1>3 DEF Init, TypeOK, PlayModes

\* What the types need of PassInv: the number of a call under way and the time
\* limits it has seen.
CallInv ==
  \A w \in Writers :
    /\ pc[w] \in InCall => call[w] >= 1
    /\ pc[w] \in {"wait", "sleep"} => tries[w] < 2

\* A chunk of a call is one, wherever its data could be read or not.
LEMMA ChunkIsAChunk ==
  ASSUME NEW w \in Writers, NEW c \in 1 .. MaxCalls, NEW k \in Nat
  PROVE  Chunk(w, c, k + 1) \in Chunks
<1>1. k + 1 \in Nat \ {0} /\ (<<w, c, k + 1>> \notin Holes) \in BOOLEAN
  OBVIOUS
<1>2. QED
  BY <1>1 DEF Chunk, Chunks

\* Every step keeps the types.
LEMMA TypeStep == TypeOK /\ CallInv /\ [Next]_vars => TypeOK'
<1> SUFFICES ASSUME TypeOK, CallInv, [Next]_vars PROVE TypeOK'
  OBVIOUS
<1> USE DEF Goto, ring, env, local
<1>1. ASSUME NEW w \in Writers, NEW n \in Sizes, NEW nb \in BOOLEAN,
             Write(w, n, nb)
      PROVE  TypeOK'
  BY <1>1, SizesAssumption DEF TypeOK, Write, Procs, WriterPc, SyncPc, Locked
<1>2. ASSUME NEW w \in Writers, Down(w) PROVE TypeOK'
  BY <1>2 DEF TypeOK, Down, Procs, WriterPc, SyncPc, Locked
<1>3. ASSUME NEW w \in Writers, ReadIndex(w) PROVE TypeOK'
  BY <1>3 DEF TypeOK, ReadIndex, Procs, WriterPc, SyncPc, Locked
<1>4. ASSUME NEW w \in Writers, ReadRoom(w) PROVE TypeOK'
  BY <1>4, FreeLinear DEF TypeOK, ReadRoom, Procs, WriterPc, SyncPc, Locked
<1>5. ASSUME NEW w \in Writers, CopySlot(w) PROVE TypeOK'
  <2>1. call[w] \in 1 .. MaxCalls
    BY <1>5, SizesAssumption DEF CallInv, TypeOK, CopySlot, InCall, Locked
  <2>2. Chunk(w, call[w], pos[w] + 1) \in Chunks
    BY <2>1, ChunkIsAChunk DEF TypeOK
  <2>3. slot' \in [Index -> Chunks \cup {Torn}]
    BY <1>5, <2>2 DEF TypeOK, CopySlot
  <2>4. widx' \in [Writers -> Index]
    BY <1>5, NextLinear DEF TypeOK, CopySlot
  <2>5. /\ room[w] \in Index /\ room[w] > 0
        /\ left[w] \in Nat /\ left[w] > 0
        /\ pos[w] \in Nat /\ got[w] \in Nat
    BY <1>5 DEF TypeOK, CopySlot
  <2>6. room[w] - 1 \in Index
    BY <2>5, SlotsAssumption DEF Index
  <2>7. /\ left' \in [Writers -> Nat]
        /\ pos' \in [Writers -> Nat]
        /\ got' \in [Writers -> Nat]
    BY <1>5, <2>5 DEF TypeOK, CopySlot
  <2>8. QED
    BY <1>5, <2>3, <2>4, <2>6, <2>7 DEF TypeOK, CopySlot
<1>6. ASSUME NEW w \in Writers, CopyFault(w) PROVE TypeOK'
  BY <1>6 DEF TypeOK, CopyFault, Procs, WriterPc, SyncPc, Locked
<1>7. ASSUME NEW w \in Writers, Publish(w) PROVE TypeOK'
  BY <1>7 DEF TypeOK, Publish, Procs, WriterPc, SyncPc, Locked
<1>8. ASSUME NEW w \in Writers, Decide(w) PROVE TypeOK'
  BY <1>8 DEF TypeOK, Decide, Running, Procs, WriterPc, SyncPc, Locked
<1>9. ASSUME NEW w \in Writers, WaitForRoom(w) PROVE TypeOK'
  BY <1>9 DEF TypeOK, WaitForRoom, Procs, WriterPc, SyncPc, Locked
<1>10. ASSUME NEW w \in Writers, TimeLimit(w) PROVE TypeOK'
  <2>1. tries[w] + 1 \in 0 .. 2
    BY <1>10 DEF CallInv, TypeOK, TimeLimit
  <2>2. tries' \in [Writers -> 0 .. 2]
    BY <1>10, <2>1 DEF TypeOK, TimeLimit
  <2>3. QED
    BY <1>10, <2>2
       DEF TypeOK, TimeLimit, Procs, WriterPc, SyncPc, Locked, PlayModes
<1>11. ASSUME NEW w \in Writers, Signal(w) PROVE TypeOK'
  BY <1>11 DEF TypeOK, Signal, Procs, WriterPc, SyncPc, Locked
<1>12. ASSUME NEW w \in Writers, Up(w) PROVE TypeOK'
  <2>1. Returned(w) \in Nat \cup {EFAULT, EINTR, ERESTARTSYS}
    BY DEF TypeOK, Returned
  <2>2. QED
    BY <1>12, <2>1 DEF TypeOK, Up, Procs, WriterPc, SyncPc, Locked
<1>13. ASSUME NEW s \in Syncers, Sync(s) PROVE TypeOK'
  <2>1. Used \in Index
    BY UsedLinear DEF TypeOK
  <2>2. nfetched + Used \in Nat
    BY <2>1, SlotsAssumption DEF TypeOK, Index
  <2>3. QED
    BY <1>13, <2>2, ProcessAssumption
       DEF TypeOK, Sync, Procs, WriterPc, SyncPc, Locked
<1>14. ASSUME NEW s \in Syncers, WaitForEmpty(s) PROVE TypeOK'
  BY <1>14, ProcessAssumption DEF TypeOK, WaitForEmpty, Procs, WriterPc, SyncPc, Locked
<1>15. ASSUME NEW s \in Syncers, SyncGivesUp(s) PROVE TypeOK'
  BY <1>15, ProcessAssumption DEF TypeOK, SyncGivesUp, Procs, WriterPc, SyncPc, Locked
<1>16. ASSUME NEW s \in Syncers, SyncReturns(s) PROVE TypeOK'
  BY <1>16, ProcessAssumption DEF TypeOK, SyncReturns, Procs, WriterPc, SyncPc, Locked
<1>17. ASSUME Fetch PROVE TypeOK'
  BY <1>17, NextLinear DEF TypeOK, Fetch
<1>18. ASSUME Interrupt PROVE TypeOK'
  BY <1>18 DEF TypeOK, Interrupt, FifoCheck, Procs, WriterPc, SyncPc, Locked
<1>19. ASSUME NEW m \in PlayModes, SetPlaymode(m) PROVE TypeOK'
  BY <1>19 DEF TypeOK, SetPlaymode
<1>20. ASSUME NEW on \in BOOLEAN, SetClock(on) PROVE TypeOK'
  BY <1>20 DEF TypeOK, SetClock
<1>21. CASE UNCHANGED vars
  BY <1>21 DEF TypeOK, vars
<1>22. QED
  BY <1>1, <1>2, <1>3, <1>4, <1>5, <1>6, <1>7, <1>8, <1>9, <1>10, <1>11, <1>12, <1>13,
     <1>14, <1>15, <1>16, <1>17, <1>18, <1>19, <1>20, <1>21
     DEF Next, Application, Player, WriterStep, SyncStep

-------------------------------------------------------------------------------
(* The other parts of the invariant. *)

Rest == Exclusive /\ PassInv /\ WindowWritten /\ BytesInv /\ SyncInv /\ SyncDrains

LEMMA InitInv == Init => Inv
<1> SUFFICES ASSUME Init PROVE Rest
  BY TypeInit DEF Inv, Rest
<1>1. Used = 0
  BY TypeInit, UsedLinear, SlotsAssumption DEF Init, Index
<1>2. Exclusive /\ PassInv
  BY ProcessAssumption DEF Init, Exclusive, PassInv, Procs, Locked, InCall
<1>3. WindowWritten
  BY <1>1, AheadLinear, SlotsAssumption
     DEF Init, WindowWritten, Published, Index
<1>4. BytesInv
  BY <1>1, ProcessAssumption DEF Init, BytesInv, Procs, Locked, InCall
<1>5. SyncInv /\ SyncDrains
  BY ProcessAssumption DEF Init, SyncInv, SyncDrains, Procs
<1>6. QED
  BY <1>2, <1>3, <1>4, <1>5 DEF Rest

\* A step that moves neither pointer leaves every distance as it was.
LEMMA Still ==
  ASSUME rd' = rd, wr' = wr
  PROVE  /\ Used' = Used
         /\ \A i : Ahead(i)' = Ahead(i)
         /\ \A i : Published(i)' = Published(i)
BY DEF Used, Ahead, Published

\* The step of the card brings every slot but the one it takes one nearer.
LEMMA Nearer ==
  ASSUME TypeOK, wr # rd, rd' = NextSlot(rd), wr' = wr
  PROVE  /\ Used \in Nat /\ Used > 0 /\ Used' = Used - 1
         /\ \A i \in Index :
              Ahead(i)' = IF i = rd THEN Slots - 1 ELSE Ahead(i) - 1
<1>1. rd \in Index /\ wr \in Index /\ rd' \in Index /\ wr' \in Index
  BY NextLinear DEF TypeOK
<1>2. rd' = IF rd = Slots - 1 THEN 0 ELSE rd + 1
  BY <1>1, NextLinear
<1>3. \A i \in Index :
        Ahead(i)' = IF i >= rd' THEN i - rd' ELSE i - rd' + Slots
  <2>1. ASSUME NEW i \in Index
        PROVE  (i - rd' + Slots) % Slots
                 = IF i >= rd' THEN i - rd' ELSE i - rd' + Slots
    <3>1. CASE i >= rd'
      BY <1>1, <3>1, SlotsAssumption DEF Index
    <3>2. CASE ~(i >= rd')
      BY <1>1, <3>2, SlotsAssumption DEF Index
    <3>3. QED
      BY <3>1, <3>2
  <2>2. QED
    BY <2>1 DEF Ahead
<1>4. \A i \in Index : Ahead(i) = IF i >= rd THEN i - rd ELSE i - rd + Slots
  BY <1>1, AheadLinear
<1>5. \A i \in Index : Ahead(i)' = IF i = rd THEN Slots - 1 ELSE Ahead(i) - 1
  <2> SUFFICES ASSUME NEW i \in Index
               PROVE  Ahead(i)' = IF i = rd THEN Slots - 1 ELSE Ahead(i) - 1
    OBVIOUS
  <2>1. Ahead(i) = IF i >= rd THEN i - rd ELSE i - rd + Slots
    BY <1>4
  <2>2. QED
    BY <1>1, <1>2, <1>3, <2>1, SlotsAssumption DEF Index
<1>6. Used' = Used - 1
  BY <1>1, <1>5 DEF Used
<1>7. Used \in Nat /\ Used > 0
  BY <1>1, UsedLinear, SlotsAssumption DEF Index
<1>8. QED
  BY <1>5, <1>6, <1>7

LEMMA RestStep == Inv /\ TypeOK' /\ [Next]_vars => Rest'
<1> SUFFICES ASSUME Inv, TypeOK', [Next]_vars PROVE Rest'
  OBVIOUS
<1> USE DEF Goto, ring, env, local
<1> TypeOK /\ Exclusive /\ PassInv /\ WindowWritten /\ BytesInv /\ SyncInv
    /\ SyncDrains
  BY DEF Inv
<1>1. ASSUME NEW w \in Writers, NEW n \in Sizes, NEW nb \in BOOLEAN,
             Write(w, n, nb)
      PROVE  Rest'
  <2>1. /\ Used' = Used
        /\ \A i : Ahead(i)' = Ahead(i)
        /\ \A i : Published(i)' = Published(i)
    BY <1>1, Still DEF Write
  <2>2. Exclusive'
    BY <1>1, ProcessAssumption DEF Write, Exclusive, TypeOK, Procs, Locked
  <2>3. PassInv'
    BY <1>1, <2>1 DEF Write, PassInv, TypeOK, Procs, InCall, Locked
  <2>4. WindowWritten'
    BY <1>1, <2>1 DEF Write, WindowWritten
  <2>5. BytesInv'
    BY <1>1, <2>1, ProcessAssumption
       DEF Write, BytesInv, Exclusive, TypeOK, Procs, InCall, Locked
  <2>6. SyncInv' /\ SyncDrains'
    BY <1>1, <2>1, ProcessAssumption
       DEF Write, SyncInv, SyncDrains, TypeOK, Procs
  <2>7. QED
    BY <2>2, <2>3, <2>4, <2>5, <2>6 DEF Rest
<1>2. ASSUME NEW w \in Writers, Down(w) PROVE Rest'
  <2>1. /\ Used' = Used
        /\ \A i : Ahead(i)' = Ahead(i)
        /\ \A i : Published(i)' = Published(i)
    BY <1>2, Still DEF Down
  <2>2. Exclusive'
    BY <1>2, ProcessAssumption
       DEF Down, Exclusive, TypeOK, Procs, Locked
  <2>3. PassInv'
    BY <1>2, <2>1 DEF Down, PassInv, TypeOK, Procs, InCall, Locked
  <2>4. BytesInv'
    BY <1>2, <2>1, ProcessAssumption
       DEF Down, BytesInv, Exclusive, TypeOK, Procs, InCall, Locked
  <2>5. WindowWritten' /\ SyncInv' /\ SyncDrains'
    BY <1>2, <2>1, ProcessAssumption
       DEF Down, WindowWritten, SyncInv, SyncDrains, TypeOK, Procs
  <2>6. QED
    BY <2>2, <2>3, <2>4, <2>5 DEF Rest
<1>3. ASSUME NEW w \in Writers, ReadIndex(w) PROVE Rest'
  <2>1. /\ Used' = Used
        /\ \A i : Ahead(i)' = Ahead(i)
        /\ \A i : Published(i)' = Published(i)
    BY <1>3, Still DEF ReadIndex
  <2>2. Exclusive'
    BY <1>3, ProcessAssumption
       DEF ReadIndex, Exclusive, TypeOK, Procs, Locked
  <2>3. PassInv'
    BY <1>3, <2>1 DEF ReadIndex, PassInv, TypeOK, Procs, InCall, Locked
  <2>4. BytesInv'
    BY <1>3, <2>1, ProcessAssumption
       DEF ReadIndex, BytesInv, Exclusive, TypeOK, Procs, InCall, Locked
  <2>5. WindowWritten' /\ SyncInv' /\ SyncDrains'
    BY <1>3, <2>1, ProcessAssumption
       DEF ReadIndex, WindowWritten, SyncInv, SyncDrains, TypeOK, Procs
  <2>6. QED
    BY <2>2, <2>3, <2>4, <2>5 DEF Rest
<1>4. ASSUME NEW w \in Writers, Decide(w) PROVE Rest'
  <2>1. /\ Used' = Used
        /\ \A i : Ahead(i)' = Ahead(i)
        /\ \A i : Published(i)' = Published(i)
    BY <1>4, Still DEF Decide
  <2>2. Exclusive'
    BY <1>4, ProcessAssumption
       DEF Decide, Exclusive, TypeOK, Procs, Locked
  <2>3. PassInv'
    BY <1>4, <2>1 DEF Decide, PassInv, TypeOK, Procs, InCall, Locked
  <2>4. BytesInv'
    BY <1>4, <2>1, ProcessAssumption
       DEF Decide, BytesInv, Exclusive, TypeOK, Procs, InCall, Locked
  <2>5. WindowWritten' /\ SyncInv' /\ SyncDrains'
    BY <1>4, <2>1, ProcessAssumption
       DEF Decide, WindowWritten, SyncInv, SyncDrains, TypeOK, Procs
  <2>6. QED
    BY <2>2, <2>3, <2>4, <2>5 DEF Rest
<1>5. ASSUME NEW w \in Writers, WaitForRoom(w) PROVE Rest'
  <2>1. /\ Used' = Used
        /\ \A i : Ahead(i)' = Ahead(i)
        /\ \A i : Published(i)' = Published(i)
    BY <1>5, Still DEF WaitForRoom
  <2>2. Exclusive'
    BY <1>5, ProcessAssumption
       DEF WaitForRoom, Exclusive, TypeOK, Procs, Locked
  <2>3. PassInv'
    BY <1>5, <2>1 DEF WaitForRoom, PassInv, TypeOK, Procs, InCall, Locked
  <2>4. BytesInv'
    BY <1>5, <2>1, ProcessAssumption
       DEF WaitForRoom, BytesInv, Exclusive, TypeOK, Procs, InCall, Locked
  <2>5. WindowWritten' /\ SyncInv' /\ SyncDrains'
    BY <1>5, <2>1, ProcessAssumption
       DEF WaitForRoom, WindowWritten, SyncInv, SyncDrains, TypeOK, Procs
  <2>6. QED
    BY <2>2, <2>3, <2>4, <2>5 DEF Rest
<1>6. ASSUME NEW w \in Writers, TimeLimit(w) PROVE Rest'
  <2>1. /\ Used' = Used
        /\ \A i : Ahead(i)' = Ahead(i)
        /\ \A i : Published(i)' = Published(i)
    BY <1>6, Still DEF TimeLimit
  <2>2. Exclusive'
    BY <1>6, ProcessAssumption
       DEF TimeLimit, Exclusive, TypeOK, Procs, Locked
  <2>3. PassInv'
    BY <1>6, <2>1 DEF TimeLimit, PassInv, TypeOK, Procs, InCall, Locked
  <2>4. BytesInv'
    BY <1>6, <2>1, ProcessAssumption
       DEF TimeLimit, BytesInv, Exclusive, TypeOK, Procs, InCall, Locked
  <2>5. WindowWritten' /\ SyncInv' /\ SyncDrains'
    BY <1>6, <2>1, ProcessAssumption
       DEF TimeLimit, WindowWritten, SyncInv, SyncDrains, TypeOK, Procs
  <2>6. QED
    BY <2>2, <2>3, <2>4, <2>5 DEF Rest
<1>7. ASSUME NEW w \in Writers, Signal(w) PROVE Rest'
  <2>1. /\ Used' = Used
        /\ \A i : Ahead(i)' = Ahead(i)
        /\ \A i : Published(i)' = Published(i)
    BY <1>7, Still DEF Signal
  <2>2. Exclusive'
    BY <1>7, ProcessAssumption
       DEF Signal, Exclusive, TypeOK, Procs, Locked
  <2>3. PassInv'
    BY <1>7, <2>1 DEF Signal, PassInv, TypeOK, Procs, InCall, Locked
  <2>4. BytesInv'
    BY <1>7, <2>1, ProcessAssumption
       DEF Signal, BytesInv, Exclusive, TypeOK, Procs, InCall, Locked
  <2>5. WindowWritten' /\ SyncInv' /\ SyncDrains'
    BY <1>7, <2>1, ProcessAssumption
       DEF Signal, WindowWritten, SyncInv, SyncDrains, TypeOK, Procs
  <2>6. QED
    BY <2>2, <2>3, <2>4, <2>5 DEF Rest
<1>8. ASSUME NEW w \in Writers, Up(w) PROVE Rest'
  <2>1. /\ Used' = Used
        /\ \A i : Ahead(i)' = Ahead(i)
        /\ \A i : Published(i)' = Published(i)
    BY <1>8, Still DEF Up
  <2>2. Exclusive'
    BY <1>8, ProcessAssumption
       DEF Up, Exclusive, TypeOK, Procs, Locked
  <2>3. PassInv'
    BY <1>8, <2>1 DEF Up, PassInv, TypeOK, Procs, InCall, Locked
  <2>4. BytesInv'
    <3>1. Used \in Nat
      BY UsedLinear, SlotsAssumption DEF TypeOK, Index
    <3>2. ~faulted => bytes = nfetched + Used
      BY <1>8, <3>1
         DEF Up, BytesInv, Exclusive, TypeOK, Procs, InCall, Locked
    <3>3. QED
      BY <1>8, <2>1, <3>2, ProcessAssumption
         DEF Up, BytesInv, TypeOK, Procs, InCall, Locked
  <2>5. WindowWritten' /\ SyncInv' /\ SyncDrains'
    BY <1>8, <2>1, ProcessAssumption
       DEF Up, WindowWritten, SyncInv, SyncDrains, TypeOK, Procs
  <2>6. QED
    BY <2>2, <2>3, <2>4, <2>5 DEF Rest
<1>9. ASSUME NEW s \in Syncers, Sync(s) PROVE Rest'
  <2>1. /\ Used' = Used
        /\ \A i : Ahead(i)' = Ahead(i)
        /\ \A i : Published(i)' = Published(i)
    BY <1>9, Still DEF Sync
  <2>2. \A w \in Writers : pc'[w] = pc[w]
    BY <1>9, ProcessAssumption DEF Sync, TypeOK, Procs
  <2>3. Exclusive' /\ PassInv' /\ WindowWritten' /\ BytesInv'
    BY <1>9, <2>1, <2>2
       DEF Sync, Exclusive, PassInv, WindowWritten, BytesInv
  <2>4. SyncInv' /\ SyncDrains'
    BY <1>9, <2>1 DEF Sync, SyncInv, SyncDrains, TypeOK, Procs
  <2>5. QED
    BY <2>3, <2>4 DEF Rest
<1>10. ASSUME NEW s \in Syncers, WaitForEmpty(s) PROVE Rest'
  <2>1. /\ Used' = Used
        /\ \A i : Ahead(i)' = Ahead(i)
        /\ \A i : Published(i)' = Published(i)
    BY <1>10, Still DEF WaitForEmpty
  <2>2. \A w \in Writers : pc'[w] = pc[w]
    BY <1>10, ProcessAssumption DEF WaitForEmpty, TypeOK, Procs
  <2>3. Exclusive' /\ PassInv' /\ WindowWritten' /\ BytesInv'
    BY <1>10, <2>1, <2>2
       DEF WaitForEmpty, Exclusive, PassInv, WindowWritten, BytesInv
  <2>4. IsEmpty => Used = 0
    BY UsedLinear, SlotsAssumption DEF TypeOK, Index, IsEmpty
  <2>5. SyncInv' /\ SyncDrains'
    BY <1>10, <2>1, <2>4 DEF WaitForEmpty, SyncInv, SyncDrains, TypeOK, Procs
  <2>6. QED
    BY <2>3, <2>5 DEF Rest
<1>11. ASSUME NEW s \in Syncers, SyncGivesUp(s) PROVE Rest'
  <2>1. /\ Used' = Used
        /\ \A i : Ahead(i)' = Ahead(i)
        /\ \A i : Published(i)' = Published(i)
    BY <1>11, Still DEF SyncGivesUp
  <2>2. \A w \in Writers : pc'[w] = pc[w]
    BY <1>11, ProcessAssumption DEF SyncGivesUp, TypeOK, Procs
  <2>3. Exclusive' /\ PassInv' /\ WindowWritten' /\ BytesInv'
    BY <1>11, <2>1, <2>2
       DEF SyncGivesUp, Exclusive, PassInv, WindowWritten, BytesInv
  <2>4. SyncInv' /\ SyncDrains'
    BY <1>11, <2>1 DEF SyncGivesUp, SyncInv, SyncDrains, TypeOK, Procs
  <2>5. QED
    BY <2>3, <2>4 DEF Rest
<1>12. ASSUME NEW s \in Syncers, SyncReturns(s) PROVE Rest'
  <2>1. /\ Used' = Used
        /\ \A i : Ahead(i)' = Ahead(i)
        /\ \A i : Published(i)' = Published(i)
    BY <1>12, Still DEF SyncReturns
  <2>2. \A w \in Writers : pc'[w] = pc[w]
    BY <1>12, ProcessAssumption DEF SyncReturns, TypeOK, Procs
  <2>3. Exclusive' /\ PassInv' /\ WindowWritten' /\ BytesInv'
    BY <1>12, <2>1, <2>2
       DEF SyncReturns, Exclusive, PassInv, WindowWritten, BytesInv
  <2>4. SyncInv' /\ SyncDrains'
    BY <1>12, <2>1 DEF SyncReturns, SyncInv, SyncDrains, TypeOK, Procs
  <2>5. QED
    BY <2>3, <2>4 DEF Rest
<1>13. ASSUME Interrupt PROVE Rest'
  <2>1. /\ Used' = Used
        /\ \A i : Ahead(i)' = Ahead(i)
        /\ \A i : Published(i)' = Published(i)
    BY <1>13, Still DEF Interrupt
  <2>2. \A p \in Procs :
          pc'[p] = pc[p] \/ (pc[p] = "sleep" /\ pc'[p] = "wait")
    BY <1>13 DEF Interrupt, FifoCheck, TypeOK
  <2>3. Exclusive' /\ WindowWritten'
    BY <1>13, <2>1, <2>2
       DEF Interrupt, Exclusive, WindowWritten, Procs, Locked
  <2>4. PassInv'
    BY <1>13, <2>1, <2>2 DEF Interrupt, PassInv, Procs, InCall, Locked
  <2>5. BytesInv' /\ SyncInv' /\ SyncDrains'
    BY <1>13, <2>1, <2>2
       DEF Interrupt, BytesInv, SyncInv, SyncDrains, Procs, InCall, Locked
  <2>6. QED
    BY <2>3, <2>4, <2>5 DEF Rest
<1>14. ASSUME NEW m \in PlayModes, SetPlaymode(m) PROVE Rest'
  <2>1. /\ Used' = Used
        /\ \A i : Ahead(i)' = Ahead(i)
        /\ \A i : Published(i)' = Published(i)
    BY <1>14, Still DEF SetPlaymode
  <2>2. QED
    BY <1>14, <2>1
       DEF SetPlaymode, Rest, Exclusive, PassInv, WindowWritten, BytesInv, SyncInv,
           SyncDrains
<1>15. ASSUME NEW on \in BOOLEAN, SetClock(on) PROVE Rest'
  <2>1. /\ Used' = Used
        /\ \A i : Ahead(i)' = Ahead(i)
        /\ \A i : Published(i)' = Published(i)
    BY <1>15, Still DEF SetClock
  <2>2. QED
    BY <1>15, <2>1
       DEF SetClock, Rest, Exclusive, PassInv, WindowWritten, BytesInv, SyncInv,
           SyncDrains
<1>16. ASSUME UNCHANGED vars PROVE Rest'
  <2>1. /\ Used' = Used
        /\ \A i : Ahead(i)' = Ahead(i)
        /\ \A i : Published(i)' = Published(i)
    BY <1>16, Still DEF vars
  <2>2. QED
    BY <1>16, <2>1
       DEF vars, Rest, Exclusive, PassInv, WindowWritten, BytesInv, SyncInv,
           SyncDrains
<1>17. ASSUME NEW w \in Writers, ReadRoom(w) PROVE Rest'
  <2>1. /\ Used' = Used
        /\ \A i : Ahead(i)' = Ahead(i)
        /\ \A i : Published(i)' = Published(i)
    BY <1>17, Still DEF ReadRoom
  <2>2. Exclusive'
    BY <1>17, ProcessAssumption DEF ReadRoom, Exclusive, TypeOK, Procs, Locked
  <2>3. PassInv'
    <3>1. /\ Used \in Nat /\ Slots \in Nat
          /\ room'[w] = Slots - 1 - Used
          /\ got'[w] = 0
          /\ Ahead(widx[w]) = Used
      BY <1>17, FreeLinear, UsedLinear, SlotsAssumption
         DEF ReadRoom, PassInv, TypeOK, Used, Index
    <3>2. /\ Used + got'[w] + room'[w] <= Slots - 1
          /\ Ahead(widx[w]) = Used + got'[w]
          /\ \A i \in Index : ~(Used <= Ahead(i) /\ Ahead(i) < Used + got'[w])
      <4>1. \A i \in Index : Ahead(i) \in Int
        BY AheadLinear DEF TypeOK, Index
      <4>2. QED
        BY <3>1, <4>1
    <3>3. \A v \in Writers \ {w} : pc'[v] = pc[v] /\ got'[v] = got[v]
                                      /\ room'[v] = room[v]
      BY <1>17 DEF ReadRoom, TypeOK, Procs
    <3>4. pc'[w] = "copy" /\ call[w] >= 1
      BY <1>17 DEF ReadRoom, PassInv, TypeOK, Procs, InCall, Locked
    <3>5. QED
      BY <1>17, <2>1, <3>2, <3>3, <3>4 DEF ReadRoom, PassInv
  <2>4. BytesInv'
    BY <1>17, <2>1, ProcessAssumption
       DEF ReadRoom, BytesInv, Exclusive, TypeOK, Procs, InCall, Locked
  <2>5. WindowWritten' /\ SyncInv' /\ SyncDrains'
    BY <1>17, <2>1, ProcessAssumption
       DEF ReadRoom, WindowWritten, SyncInv, SyncDrains, TypeOK, Procs
  <2>6. QED
    BY <2>2, <2>3, <2>4, <2>5 DEF Rest
<1>18. ASSUME NEW w \in Writers, CopySlot(w) PROVE Rest'
  <2>1. /\ Used' = Used
        /\ \A i : Ahead(i)' = Ahead(i)
        /\ \A i : Published(i)' = Published(i)
    BY <1>18, Still DEF CopySlot
  <2>2. /\ lock = w /\ Used \in Nat /\ got[w] \in Nat
        /\ room[w] \in Nat /\ room[w] > 0 /\ widx[w] \in Index
    <3>1. lock = w /\ room[w] > 0
      BY <1>18 DEF CopySlot, Exclusive, Locked
    <3>2. Used \in Nat
      BY UsedLinear, SlotsAssumption DEF TypeOK, Index
    <3>3. got[w] \in Nat /\ room[w] \in Nat /\ widx[w] \in Index
      BY SlotsAssumption DEF TypeOK, Index
    <3>4. QED
      BY <3>1, <3>2, <3>3
  <2>3. slot'[widx[w]] # Torn
    <3>1. call[w] \in 1 .. MaxCalls /\ pos[w] + 1 \in Nat \ {0}
      BY <1>18, SizesAssumption
         DEF CopySlot, PassInv, TypeOK, InCall, Locked
    <3>2. QED
      BY <1>18, <2>2, <3>1, TornAssumption, ChunkIsAChunk DEF CopySlot, TypeOK
  <2>4. \A i \in Index : slot'[i] = slot[i] \/ i = widx[w]
    BY <1>18 DEF CopySlot, TypeOK
  <2>5. PassInv'
    <3>1. /\ Ahead(widx[w]) = Used + got[w]
          /\ Used + got[w] + room[w] <= Slots - 1
          /\ \A i \in Index :
               Used <= Ahead(i) /\ Ahead(i) < Used + got[w] => slot[i] # Torn
      BY <1>18 DEF CopySlot, PassInv
    <3>2. /\ got'[w] = got[w] + 1 /\ room'[w] = room[w] - 1
          /\ widx'[w] = NextSlot(widx[w])
      BY <1>18 DEF CopySlot, TypeOK
    <3>3. Ahead(NextSlot(widx[w])) = Used + got[w] + 1
      <4>1. /\ rd \in Index /\ NextSlot(widx[w]) \in Index
            /\ NextSlot(widx[w]) =
                 IF widx[w] = Slots - 1 THEN 0 ELSE widx[w] + 1
        BY <2>2, NextLinear DEF TypeOK
      <4>2. /\ Ahead(widx[w]) = IF widx[w] >= rd THEN widx[w] - rd
                                ELSE widx[w] - rd + Slots
            /\ Ahead(NextSlot(widx[w])) =
                 IF NextSlot(widx[w]) >= rd THEN NextSlot(widx[w]) - rd
                 ELSE NextSlot(widx[w]) - rd + Slots
        BY <2>2, <4>1, AheadLinear
      <4>3. QED
        BY <2>2, <3>1, <4>1, <4>2, SlotsAssumption DEF Index
    <3>4. \A i \in Index :
            Used <= Ahead(i) /\ Ahead(i) < Used + got[w] + 1 => slot'[i] # Torn
      <4>1. ASSUME NEW i \in Index, Used <= Ahead(i),
                   Ahead(i) < Used + got[w] + 1
            PROVE  slot'[i] # Torn
        <5>1. Ahead(i) \in Int
          BY AheadLinear DEF TypeOK, Index
        <5>2. CASE Ahead(i) = Used + got[w]
          BY <2>2, <2>3, <3>1, <5>2, AheadInjective DEF TypeOK
        <5>3. CASE Ahead(i) < Used + got[w]
          BY <2>3, <2>4, <3>1, <4>1, <5>3
        <5>4. QED
          BY <2>2, <4>1, <5>1, <5>2, <5>3
      <4>2. QED
        BY <4>1
    <3>5. Used + got'[w] + room'[w] <= Slots - 1
      BY <2>2, <3>1, <3>2, SlotsAssumption
    <3>6. \A v \in Writers \ {w} : pc[v] # "copy"
      BY <2>2 DEF Exclusive, Locked
    <3>7. \A v \in Writers \ {w} : widx'[v] = widx[v]
      BY <1>18 DEF CopySlot, TypeOK
    <3>8. pc[w] = "copy" /\ pc' = pc /\ call' = call /\ tries' = tries
          /\ wr' = wr
      BY <1>18 DEF CopySlot
    <3>9. got[w] + 1 \in Nat /\ Used + got'[w] = Used + got[w] + 1
      BY <2>2, <3>2
    <3>10. QED
      BY <2>1, <3>2, <3>3, <3>4, <3>5, <3>6, <3>7, <3>8, <3>9 DEF PassInv
  <2>6. Exclusive' /\ SyncInv' /\ SyncDrains'
    BY <1>18, <2>1 DEF CopySlot, Exclusive, SyncInv, SyncDrains
  <2>7. WindowWritten'
    BY <2>1, <2>3, <2>4 DEF WindowWritten
  <2>8. BytesInv'
    <3>1. got'[w] = got[w] + 1
      BY <1>18 DEF CopySlot, TypeOK
    <3>2. pc[w] = "copy" /\ \A v \in Writers \ {w} : got'[v] = got[v]
      BY <1>18 DEF CopySlot, TypeOK
    <3>3. ~faulted => bytes + 1 = nfetched + Used + got'[w]
      BY <2>2, <3>1 DEF BytesInv, TypeOK
    <3>4. QED
      BY <1>18, <2>1, <2>2, <3>2, <3>3, ProcessAssumption
         DEF CopySlot, BytesInv, InCall
  <2>9. QED
    BY <2>5, <2>6, <2>7, <2>8 DEF Rest
<1>19. ASSUME NEW w \in Writers, CopyFault(w) PROVE Rest'
  <2>1. /\ Used' = Used
        /\ \A i : Ahead(i)' = Ahead(i)
        /\ \A i : Published(i)' = Published(i)
    BY <1>19, Still DEF CopyFault
  <2>2. Exclusive'
    BY <1>19, ProcessAssumption DEF CopyFault, Exclusive, TypeOK, Procs, Locked
  <2>3. PassInv'
    BY <1>19, <2>1
       DEF CopyFault, PassInv, Exclusive, TypeOK, Procs, InCall, Locked
  <2>4. WindowWritten'
    <3>1. Used \in Nat /\ got[w] \in Nat /\ Ahead(widx[w]) = Used + got[w]
      BY <1>19, UsedLinear, SlotsAssumption
         DEF CopyFault, PassInv, TypeOK, Index
    <3>2. ~Published(widx[w])
      BY <3>1 DEF Published
    <3>3. \A i \in Index : slot'[i] = slot[i] \/ i = widx[w]
      BY <1>19 DEF CopyFault, TypeOK
    <3>4. QED
      BY <2>1, <3>2, <3>3 DEF WindowWritten
  <2>5. BytesInv' /\ SyncInv' /\ SyncDrains'
    BY <1>19, <2>1, ProcessAssumption
       DEF CopyFault, BytesInv, SyncInv, SyncDrains, TypeOK, Procs
  <2>6. QED
    BY <2>2, <2>3, <2>4, <2>5 DEF Rest
<1>20. ASSUME NEW w \in Writers, Publish(w) PROVE Rest'
  <2>1. /\ Used \in Nat /\ got[w] \in Nat /\ lock = w /\ pc[w] = "copy"
        /\ Ahead(widx[w]) = Used + got[w]
        /\ \A i \in Index :
             Used <= Ahead(i) /\ Ahead(i) < Used + got[w] => slot[i] # Torn
    BY <1>20, UsedLinear, SlotsAssumption
       DEF Publish, PassInv, Exclusive, TypeOK, Locked, Index
  <2>2. \A i : Ahead(i)' = Ahead(i)
    BY <1>20 DEF Publish, Ahead
  <2>3. Used' = Used + got[w]
    BY <1>20, <2>1, <2>2 DEF Publish, Used
  <2>4. Exclusive'
    BY <1>20, ProcessAssumption DEF Publish, Exclusive, TypeOK, Procs, Locked
  <2>5. PassInv'
    BY <1>20, <2>1
       DEF Publish, PassInv, Exclusive, TypeOK, Procs, InCall, Locked
  <2>6. WindowWritten'
    <3>1. ASSUME NEW i \in Index, Published(i)' PROVE slot[i] # Torn
      <4>1. Ahead(i) \in Int /\ Ahead(i) < Used + got[w]
        BY <2>2, <2>3, <3>1, AheadLinear DEF Published, TypeOK, Index
      <4>2. CASE Ahead(i) < Used
        BY <4>2 DEF WindowWritten, Published
      <4>3. CASE ~(Ahead(i) < Used)
        BY <2>1, <4>1, <4>3
      <4>4. QED
        BY <4>2, <4>3
    <3>2. QED
      BY <1>20, <3>1 DEF Publish, WindowWritten
  <2>7. BytesInv'
    <3>1. \A v \in Writers : got'[v] = IF v = w THEN 0 ELSE got[v]
      BY <1>20 DEF Publish, TypeOK
    <3>2. \A v \in Writers \ {w} : pc'[v] = pc[v]
      BY <1>20 DEF Publish, TypeOK, Procs
    <3>3. ~faulted => bytes = nfetched + Used'
      BY <2>1, <2>3 DEF BytesInv, TypeOK
    <3>4. Used' + 0 = Used' /\ nfetched + Used' + 0 = nfetched + Used'
      BY <2>1, <2>3 DEF TypeOK
    <3>5. QED
      BY <1>20, <2>1, <3>1, <3>2, <3>3, <3>4, ProcessAssumption
         DEF Publish, BytesInv
  <2>8. SyncInv' /\ SyncDrains'
    <3>1. \A s \in Syncers : pc'[s] = pc[s]
      BY <1>20, ProcessAssumption DEF Publish, TypeOK, Procs
    <3>2. QED
      BY <1>20, <2>1, <2>3, <3>1 DEF Publish, SyncInv, SyncDrains, TypeOK
  <2>9. QED
    BY <2>4, <2>5, <2>6, <2>7, <2>8 DEF Rest
<1>21. ASSUME Fetch PROVE Rest'
  <2>1. /\ Used \in Nat /\ Used > 0 /\ Used' = Used - 1
        /\ \A i \in Index :
             Ahead(i)' = IF i = rd THEN Slots - 1 ELSE Ahead(i) - 1
    BY <1>21, Nearer DEF Fetch, IsEmpty
  <2>2. rd \in Index /\ Ahead(rd) = 0 /\ Used <= Slots - 1
    BY AheadLinear, UsedLinear, SlotsAssumption DEF TypeOK, Index
  <2>3. \A i \in Index : Ahead(i) \in Nat
    <3>1. \A i \in Index : Ahead(i) \in Index
      BY AheadLinear DEF TypeOK
    <3>2. QED
      BY <3>1, SlotsAssumption DEF Index
  <2>4. Exclusive'
    BY <1>21 DEF Fetch, Exclusive
  <2>5. PassInv'
    <3>1. ASSUME NEW w \in Writers, pc[w] = "copy"
          PROVE  /\ Ahead(widx[w])' = Used' + got[w]
                 /\ Used' + got[w] + room[w] <= Slots - 1
                 /\ \A i \in Index :
                      Used' <= Ahead(i)' /\ Ahead(i)' < Used' + got[w]
                        => slot[i] # Torn
      <4>1. /\ Ahead(widx[w]) = Used + got[w]
            /\ Used + got[w] + room[w] <= Slots - 1
            /\ \A i \in Index :
                 Used <= Ahead(i) /\ Ahead(i) < Used + got[w] => slot[i] # Torn
        BY <3>1 DEF PassInv
      <4>2. /\ widx[w] \in Index /\ got[w] \in Nat /\ room[w] \in Nat
            /\ Slots \in Nat
        BY SlotsAssumption DEF TypeOK, Index
      <4>3. widx[w] # rd /\ widx'[w] = widx[w]
        BY <1>21, <2>1, <2>2, <4>1, <4>2 DEF Fetch
      <4>4. Ahead(widx[w])' = Ahead(widx[w]) - 1
        <5>1. \A i \in Index : i # rd =>
                (i - rd' + Slots) % Slots = ((i - rd + Slots) % Slots) - 1
          BY <2>1 DEF Ahead
        <5>2. QED
          BY <4>2, <4>3, <5>1 DEF Ahead
      <4>5. Used' + got[w] + room[w] <= Slots - 1
        BY <2>1, <4>1, <4>2
      <4>6. ASSUME NEW i \in Index, Used' <= Ahead(i)',
                   Ahead(i)' < Used' + got[w]
            PROVE  slot[i] # Torn
        <5>1. i # rd
          BY <2>1, <4>2, <4>5, <4>6
        <5>2. Used <= Ahead(i) /\ Ahead(i) < Used + got[w]
          BY <2>1, <2>3, <4>2, <4>6, <5>1
        <5>3. QED
          BY <4>1, <5>2
      <4>7. QED
        BY <2>1, <4>1, <4>2, <4>4, <4>5, <4>6
    <3>2. QED
      BY <1>21, <3>1 DEF Fetch, PassInv, InCall, Locked
  <2>6. WindowWritten'
    <3>1. ASSUME NEW i \in Index, Published(i)' PROVE Published(i)
      BY <2>1, <2>2, <2>3, <3>1, SlotsAssumption DEF Published
    <3>2. QED
      BY <1>21, <3>1 DEF Fetch, WindowWritten
  <2>7. nfetched' + Used' = nfetched + Used
    BY <1>21, <2>1 DEF Fetch, TypeOK
  <2>8. BytesInv'
    BY <1>21, <2>7 DEF Fetch, BytesInv
  <2>9. SyncInv' /\ SyncDrains'
    BY <1>21, <2>7 DEF Fetch, SyncInv, SyncDrains, TypeOK
  <2>10. QED
    BY <2>4, <2>5, <2>6, <2>8, <2>9 DEF Rest
<1>22. QED
  BY <1>1, <1>2, <1>3, <1>4, <1>5, <1>6, <1>7, <1>8, <1>9, <1>10, <1>11, <1>12, <1>13,
     <1>14, <1>15, <1>16, <1>17, <1>18, <1>19, <1>20, <1>21
     DEF Next, Application, Player, WriterStep, SyncStep

-------------------------------------------------------------------------------
(* The theorems. *)

\* Every invariant of the FIFO follows from one inductive invariant, for every
\* number of slots, writers, sync callers and calls, and whatever chunks of the
\* callers' buffers cannot be read.
THEOREM InvHolds == Spec => []Inv
<1>1. Inv /\ [Next]_vars => Inv'
  <2>1. Inv => TypeOK /\ CallInv
    BY DEF Inv, PassInv, CallInv
  <2>2. QED
    BY <2>1, TypeStep, RestStep DEF Inv, Rest
<1>2. QED
  BY InitInv, <1>1, PTL DEF Spec

\* The pointers, the slots and the state of every call keep their types.
THEOREM TypeCorrect == Spec => []TypeOK
BY InvHolds, PTL DEF Inv

\* The card never takes a slot in the middle of its rewriting: each has been
\* through a whole round of a copy loop (em8300_fifo_write_nolock moves the write
\* pointer last), whatever chunks could not be read (Holes).
THEOREM OnlyWrittenSlotsAreTaken == Spec => []WindowWritten
BY InvHolds, PTL DEF Inv

\* No writer fills a slot that the card may be taking, although the card moves
\* while the writer works from the free slots it counted at first.
THEOREM NoSlotIsOverrun == Spec => []NoOverrun
<1>1. Inv => NoOverrun
  <2> SUFFICES ASSUME Inv, NEW w \in Writers, pc[w] = "copy"
               PROVE  ~Published(widx[w])
    BY DEF NoOverrun
  <2>1. Ahead(widx[w]) = Used + got[w] /\ got[w] \in Nat
    BY DEF Inv, PassInv, TypeOK
  <2>2. Used \in Nat
    BY UsedLinear, SlotsAssumption DEF Inv, TypeOK, Index
  <2>3. QED
    BY <2>1, <2>2 DEF Published
<1>2. QED
  BY <1>1, InvHolds, PTL

\* fifo->lock is held over whole calls, by one writer, and released by each.
THEOREM CallsAreExclusive == Spec => []Exclusive
BY InvHolds, PTL DEF Inv

\* Between writes, fifo->bytes less the chunks between the pointers is what the
\* card has taken (what SNDCTL_DSP_GETOPTR starts from).
THEOREM PlayedCountIsExact == Spec => []PlayedIsFetched
<1>1. Inv => PlayedIsFetched
  <2> SUFFICES ASSUME Inv, lock = NoOne, ~faulted
               PROVE  bytes - Used = nfetched
    BY DEF PlayedIsFetched
  <2>1. bytes = nfetched + Used /\ nfetched \in Nat
    BY DEF Inv, BytesInv, TypeOK
  <2>2. Used \in Nat
    BY UsedLinear, SlotsAssumption DEF Inv, TypeOK, Index
  <2>3. QED
    BY <2>1, <2>2
<1>2. QED
  BY <1>1, InvHolds, PTL

\* A sync that succeeds has seen everything published before it taken.
THEOREM SyncIsABarrier == Spec => []SyncDrains
BY InvHolds, PTL DEF Inv

-------------------------------------------------------------------------------
(* The refinement: the queue of Em8300Stream is the slots between the pointers, *)
(* and a call appends its chunks at the moment the write pointer moves.         *)

\* Outside the copy loop a call has nothing copied that is not published, but for
\* one that a refused buffer has ended.
GotInv ==
  \A w \in Writers :
    /\ pc[w] \in {"down", "index", "room", "full", "wait", "sleep"} => got[w] = 0
    /\ pc[w] = "up" => err[w] = EFAULT \/ got[w] = 0

\* What a pass has copied are the chunks of its call that come next.
CopiedInv ==
  \A w \in Writers :
    pc[w] = "copy" =>
      \A i \in Index :
        Used <= Ahead(i) /\ Ahead(i) < Used + got[w] =>
          slot[i] = Chunk(w, call[w], (pos[w] - got[w]) + ((Ahead(i) - Used) + 1))

\* The number of copied chunks is reset before each pass.
LEMMA GotStep == TypeOK /\ GotInv /\ [Next]_vars => GotInv'
<1> SUFFICES ASSUME TypeOK, GotInv, [Next]_vars PROVE GotInv'
  OBVIOUS
<1> USE DEF Goto, ring, env, local, GotInv, TypeOK, Procs
<1>1. ASSUME NEW w \in Writers, NEW n \in Sizes, NEW nb \in BOOLEAN,
             Write(w, n, nb)
      PROVE  GotInv'
  BY <1>1 DEF Write
<1>2. ASSUME NEW w \in Writers,
             \/ Down(w) \/ ReadIndex(w) \/ ReadRoom(w) \/ CopySlot(w)
             \/ CopyFault(w) \/ Publish(w)
      PROVE  GotInv'
  BY <1>2 DEF Down, ReadIndex, ReadRoom, CopySlot, CopyFault, Publish
<1>3. ASSUME NEW w \in Writers,
             \/ Decide(w) \/ WaitForRoom(w) \/ TimeLimit(w) \/ Signal(w) \/ Up(w)
      PROVE  GotInv'
  BY <1>3 DEF Decide, WaitForRoom, TimeLimit, Signal, Up
<1>4. ASSUME NEW s \in Syncers,
             Sync(s) \/ WaitForEmpty(s) \/ SyncGivesUp(s) \/ SyncReturns(s)
      PROVE  GotInv'
  BY <1>4, ProcessAssumption DEF Sync, WaitForEmpty, SyncGivesUp, SyncReturns
<1>5. ASSUME Interrupt PROVE GotInv'
  BY <1>5 DEF Interrupt, FifoCheck
<1>6. ASSUME \/ Fetch
             \/ \E m \in PlayModes : SetPlaymode(m)
             \/ \E on \in BOOLEAN : SetClock(on)
             \/ UNCHANGED vars
      PROVE  GotInv'
  BY <1>6 DEF Fetch, SetPlaymode, SetClock, vars
<1>7. QED
  BY <1>1, <1>2, <1>3, <1>4, <1>5, <1>6
     DEF Next, Application, Player, WriterStep, SyncStep

\* A step that leaves the ring alone and starts no copy keeps what was copied.
LEMMA CopiedKept ==
  ASSUME CopiedInv, rd' = rd, wr' = wr, slot' = slot,
         \A w \in Writers :
           pc'[w] = "copy" =>
             /\ pc[w] = "copy" /\ call'[w] = call[w]
             /\ got'[w] = got[w] /\ pos'[w] = pos[w]
  PROVE  CopiedInv'
<1>1. Used' = Used /\ \A i : Ahead(i)' = Ahead(i)
  BY Still
<1>2. QED
  BY <1>1 DEF CopiedInv

\* Each round of the copy loop adds the next chunk of the call.
LEMMA CopiedStep ==
  ASSUME Inv, CopiedInv, [Next]_vars
  PROVE  CopiedInv'
<1> USE DEF Goto, ring, env, local
<1> TypeOK
  BY DEF Inv
<1>1. ASSUME NEW w \in Writers, NEW n \in Sizes, NEW nb \in BOOLEAN,
             Write(w, n, nb)
      PROVE  CopiedInv'
  BY <1>1, CopiedKept DEF Write, TypeOK, Procs
<1>2. ASSUME NEW w \in Writers,
             \/ Down(w) \/ ReadIndex(w) \/ CopyFault(w)
      PROVE  CopiedInv'
  <2>1. CASE Down(w)
    <3>1. pc'[w] \in {"up", "index"} /\ \A v \in Writers \ {w} : pc'[v] = pc[v]
      BY <2>1 DEF Down, TypeOK, Procs
    <3>2. QED
      BY <2>1, <3>1, CopiedKept DEF Down
  <2>2. CASE ReadIndex(w)
    BY <2>2, CopiedKept DEF ReadIndex, TypeOK, Procs
  <2>3. CASE CopyFault(w)
    <3>1. \A v \in Writers : pc'[v] # "copy"
      BY <2>3 DEF CopyFault, TypeOK, Procs, Inv, Exclusive, Locked
    <3>2. QED
      BY <3>1 DEF CopiedInv
  <2>4. QED
    BY <1>2, <2>1, <2>2, <2>3
<1>3. ASSUME NEW w \in Writers, ReadRoom(w) PROVE CopiedInv'
  <2>1. /\ got'[w] = 0
        /\ \A v \in Writers : v # w => pc'[v] # "copy"
    BY <1>3 DEF ReadRoom, TypeOK, Procs, Inv, Exclusive, Locked
  <2>2. Used' = Used /\ \A i : Ahead(i)' = Ahead(i)
    BY <1>3, Still DEF ReadRoom
  <2>3. Used \in Int /\ \A i \in Index : Ahead(i) \in Int
    <3>1. Used \in Index /\ \A i \in Index : Ahead(i) \in Index
      BY UsedLinear, AheadLinear DEF TypeOK
    <3>2. QED
      BY <3>1, SlotsAssumption DEF Index
  <2>4. \A i \in Index : ~(Used <= Ahead(i) /\ Ahead(i) < Used + got'[w])
    BY <2>1, <2>3
  <2>5. QED
    BY <2>1, <2>2, <2>4 DEF CopiedInv
<1>4. ASSUME NEW w \in Writers, CopySlot(w) PROVE CopiedInv'
  <2>1. Used' = Used /\ \A i : Ahead(i)' = Ahead(i)
    BY <1>4, Still DEF CopySlot
  <2>2. /\ pc[w] = "copy"
        /\ \A v \in Writers : v # w => pc'[v] # "copy"
    BY <1>4 DEF CopySlot, TypeOK, Procs, Inv, Exclusive, Locked
  <2>3. /\ got'[w] = got[w] + 1 /\ pos'[w] = pos[w] + 1 /\ call' = call
        /\ got[w] \in Nat /\ pos[w] \in Nat /\ widx[w] \in Index
        /\ slot'[widx[w]] = Chunk(w, call[w], pos[w] + 1)
        /\ \A i \in Index : i # widx[w] => slot'[i] = slot[i]
    BY <1>4 DEF CopySlot, TypeOK
  <2>4. Ahead(widx[w]) = Used + got[w]
    BY <2>2 DEF Inv, PassInv
  <2>5. Used \in Nat /\ \A i \in Index : Ahead(i) \in Nat
    <3>1. Used \in Index /\ \A i \in Index : Ahead(i) \in Index
      BY UsedLinear, AheadLinear DEF TypeOK
    <3>2. QED
      BY <3>1, SlotsAssumption DEF Index
  <2>6. ASSUME NEW i \in Index, Used <= Ahead(i), Ahead(i) < Used + got'[w]
        PROVE  slot'[i] =
                 Chunk(w, call[w], (pos'[w] - got'[w]) + ((Ahead(i) - Used) + 1))
    <3>1. pos'[w] - got'[w] = pos[w] - got[w]
      BY <2>3
    <3>2. CASE i = widx[w]
      <4>1. (pos[w] - got[w]) + ((Ahead(i) - Used) + 1) = pos[w] + 1
        BY <2>3, <2>4, <2>5, <3>2
      <4>2. QED
        BY <2>3, <3>1, <3>2, <4>1
    <3>3. CASE i # widx[w]
      <4>1. Ahead(i) # Ahead(widx[w])
        BY <2>3, <3>3, AheadInjective DEF TypeOK
      <4>2. Ahead(i) < Used + got[w]
        BY <2>3, <2>4, <2>5, <2>6, <4>1
      <4>3. QED
        BY <2>2, <2>3, <2>6, <3>1, <3>3, <4>2 DEF CopiedInv
    <3>4. QED
      BY <3>2, <3>3
  <2>7. QED
    BY <2>1, <2>2, <2>3, <2>6 DEF CopiedInv
<1>5. ASSUME NEW w \in Writers, Publish(w) PROVE CopiedInv'
  <2>1. \A v \in Writers : pc'[v] # "copy"
    BY <1>5 DEF Publish, TypeOK, Procs, Inv, Exclusive, Locked
  <2>2. QED
    BY <2>1 DEF CopiedInv
<1>6. ASSUME NEW w \in Writers,
             \/ Decide(w) \/ WaitForRoom(w) \/ TimeLimit(w) \/ Signal(w) \/ Up(w)
      PROVE  CopiedInv'
  BY <1>6, CopiedKept
     DEF Decide, WaitForRoom, TimeLimit, Signal, Up, TypeOK, Procs
<1>7. ASSUME NEW s \in Syncers,
             Sync(s) \/ WaitForEmpty(s) \/ SyncGivesUp(s) \/ SyncReturns(s)
      PROVE  CopiedInv'
  BY <1>7, CopiedKept, ProcessAssumption
     DEF Sync, WaitForEmpty, SyncGivesUp, SyncReturns, TypeOK, Procs
<1>8. ASSUME Interrupt PROVE CopiedInv'
  BY <1>8, CopiedKept DEF Interrupt, FifoCheck, TypeOK, Procs
<1>9. ASSUME Fetch PROVE CopiedInv'
  <2>1. /\ Used \in Nat /\ Used > 0 /\ Used' = Used - 1
        /\ \A i \in Index :
             Ahead(i)' = IF i = rd THEN Slots - 1 ELSE Ahead(i) - 1
    BY <1>9, Nearer DEF Fetch, IsEmpty
  <2>2. \A i \in Index : Ahead(i) \in Int
    <3>1. \A i \in Index : Ahead(i) \in Index
      BY AheadLinear DEF TypeOK
    <3>2. QED
      BY <3>1, SlotsAssumption DEF Index
  <2>3. ASSUME NEW w \in Writers, pc[w] = "copy", NEW i \in Index,
               Used' <= Ahead(i)', Ahead(i)' < Used' + got[w]
        PROVE  slot[i] =
                 Chunk(w, call[w], (pos[w] - got[w]) + ((Ahead(i)' - Used') + 1))
    <3>1. /\ Used + got[w] + room[w] <= Slots - 1
          /\ got[w] \in Nat /\ room[w] \in Nat /\ Slots \in Nat
      BY <2>3, SlotsAssumption DEF Inv, PassInv, TypeOK, Index
    <3>2. i # rd
      BY <2>1, <2>3, <3>1
    <3>3. Ahead(i)' = Ahead(i) - 1
      BY <2>1, <3>2
    <3>4. /\ Used <= Ahead(i) /\ Ahead(i) < Used + got[w]
          /\ Ahead(i)' - Used' = Ahead(i) - Used
      BY <2>1, <2>2, <2>3, <3>1, <3>3
    <3>5. QED
      BY <2>3, <3>4 DEF CopiedInv
  <2>4. QED
    BY <1>9, <2>3 DEF Fetch, CopiedInv
<1>10. ASSUME \/ \E m \in PlayModes : SetPlaymode(m)
              \/ \E on \in BOOLEAN : SetClock(on)
              \/ UNCHANGED vars
       PROVE  CopiedInv'
  BY <1>10, CopiedKept DEF SetPlaymode, SetClock, vars
<1>11. QED
  BY <1>1, <1>2, <1>3, <1>4, <1>5, <1>6, <1>7, <1>8, <1>9, <1>10
     DEF Next, Application, Player, WriterStep, SyncStep

\* The k-th slot between the pointers.
At(k) == (rd + k - 1) % Slots

\* The remainder of (readptr + k - 1) % nslots, without a remainder.
LEMMA WrapLinear ==
  ASSUME NEW r \in Index, NEW k \in 1 .. Slots - 1
  PROVE  (r + k - 1) % Slots =
           IF r + k - 1 >= Slots THEN r + k - 1 - Slots ELSE r + k - 1
<1>1. CASE r + k - 1 >= Slots
  BY <1>1, SlotsAssumption DEF Index
<1>2. CASE ~(r + k - 1 >= Slots)
  BY <1>2, SlotsAssumption DEF Index
<1>3. QED
  BY <1>1, <1>2

\* The k-th slot is k - 1 ahead of the card.
LEMMA AtLinear ==
  ASSUME rd \in Index, NEW k \in 1 .. Slots - 1
  PROVE  /\ At(k) \in Index
         /\ At(k) = IF rd + k - 1 >= Slots THEN rd + k - 1 - Slots ELSE rd + k - 1
         /\ Ahead(At(k)) = k - 1
<1>1. k \in Int /\ 1 <= k /\ k <= Slots - 1
  BY SlotsAssumption
<1>2. /\ At(k) = IF rd + k - 1 >= Slots THEN rd + k - 1 - Slots ELSE rd + k - 1
      /\ At(k) \in Index
  BY <1>1, WrapLinear, SlotsAssumption DEF Index, At
<1>3. Ahead(At(k)) = k - 1
  <2>1. Ahead(At(k)) = IF At(k) >= rd THEN At(k) - rd ELSE At(k) - rd + Slots
    BY <1>1, <1>2, AheadLinear
  <2>2. QED
    BY <1>1, <1>2, <2>1, SlotsAssumption DEF Index
<1>4. QED
  BY <1>2, <1>3

\* The chunks between the pointers are a sequence, as long as the used slots.
QueueOK ==
  /\ Used \in Nat
  /\ Buffered \in Seq(Chunks \cup {Torn})
  /\ Len(Buffered) = Used
  /\ \A k \in 1 .. Used : Buffered[k] = slot[At(k)]

\* The types give the shape of the queue.
LEMMA BufferedIsQueue == TypeOK => QueueOK
<1> SUFFICES ASSUME TypeOK PROVE QueueOK
  OBVIOUS
<1>1. Used \in Nat
  BY UsedLinear, SlotsAssumption DEF TypeOK, Index
<1>2. \A k \in 1 .. Used : slot[At(k)] \in Chunks \cup {Torn}
  <2>1. \A k \in 1 .. Used : k \in 1 .. Slots - 1
    BY UsedLinear, SlotsAssumption DEF TypeOK, Index
  <2>2. \A k \in 1 .. Used : At(k) \in Index
    BY <2>1, AtLinear DEF TypeOK
  <2>3. QED
    BY <2>2 DEF TypeOK
<1>3. Buffered = [k \in 1 .. Used |-> slot[At(k)]]
  BY DEF Buffered, At
<1>4. [k \in 1 .. Used |-> slot[At(k)]] \in Seq(Chunks \cup {Torn})
  BY <1>1, <1>2, IsASeq
<1>5. QED
  BY <1>1, <1>3, <1>4 DEF QueueOK

\* A step that moves no pointer and writes only slots that are not published
\* leaves the queue alone.
LEMMA QueueKept ==
  ASSUME TypeOK, rd' = rd, wr' = wr,
         \A i \in Index : Published(i) => slot'[i] = slot[i]
  PROVE  Buffered' = Buffered
<1>1. Used' = Used /\ \A k : At(k)' = At(k)
  BY Still DEF At
<1>2. \A k \in 1 .. Used : slot'[At(k)] = slot[At(k)]
  <2>1. ASSUME NEW k \in 1 .. Used PROVE slot'[At(k)] = slot[At(k)]
    <3>1. Used \in Nat /\ Ahead(At(k)) = k - 1 /\ At(k) \in Index
      <4>1. Used \in Nat /\ k \in 1 .. Slots - 1
        BY UsedLinear, SlotsAssumption DEF TypeOK, Index
      <4>2. QED
        BY <4>1, AtLinear DEF TypeOK
    <3>2. Published(At(k))
      BY <3>1 DEF Published
    <3>3. QED
      BY <3>1, <3>2
  <2>2. QED
    BY <2>1
<1>3. Buffered = [k \in 1 .. Used |-> slot[At(k)]]
  BY DEF Buffered, At
<1>4. Buffered' = [k \in 1 .. Used |-> slot'[At(k)]]
  BY <1>1 DEF Buffered, At
<1>5. QED
  BY <1>2, <1>3, <1>4

\* What a finished call returns is what it appended, or the error that it may.
LEMMA ReturnedIsAppended ==
  ASSUME TypeOK, GotInv, NEW w \in Writers, pc[w] = "up"
  PROVE  Returned(w) \in Stream!MayReturn(pos[w] - got[w])
<1>1. CASE err[w] = EFAULT
  BY <1>1 DEF Returned, Stream!MayReturn, Stream!EFAULT, EFAULT
<1>2. CASE err[w] # EFAULT
  <2>1. got[w] = 0 /\ pos[w] \in Nat /\ pos[w] - got[w] = pos[w]
    BY <1>2 DEF GotInv, TypeOK
  <2>2. err[w] \in {0, EINTR, ERESTARTSYS}
    BY <1>2 DEF TypeOK
  <2>3. CASE err[w] # 0 /\ pos[w] = 0
    BY <1>2, <2>1, <2>2, <2>3
       DEF Returned, Stream!MayReturn, Stream!EINTR, Stream!ERESTARTSYS,
           EINTR, ERESTARTSYS
  <2>4. CASE ~(err[w] # 0 /\ pos[w] = 0)
    BY <1>2, <2>1, <2>4 DEF Returned, Stream!MayReturn
  <2>5. QED
    BY <2>3, <2>4
<1>3. QED
  BY <1>1, <1>2

\* Publishing a pass that copied something appends its chunks, in their order.
LEMMA PublishAppends ==
  ASSUME Inv, CopiedInv, NEW w \in Writers, Publish(w), got[w] > 0
  PROVE  /\ got[w] \in 1 .. (Slots - 1) - Len(Buffered)
         /\ Buffered' = Buffered \o
              [k \in 1 .. got[w] |-> Chunk(w, call[w], (pos[w] - got[w]) + k)]
<1> TypeOK /\ WindowWritten
  BY DEF Inv
<1>1. /\ pc[w] = "copy" /\ Ahead(widx[w]) = Used + got[w]
      /\ Used + got[w] + room[w] <= Slots - 1
  BY DEF Publish, Inv, PassInv
<1>2. /\ got[w] \in Nat /\ room[w] \in Nat /\ Used \in Nat /\ Slots \in Nat
      /\ call[w] \in 1 .. MaxCalls /\ pos[w] \in Nat
      /\ Len(Buffered) = Used
  <2>1. call[w] \in 1 .. MaxCalls
    BY <1>1, SizesAssumption DEF Inv, PassInv, TypeOK, InCall, Locked
  <2>2. QED
    BY <2>1, BufferedIsQueue, SlotsAssumption DEF QueueOK, TypeOK, Index
<1>3. /\ rd' = rd /\ slot' = slot /\ wr' = widx[w] /\ TypeOK'
      /\ \A i : Ahead(i)' = Ahead(i)
  <2>1. TypeOK'
    <3>1. Inv => CallInv
      BY DEF Inv, PassInv, CallInv
    <3>2. [Next]_vars
      BY DEF Next, WriterStep
    <3>3. QED
      BY <3>1, <3>2, TypeStep
  <2>2. QED
    BY <2>1 DEF Publish, Ahead
<1>4. Used' = Used + got[w]
  BY <1>1, <1>3 DEF Used
<1>5. /\ Buffered' \in Seq(Chunks \cup {Torn})
      /\ Len(Buffered') = Used + got[w]
      /\ \A k \in 1 .. Used + got[w] : Buffered'[k] = slot[At(k)]
  <2>1. TypeOK' => QueueOK'
    BY BufferedIsQueue, PTL
  <2>2. \A k : At(k)' = At(k)
    BY <1>3 DEF At
  <2>3. QED
    BY <1>3, <1>4, <2>1, <2>2 DEF QueueOK
<1> DEFINE more == [k \in 1 .. got[w] |-> Chunk(w, call[w], (pos[w] - got[w]) + k)]
<1>6. ASSUME NEW k \in (Used + 1) .. (Used + got[w])
      PROVE  slot[At(k)] = Chunk(w, call[w], (pos[w] - got[w]) + (k - Used))
  <2>1. k \in 1 .. Slots - 1 /\ Used + 1 <= k /\ k <= Used + got[w]
    BY <1>1, <1>2
  <2>2. At(k) \in Index /\ Ahead(At(k)) = k - 1
    BY <2>1, AtLinear DEF TypeOK
  <2>3. slot[At(k)] = Chunk(w, call[w], (pos[w] - got[w]) + ((k - 1 - Used) + 1))
    <3>1. Used <= Ahead(At(k)) /\ Ahead(At(k)) < Used + got[w]
      BY <1>2, <2>1, <2>2
    <3>2. QED
      BY <1>1, <2>2, <3>1 DEF CopiedInv
  <2>4. (k - 1 - Used) + 1 = k - Used
    BY <1>2, <2>1
  <2>5. QED
    BY <2>3, <2>4
<1>7. ASSUME NEW k \in 1 .. got[w]
      PROVE  /\ k + Used \in (Used + 1) .. (Used + got[w])
             /\ slot[At(k + Used)] = more[k]
             /\ more[k] \in Chunks \cup {Torn}
  <2>1. /\ k + Used \in (Used + 1) .. (Used + got[w])
        /\ k + Used \in 1 .. Slots - 1
        /\ (k + Used) - Used = k
    BY <1>1, <1>2
  <2>2. At(k + Used) \in Index
    BY <2>1, AtLinear DEF TypeOK
  <2>3. slot[At(k + Used)] = Chunk(w, call[w], (pos[w] - got[w]) + k)
    BY <1>6, <2>1
  <2>4. QED
    BY <2>1, <2>2, <2>3 DEF TypeOK
<1>8. more \in Seq(Chunks \cup {Torn}) /\ Len(more) = got[w]
  <2>1. \A k \in 1 .. got[w] :
          Chunk(w, call[w], (pos[w] - got[w]) + k) \in Chunks \cup {Torn}
    BY <1>7
  <2>2. more \in Seq(Chunks \cup {Torn})
    <3> DEFINE S == Chunks \cup {Torn}
    <3>1. \A k \in 1 .. got[w] :
            Chunk(w, call[w], (pos[w] - got[w]) + k) \in S
      BY <2>1
    <3> HIDE DEF S
    <3>2. more \in [1 .. got[w] -> S]
      BY ONLY <3>1
    <3>3. \A n \in Nat : \A f \in [1 .. n -> S] : f \in Seq(S)
      BY ONLY SeqDef
    <3>4. QED
      BY <1>2, <3>2, <3>3 DEF S
  <2>3. DOMAIN more = 1 .. got[w] /\ Len(more) \in Nat
        /\ DOMAIN more = 1 .. Len(more)
    BY <2>2, LenProperties
  <2>4. QED
    BY <1>2, <2>2, <2>3
<1>9. /\ Buffered \in Seq(Chunks \cup {Torn})
      /\ \A k \in 1 .. Used : Buffered[k] = slot[At(k)]
  BY BufferedIsQueue DEF QueueOK
<1> HIDE DEF more
<1>10. /\ Buffered \o more \in Seq(Chunks \cup {Torn})
       /\ Len(Buffered \o more) = Used + got[w]
       /\ \A k \in 1 .. Used + got[w] :
            (Buffered \o more)[k] = IF k <= Used THEN Buffered[k] ELSE more[k - Used]
  <2> DEFINE S == Chunks \cup {Torn}
             b == Buffered
  <2>1. b \in Seq(S) /\ more \in Seq(S) /\ Len(b) = Used /\ Len(more) = got[w]
    BY <1>2, <1>8, <1>9
  <2> HIDE DEF S, b
  <2>2. /\ b \o more \in Seq(S)
        /\ Len(b \o more) = Len(b) + Len(more)
        /\ \A k \in 1 .. Len(b) + Len(more) :
             (b \o more)[k] = IF k <= Len(b) THEN b[k] ELSE more[k - Len(b)]
    BY ONLY <2>1, ConcatProperties
  <2>3. QED
    BY <2>1, <2>2 DEF S, b
<1>11. ASSUME NEW k \in 1 .. Used + got[w]
       PROVE  Buffered'[k] = (Buffered \o more)[k]
  <2>1. CASE k <= Used
    <3>1. k \in 1 .. Used
      BY <1>2, <2>1
    <3>2. QED
      BY <1>5, <1>9, <1>10, <2>1, <3>1
  <2>2. CASE ~(k <= Used)
    <3>1. k - Used \in 1 .. got[w] /\ (k - Used) + Used = k
      BY <1>2, <2>2
    <3>2. slot[At(k)] = more[k - Used]
      BY <1>7, <3>1
    <3>3. QED
      BY <1>5, <1>10, <2>2, <3>2
  <2>3. QED
    BY <2>1, <2>2
<1>12. Buffered' = Buffered \o more
  BY <1>5, <1>10, <1>11, SeqEqual
<1>13. QED
  BY <1>1, <1>2, <1>12 DEF more

\* The card takes the oldest chunk.
LEMMA FetchTakes ==
  ASSUME Inv, Fetch
  PROVE  Buffered # << >> /\ Buffered' = Tail(Buffered)
<1> TypeOK
  BY DEF Inv
<1>1. Used \in Nat /\ Used > 0 /\ Used' = Used - 1
  BY Nearer DEF Fetch, IsEmpty
<1>2. /\ Buffered \in Seq(Chunks \cup {Torn})
      /\ Len(Buffered) = Used
      /\ \A k \in 1 .. Used : Buffered[k] = slot[At(k)]
  BY BufferedIsQueue DEF QueueOK
<1>3. TypeOK' /\ slot' = slot /\ rd' = NextSlot(rd)
  <2>1. TypeOK'
    <3>1. Inv => CallInv
      BY DEF Inv, PassInv, CallInv
    <3>2. [Next]_vars
      BY DEF Next
    <3>3. QED
      BY <3>1, <3>2, TypeStep
  <2>2. QED
    BY <2>1 DEF Fetch
<1>4. /\ Buffered' \in Seq(Chunks \cup {Torn})
      /\ Len(Buffered') = Used - 1
      /\ \A k \in 1 .. Used - 1 : Buffered'[k] = slot[At(k)']
  <2>1. TypeOK' => QueueOK'
    BY BufferedIsQueue, PTL
  <2>2. QED
    BY <1>1, <1>3, <2>1 DEF QueueOK
<1>5. Buffered # << >>
  BY <1>1, <1>2
<1>6. /\ Tail(Buffered) \in Seq(Chunks \cup {Torn})
      /\ Len(Tail(Buffered)) = Used - 1
      /\ \A k \in 1 .. Used - 1 : Tail(Buffered)[k] = Buffered[k + 1]
  <2> DEFINE S == Chunks \cup {Torn}
             b == Buffered
  <2>1. b \in Seq(S) /\ b # << >> /\ Len(b) = Used
    BY <1>2, <1>5
  <2> HIDE DEF S, b
  <2>2. /\ Tail(b) \in Seq(S) /\ Len(Tail(b)) = Len(b) - 1
        /\ \A k \in 1 .. Len(Tail(b)) : Tail(b)[k] = b[k + 1]
    BY ONLY <2>1, HeadTailProperties
  <2>3. QED
    BY <2>1, <2>2 DEF S, b
<1>7. ASSUME NEW k \in 1 .. Used - 1
      PROVE  Buffered'[k] = Tail(Buffered)[k]
  <2>1. /\ k \in 1 .. Slots - 1 /\ k + 1 \in 1 .. Slots - 1
        /\ k + 1 \in 1 .. Used /\ (k + 1) - 1 = k
        /\ rd \in Index /\ rd' \in Index
    BY <1>1, <1>3, UsedLinear, SlotsAssumption DEF TypeOK, Index
  <2>2. At(k)' = At(k + 1)
    <3>1. rd' = IF rd = Slots - 1 THEN 0 ELSE rd + 1
      BY <1>3, <2>1, NextLinear
    <3>2. At(k + 1) = IF rd + k >= Slots THEN rd + k - Slots ELSE rd + k
      <4>1. At(k + 1) = IF rd + (k + 1) - 1 >= Slots THEN rd + (k + 1) - 1 - Slots
                        ELSE rd + (k + 1) - 1
        BY <2>1, AtLinear
      <4>2. rd + (k + 1) - 1 = rd + k
        BY <2>1, SlotsAssumption DEF Index
      <4>3. QED
        BY <4>1, <4>2
    <3>3. (rd' + k - 1) % Slots =
            IF rd' + k - 1 >= Slots THEN rd' + k - 1 - Slots ELSE rd' + k - 1
      BY <2>1, WrapLinear
    <3>4. QED
      BY <2>1, <3>1, <3>2, <3>3, SlotsAssumption DEF At, Index
  <2>3. QED
    BY <1>2, <1>4, <1>6, <2>1, <2>2
<1>8. Buffered' = Tail(Buffered)
  BY <1>4, <1>6, <1>7, SeqEqual
<1>9. QED
  BY <1>5, <1>8

\* A step that changes nothing the queue shows.
LEMMA StreamStutters ==
  ASSUME Buffered' = Buffered, lock' = lock, call' = call, result' = result,
         \A w \in Writers : pos'[w] - got'[w] = pos[w] - got[w]
  PROVE  UNCHANGED Stream!vars
BY DEF Stream!vars

\* At first there is nothing in the queue and no call has been made.
LEMMA StreamInit == Init => Stream!Init
<1> SUFFICES ASSUME Init PROVE Stream!Init
  OBVIOUS
<1>1. Used = 0
  BY TypeInit, UsedLinear, SlotsAssumption DEF Init, Index
<1>2. Buffered = << >>
  <2>1. Buffered \in Seq(Chunks \cup {Torn}) /\ Len(Buffered) = 0
    BY <1>1, TypeInit, BufferedIsQueue DEF QueueOK
  <2>2. QED
    BY <2>1, EmptySeq
<1>3. [w \in Writers |-> pos[w] - got[w]] = [w \in Writers |-> 0]
  BY DEF Init
<1>4. QED
  BY <1>2, <1>3 DEF Init, Stream!Init

\* The inductive invariant of the refinement.
StreamInv == Inv /\ GotInv /\ CopiedInv

\* One pass appends at most as much as the queue holds.
LEMMA AppendIsNext ==
  ASSUME NEW w \in Writers, NEW n \in 1 .. Slots - 1, Stream!AppendNext(w, n)
  PROVE  Stream!Next
BY DEF Stream!Next

\* Every step of the FIFO is a step of the queue or leaves it alone.
LEMMA StreamStep == StreamInv /\ [Next]_vars => [Stream!Next]_(Stream!vars)
<1> SUFFICES ASSUME Inv, GotInv, CopiedInv, [Next]_vars
             PROVE  Stream!Next \/ UNCHANGED Stream!vars
  BY DEF StreamInv
<1> USE DEF Goto, ring, env, local
<1> TypeOK /\ Exclusive
  BY DEF Inv
<1>1. ASSUME rd' = rd, wr' = wr, slot' = slot PROVE Buffered' = Buffered
  BY <1>1, QueueKept
<1>2. ASSUME NEW w \in Writers, NEW n \in Sizes, NEW nb \in BOOLEAN,
             Write(w, n, nb)
      PROVE  Stream!Enter(w)
  <2>1. lock # w
    BY <1>2 DEF Write, Exclusive, Locked
  <2>2. /\ pos'[w] - got'[w] = 0
        /\ \A v \in Writers \ {w} : pos'[v] - got'[v] = pos[v] - got[v]
    BY <1>2 DEF Write, TypeOK
  <2>3. [v \in Writers |-> pos'[v] - got'[v]]
          = [[v \in Writers |-> pos[v] - got[v]] EXCEPT ![w] = 0]
    BY <2>2
  <2>4. QED
    BY <1>1, <1>2, <2>1, <2>3 DEF Write, Stream!Enter
<1>3. ASSUME NEW w \in Writers, Down(w) PROVE Stream!Own(w)
  BY <1>1, <1>3 DEF Down, Stream!Own
<1>4. ASSUME NEW w \in Writers, ReadIndex(w) PROVE UNCHANGED Stream!vars
  BY <1>1, <1>4, StreamStutters DEF ReadIndex
<1>5. ASSUME NEW w \in Writers, ReadRoom(w) PROVE UNCHANGED Stream!vars
  <2>1. \A v \in Writers : got'[v] = got[v]
    BY <1>5 DEF ReadRoom, GotInv, TypeOK
  <2>2. QED
    BY <1>1, <1>5, <2>1, StreamStutters DEF ReadRoom
<1>6. ASSUME NEW w \in Writers, CopySlot(w) \/ CopyFault(w)
      PROVE  UNCHANGED Stream!vars
  <2>1. /\ \A i \in Index : i # widx[w] => slot'[i] = slot[i]
        /\ pc[w] = "copy"
    BY <1>6 DEF CopySlot, CopyFault, TypeOK
  <2>2. ~Published(widx[w])
    <3>1. Ahead(widx[w]) = Used + got[w] /\ got[w] \in Nat
      BY <2>1 DEF Inv, PassInv, TypeOK
    <3>2. QED
      BY <3>1, BufferedIsQueue DEF Published, QueueOK
  <2>3. Buffered' = Buffered
    <3>1. rd' = rd /\ wr' = wr
      BY <1>6 DEF CopySlot, CopyFault
    <3>2. QED
      BY <2>1, <2>2, <3>1, QueueKept
  <2>4. \A v \in Writers : pos'[v] - got'[v] = pos[v] - got[v]
    BY <1>6 DEF CopySlot, CopyFault, TypeOK
  <2>5. QED
    BY <1>6, <2>3, <2>4, StreamStutters DEF CopySlot, CopyFault
<1>7. ASSUME NEW w \in Writers, Publish(w)
      PROVE  Stream!Next \/ UNCHANGED Stream!vars
  <2>1. /\ got[w] \in Nat /\ pos[w] \in Nat /\ lock = w
        /\ pos' = pos /\ \A v \in Writers : got'[v] = IF v = w THEN 0 ELSE got[v]
    BY <1>7 DEF Publish, TypeOK, Exclusive, Locked
  <2>2. CASE got[w] = 0
    <3>1. wr' = wr
      <4>1. Ahead(widx[w]) = Used
        BY <1>7, <2>1, <2>2, BufferedIsQueue DEF Publish, Inv, PassInv, QueueOK
      <4>2. widx[w] = wr
        BY <4>1, AheadInjective DEF TypeOK, Used
      <4>3. QED
        BY <1>7, <4>2 DEF Publish
    <3>2. QED
      BY <1>1, <1>7, <2>1, <2>2, <3>1, StreamStutters DEF Publish
  <2>3. CASE got[w] > 0
    <3>1. /\ got[w] \in 1 .. (Slots - 1) - Len(Buffered)
          /\ Buffered' = Buffered \o
               [k \in 1 .. got[w] |-> Chunk(w, call[w], (pos[w] - got[w]) + k)]
      BY <1>7, <2>3, PublishAppends
    <3>2. got[w] \in 1 .. Slots - 1
      <4>1. Len(Buffered) \in Nat
        BY BufferedIsQueue DEF QueueOK
      <4>2. QED
        BY ONLY <2>1, <3>1, <4>1, SlotsAssumption
    <3>3. PICK n \in 1 .. Slots - 1 : n = got[w]
      BY <3>2
    <3>4. [v \in Writers |-> pos'[v] - got'[v]]
            = [[v \in Writers |-> pos[v] - got[v]] EXCEPT ![w] = @ + n]
      <4>1. pos'[w] - got'[w] = (pos[w] - got[w]) + n
        BY <2>1, <3>3
      <4>2. \A v \in Writers \ {w} : pos'[v] - got'[v] = pos[v] - got[v]
        BY <2>1
      <4>3. QED
        BY <4>1, <4>2
    <3>5. Stream!AppendNext(w, n)
      <4> DEFINE appended == [v \in Writers |-> pos[v] - got[v]]
      <4>1. appended[w] = pos[w] - got[w]
        OBVIOUS
      <4> HIDE DEF appended
      <4>2. Buffered' = Buffered \o
              [k \in 1 .. n |-> Stream!Chunk(w, call[w], appended[w] + k)]
        BY <3>1, <3>3, <4>1 DEF Stream!Chunk, Chunk
      <4>3. lock' = lock /\ call' = call /\ result' = result
        BY <1>7 DEF Publish
      <4>4. n \in 1 .. (Slots - 1) - Len(Buffered)
        BY <3>1, <3>3
      <4>5. QED
        BY <2>1, <3>4, <4>2, <4>3, <4>4 DEF Stream!AppendNext, appended
    <3>6. QED
      BY <3>5, AppendIsNext
  <2>4. QED
    BY <2>1, <2>2, <2>3
<1>8. ASSUME NEW w \in Writers,
             Decide(w) \/ WaitForRoom(w) \/ TimeLimit(w) \/ Signal(w)
      PROVE  UNCHANGED Stream!vars
  BY <1>1, <1>8, StreamStutters DEF Decide, WaitForRoom, TimeLimit, Signal
<1>9. ASSUME NEW w \in Writers, Up(w) PROVE Stream!Leave(w)
  <2>1. lock = w /\ Returned(w) \in Stream!MayReturn(pos[w] - got[w])
    BY <1>9, ReturnedIsAppended DEF Up, Exclusive, Locked
  <2>2. QED
    BY <1>1, <1>9, <2>1 DEF Up, Stream!Leave
<1>10. ASSUME NEW s \in Syncers,
              Sync(s) \/ WaitForEmpty(s) \/ SyncGivesUp(s) \/ SyncReturns(s)
       PROVE  UNCHANGED Stream!vars
  BY <1>1, <1>10, StreamStutters
     DEF Sync, WaitForEmpty, SyncGivesUp, SyncReturns
<1>11. ASSUME Fetch PROVE Stream!Take
  BY <1>11, FetchTakes DEF Fetch, Stream!Take
<1>12. ASSUME \/ Interrupt
              \/ \E m \in PlayModes : SetPlaymode(m)
              \/ \E on \in BOOLEAN : SetClock(on)
              \/ UNCHANGED vars
       PROVE  UNCHANGED Stream!vars
  BY <1>1, <1>12, StreamStutters DEF Interrupt, SetPlaymode, SetClock, vars
<1>13. QED
  BY <1>2, <1>3, <1>4, <1>5, <1>6, <1>7, <1>8, <1>9, <1>10, <1>11, <1>12
     DEF Next, Application, Player, WriterStep, SyncStep, Stream!Next

\* The ring, its lock and its waits implement the bounded queue of Em8300Stream.
THEOREM FifoImplementsStream == Spec => ImplementsStream
<1>1. Init => StreamInv
  <2>1. Init => GotInv /\ CopiedInv
    BY DEF Init, GotInv, CopiedInv, Procs
  <2>2. QED
    BY <2>1, InitInv DEF StreamInv
<1>2. StreamInv /\ [Next]_vars => StreamInv'
  <2>1. Inv => TypeOK /\ CallInv
    BY DEF Inv, PassInv, CallInv
  <2>2. Inv /\ [Next]_vars => Inv'
    BY <2>1, TypeStep, RestStep DEF Inv, Rest
  <2>3. QED
    BY <2>1, <2>2, GotStep, CopiedStep DEF StreamInv
<1>3. QED
  BY <1>1, <1>2, StreamInit, StreamStep, PTL DEF Spec, ImplementsStream, Stream!Spec

-------------------------------------------------------------------------------
(* A flush under a write in progress (Em8300Flush). *)

\* The slots from the card to where a pass has come have all been through a copy
\* round, so that it may publish them, even those that a flush has dropped in between; and as long
\* as the ring is not empty the pass is where Em8300Fifo has it.
FlushedPass ==
  \A w \in Writers :
    pc[w] \in {"room", "copy"} =>
      /\ \A i \in Index : Ahead(i) < Ahead(widx[w]) => slot[i] # Torn
      /\ wr # rd =>
           IF pc[w] = "room" THEN widx[w] = wr
           ELSE /\ Ahead(widx[w]) = Used + got[w]
                /\ Used + got[w] + room[w] <= Slots - 1

\* The pointer that a flush is about to store is still that of the card.
FlushLoaded == fpc \in Nat /\ (loaded => fpc > 0 /\ frd = rd)

FlushInv ==
  TypeOK /\ CallInv /\ Exclusive /\ WindowWritten /\ FlushedPass /\ FlushLoaded

-------------------------------------------------------------------------------
(* Steps of the FIFO. *)

\* Call numbers only grow, and a wait begins with no time limit passed.
LEMMA CallStep == TypeOK /\ CallInv /\ [Next]_vars => CallInv'
<1> SUFFICES ASSUME TypeOK, CallInv, [Next]_vars PROVE CallInv'
  OBVIOUS
<1> USE DEF Goto, ring, env, local, CallInv, TypeOK, Procs, InCall, Locked
<1>1. ASSUME NEW w \in Writers, NEW n \in Sizes, NEW nb \in BOOLEAN,
             Write(w, n, nb)
      PROVE  CallInv'
  BY <1>1 DEF Write
<1>2. ASSUME NEW w \in Writers,
             \/ Down(w) \/ ReadIndex(w) \/ ReadRoom(w) \/ CopySlot(w)
             \/ CopyFault(w) \/ Publish(w)
      PROVE  CallInv'
  BY <1>2 DEF Down, ReadIndex, ReadRoom, CopySlot, CopyFault, Publish
<1>3. ASSUME NEW w \in Writers,
             \/ Decide(w) \/ WaitForRoom(w) \/ TimeLimit(w) \/ Signal(w) \/ Up(w)
      PROVE  CallInv'
  BY <1>3 DEF Decide, WaitForRoom, TimeLimit, Signal, Up
<1>4. ASSUME NEW s \in Syncers,
             Sync(s) \/ WaitForEmpty(s) \/ SyncGivesUp(s) \/ SyncReturns(s)
      PROVE  CallInv'
  BY <1>4, ProcessAssumption DEF Sync, WaitForEmpty, SyncGivesUp, SyncReturns
<1>5. ASSUME Interrupt PROVE CallInv'
  BY <1>5 DEF Interrupt, FifoCheck
<1>6. ASSUME \/ Fetch
             \/ \E m \in PlayModes : SetPlaymode(m)
             \/ \E on \in BOOLEAN : SetClock(on)
             \/ UNCHANGED vars
      PROVE  CallInv'
  BY <1>6 DEF Fetch, SetPlaymode, SetClock, vars
<1>7. QED
  BY <1>1, <1>2, <1>3, <1>4, <1>5, <1>6
     DEF Next, Application, Player, WriterStep, SyncStep

\* The semaphore is taken and given back by the same call.
LEMMA LockStep == TypeOK /\ Exclusive /\ [Next]_vars => Exclusive'
<1> SUFFICES ASSUME TypeOK, Exclusive, [Next]_vars PROVE Exclusive'
  OBVIOUS
<1> USE ProcessAssumption
    DEF Goto, ring, env, local, Exclusive, TypeOK, Procs, Locked
<1>1. ASSUME NEW w \in Writers, NEW n \in Sizes, NEW nb \in BOOLEAN,
             Write(w, n, nb)
      PROVE  Exclusive'
  BY <1>1 DEF Write
<1>2. ASSUME NEW w \in Writers, Down(w) \/ ReadIndex(w) \/ ReadRoom(w)
      PROVE  Exclusive'
  BY <1>2 DEF Down, ReadIndex, ReadRoom
<1>3. ASSUME NEW w \in Writers, CopySlot(w) \/ CopyFault(w) \/ Publish(w)
      PROVE  Exclusive'
  BY <1>3 DEF CopySlot, CopyFault, Publish
<1>4. ASSUME NEW w \in Writers,
             \/ Decide(w) \/ WaitForRoom(w) \/ TimeLimit(w) \/ Signal(w) \/ Up(w)
      PROVE  Exclusive'
  BY <1>4 DEF Decide, WaitForRoom, TimeLimit, Signal, Up
<1>5. ASSUME NEW s \in Syncers,
             Sync(s) \/ WaitForEmpty(s) \/ SyncGivesUp(s) \/ SyncReturns(s)
      PROVE  Exclusive'
  BY <1>5 DEF Sync, WaitForEmpty, SyncGivesUp, SyncReturns
<1>6. ASSUME Interrupt PROVE Exclusive'
  BY <1>6 DEF Interrupt, FifoCheck
<1>7. ASSUME \/ Fetch
             \/ \E m \in PlayModes : SetPlaymode(m)
             \/ \E on \in BOOLEAN : SetClock(on)
             \/ UNCHANGED vars
      PROVE  Exclusive'
  BY <1>7 DEF Fetch, SetPlaymode, SetClock, vars
<1>8. QED
  BY <1>1, <1>2, <1>3, <1>4, <1>5, <1>6, <1>7
     DEF Next, Application, Player, WriterStep, SyncStep

\* A step that leaves the ring alone and starts no pass keeps every pass.
LEMMA PassKept ==
  ASSUME FlushedPass, WindowWritten, rd' = rd, wr' = wr, slot' = slot,
         \A w \in Writers :
           pc'[w] \in {"room", "copy"} =>
             /\ pc'[w] = pc[w] /\ widx'[w] = widx[w]
             /\ got'[w] = got[w] /\ room'[w] = room[w]
  PROVE  FlushedPass' /\ WindowWritten'
<1>1. /\ Used' = Used
      /\ \A i : Ahead(i)' = Ahead(i)
      /\ \A i : Published(i)' = Published(i)
  BY Still
<1>2. WindowWritten'
  BY <1>1 DEF WindowWritten
<1>3. \A w \in Writers : pc'[w] \in {"room", "copy"} => Ahead(widx[w])' = Ahead(widx'[w])
  BY <1>1 DEF Ahead
<1>4. QED
  BY <1>1, <1>2 DEF FlushedPass, Ahead

\* The slot behind one that is not the last before the card is one further away.
LEMMA NextIsFurther ==
  ASSUME NEW i \in Index, rd \in Index
  PROVE  Ahead(NextSlot(i)) = IF Ahead(i) = Slots - 1 THEN 0 ELSE Ahead(i) + 1
<1>1. /\ NextSlot(i) \in Index
      /\ NextSlot(i) = IF i = Slots - 1 THEN 0 ELSE i + 1
  BY NextLinear
<1>2. /\ Ahead(i) = IF i >= rd THEN i - rd ELSE i - rd + Slots
      /\ Ahead(NextSlot(i)) = IF NextSlot(i) >= rd THEN NextSlot(i) - rd
                              ELSE NextSlot(i) - rd + Slots
  BY <1>1, AheadLinear
<1>3. QED
  BY <1>1, <1>2, SlotsAssumption DEF Index

\* The pointers differ exactly if there are used slots.
LEMMA UsedWhenApart ==
  ASSUME rd \in Index, wr \in Index
  PROVE  /\ Used \in Nat /\ Used <= Slots - 1
         /\ wr # rd <=> Used > 0
BY UsedLinear, SlotsAssumption DEF Index

\* The writer that copies is alone, and the others keep what FlushedPass says.
LEMMA CopyKept ==
  ASSUME NEW w \in Writers, TypeOK, Exclusive, WindowWritten, FlushedPass,
         CallInv, CopySlot(w)
  PROVE  FlushedPass' /\ WindowWritten'
<1> DEFINE a == Ahead(widx[w])
<1>1. /\ Used' = Used
      /\ \A i : Ahead(i)' = Ahead(i)
      /\ \A i : Published(i)' = Published(i)
  BY Still DEF CopySlot
<1>2. /\ pc[w] = "copy" /\ lock = w /\ room[w] > 0
      /\ \A v \in Writers \ {w} : pc[v] \notin {"room", "copy"}
  BY DEF CopySlot, Exclusive, Locked
<1>3. /\ widx[w] \in Index /\ rd \in Index /\ wr \in Index
      /\ got[w] \in Nat /\ room[w] \in Nat /\ Slots \in Nat
  BY SlotsAssumption DEF TypeOK, Index
<1>4. /\ widx'[w] = NextSlot(widx[w])
      /\ got'[w] = got[w] + 1 /\ room'[w] = room[w] - 1
      /\ pc' = pc /\ wr' = wr /\ rd' = rd
      /\ \A i \in Index : slot'[i] = slot[i] \/ i = widx[w]
  BY DEF CopySlot, TypeOK
<1>5. slot'[widx[w]] # Torn
  <2>1. call[w] \in 1 .. MaxCalls /\ pos[w] + 1 \in Nat \ {0}
    BY <1>2, SizesAssumption DEF CallInv, TypeOK, InCall, Locked
  <2>2. QED
    BY <1>3, <2>1, TornAssumption, ChunkIsAChunk DEF CopySlot, TypeOK
<1>6. /\ \A i \in Index : Ahead(i) < a => slot[i] # Torn
      /\ wr # rd => a = Used + got[w] /\ Used + got[w] + room[w] <= Slots - 1
  BY <1>2 DEF FlushedPass
<1>7. Ahead(NextSlot(widx[w])) = IF a = Slots - 1 THEN 0 ELSE a + 1
  BY <1>3, NextIsFurther
<1>8. a \in Nat /\ Used \in Nat /\ \A i \in Index : Ahead(i) \in Nat
  <2>1. \A i \in Index : Ahead(i) \in Index
    BY <1>3, AheadLinear
  <2>2. QED
    BY <1>3, <2>1, UsedWhenApart DEF Index
<1>9. ASSUME NEW i \in Index, Ahead(i) < Ahead(NextSlot(widx[w]))
      PROVE  slot'[i] # Torn
  <2>1. Ahead(i) < a + 1
    BY <1>3, <1>7, <1>8, <1>9
  <2>2. CASE Ahead(i) = a
    BY <1>3, <1>5, <2>2, AheadInjective
  <2>3. CASE Ahead(i) < a
    BY <1>4, <1>5, <1>6, <2>3
  <2>4. QED
    BY <1>8, <2>1, <2>2, <2>3
<1>10. wr # rd => /\ Ahead(NextSlot(widx[w])) = Used + got'[w]
                  /\ Used + got'[w] + room'[w] <= Slots - 1
  <2> HIDE DEF a
  <2> SUFFICES ASSUME wr # rd
               PROVE  /\ Ahead(NextSlot(widx[w])) = Used + got'[w]
                      /\ Used + got'[w] + room'[w] <= Slots - 1
    OBVIOUS
  <2>1. a = Used + got[w] /\ Used + got[w] + room[w] <= Slots - 1
    BY <1>6
  <2>2. a # Slots - 1
    BY <1>2, <1>3, <1>8, <2>1
  <2>3. QED
    BY <1>2, <1>3, <1>4, <1>7, <1>8, <2>1, <2>2
<1>11. Ahead(widx[w])' = Ahead(NextSlot(widx[w]))
  BY <1>4 DEF Ahead
<1>12. FlushedPass'
  BY <1>1, <1>2, <1>4, <1>9, <1>10, <1>11 DEF FlushedPass
<1>13. WindowWritten'
  BY <1>1, <1>4, <1>5 DEF WindowWritten
<1>14. QED
  BY <1>12, <1>13

\* A pass publishes slots that were all written, whether the ring is the one it
\* began with or was emptied meanwhile.
LEMMA PublishKept ==
  ASSUME NEW w \in Writers, TypeOK, Exclusive, FlushedPass, Publish(w)
  PROVE  FlushedPass' /\ WindowWritten'
<1>1. /\ pc[w] = "copy" /\ lock = w
      /\ \A v \in Writers \ {w} : pc[v] \notin {"room", "copy"}
  BY DEF Publish, Exclusive, Locked
<1>2. /\ pc'[w] \notin {"room", "copy"}
      /\ \A v \in Writers \ {w} : pc'[v] = pc[v]
      /\ wr' = widx[w] /\ rd' = rd /\ slot' = slot
  BY DEF Publish, Goto, TypeOK, Procs
<1>3. \A i \in Index : Ahead(i) < Ahead(widx[w]) => slot[i] # Torn
  BY <1>1 DEF FlushedPass
<1>4. FlushedPass'
  BY <1>1, <1>2 DEF FlushedPass
<1>5. WindowWritten'
  BY <1>2, <1>3 DEF WindowWritten, Published, Used, Ahead
<1>6. QED
  BY <1>4, <1>5

\* The card takes a slot only if there is one, and then the passes are as in
\* Em8300Fifo: what lies behind the card is one slot nearer.
LEMMA FetchKept ==
  ASSUME TypeOK, WindowWritten, FlushedPass, Fetch
  PROVE  FlushedPass' /\ WindowWritten'
<1>1. /\ Used \in Nat /\ Used > 0 /\ Used' = Used - 1
      /\ \A i \in Index :
           Ahead(i)' = IF i = rd THEN Slots - 1 ELSE Ahead(i) - 1
      /\ wr # rd
  BY Nearer DEF Fetch, IsEmpty
<1>2. rd \in Index /\ Ahead(rd) = 0 /\ Used <= Slots - 1 /\ Slots \in Nat
  BY AheadLinear, UsedLinear, SlotsAssumption DEF TypeOK, Index
<1>3. \A i \in Index : Ahead(i) \in Nat
  <2>1. \A i \in Index : Ahead(i) \in Index
    BY AheadLinear DEF TypeOK
  <2>2. QED
    BY <2>1, SlotsAssumption DEF Index
<1>4. ASSUME NEW w \in Writers, pc[w] \in {"room", "copy"}
      PROVE  /\ \A i \in Index : Ahead(i)' < Ahead(widx[w])' => slot[i] # Torn
             /\ IF pc[w] = "room" THEN widx[w] = wr
                ELSE /\ Ahead(widx[w])' = Used' + got[w]
                     /\ Used' + got[w] + room[w] <= Slots - 1
  <2>1. /\ \A i \in Index : Ahead(i) < Ahead(widx[w]) => slot[i] # Torn
        /\ IF pc[w] = "room" THEN widx[w] = wr
           ELSE /\ Ahead(widx[w]) = Used + got[w]
                /\ Used + got[w] + room[w] <= Slots - 1
    BY <1>1, <1>4 DEF FlushedPass
  <2>2. /\ widx[w] \in Index /\ got[w] \in Nat /\ room[w] \in Nat
        /\ widx'[w] = widx[w]
    BY SlotsAssumption DEF TypeOK, Index, Fetch, local
  <2>3. Ahead(widx[w]) >= Used
    BY <1>1, <2>1, <2>2 DEF Used
  <2>4. widx[w] # rd
    BY <1>1, <1>2, <2>3
  <2>5. Ahead(widx[w])' = Ahead(widx[w]) - 1
    <3>1. \A i \in Index : i # rd =>
            (i - rd' + Slots) % Slots = ((i - rd + Slots) % Slots) - 1
      BY <1>1 DEF Ahead
    <3>2. QED
      BY <2>2, <2>4, <3>1 DEF Ahead
  <2>6. Ahead(widx[w]) \in Nat /\ Ahead(widx[w]) <= Slots - 1
    <3>1. Ahead(widx[w]) \in Index
      BY <1>2, <2>2, AheadLinear
    <3>2. QED
      BY <3>1, SlotsAssumption DEF Index
  <2>7. ASSUME NEW i \in Index, Ahead(i)' < Ahead(widx[w])'
        PROVE  slot[i] # Torn
    <3>1. i # rd
      BY <1>1, <1>2, <2>5, <2>6, <2>7
    <3>2. Ahead(i) < Ahead(widx[w])
      BY <1>1, <1>3, <2>5, <2>6, <2>7, <3>1
    <3>3. QED
      BY <2>1, <3>2
  <2>8. Ahead(widx[w]) = Used + got[w] /\ Used + got[w] + room[w] <= Slots - 1 =>
          /\ Ahead(widx[w])' = Used' + got[w]
          /\ Used' + got[w] + room[w] <= Slots - 1
    BY ONLY <1>1, <1>2, <2>2, <2>5, <2>6
  <2>9. QED
    BY <2>1, <2>7, <2>8
<1>5. pc' = pc /\ wr' = wr /\ slot' = slot /\ got' = got /\ room' = room
      /\ widx' = widx
  BY DEF Fetch, ring, local
<1>6. FlushedPass'
  BY <1>4, <1>5 DEF FlushedPass
<1>7. ASSUME NEW i \in Index, Published(i)' PROVE Published(i)
  BY <1>1, <1>2, <1>3, <1>7, SlotsAssumption DEF Published
<1>8. WindowWritten'
  BY <1>5, <1>7 DEF WindowWritten
<1>9. QED
  BY <1>6, <1>8

\* Every step of the FIFO keeps what a flush has left.
LEMMA PassStep ==
  ASSUME TypeOK, TypeOK', CallInv, Exclusive, WindowWritten, FlushedPass,
         [Next]_vars
  PROVE  FlushedPass' /\ WindowWritten'
<1> USE DEF Goto, ring, env, local
<1>1. ASSUME NEW w \in Writers, NEW n \in Sizes, NEW nb \in BOOLEAN,
             Write(w, n, nb)
      PROVE  FlushedPass' /\ WindowWritten'
  BY <1>1, PassKept DEF Write, TypeOK, Procs
<1>2. ASSUME NEW w \in Writers, Down(w) \/ ReadIndex(w)
      PROVE  FlushedPass' /\ WindowWritten'
  <2>1. CASE Down(w)
    <3>1. pc'[w] \in {"up", "index"} /\ \A v \in Writers \ {w} : pc'[v] = pc[v]
      BY <2>1 DEF Down, TypeOK, Procs
    <3>2. QED
      BY <2>1, <3>1, PassKept DEF Down
  <2>2. CASE ReadIndex(w)
    <3>1. /\ Used' = Used
          /\ \A i : Ahead(i)' = Ahead(i)
          /\ \A i : Published(i)' = Published(i)
      BY <2>2, Still DEF ReadIndex
    <3>2. /\ pc'[w] = "room" /\ widx'[w] = wr
          /\ \A v \in Writers \ {w} : pc'[v] = pc[v] /\ widx'[v] = widx[v]
          /\ wr' = wr /\ rd' = rd /\ slot' = slot /\ got' = got /\ room' = room
      BY <2>2 DEF ReadIndex, TypeOK, Procs
    <3>3. \A i \in Index : Ahead(i) < Ahead(wr) => slot[i] # Torn
      BY DEF WindowWritten, Published, Used
    <3>4. \A v \in Writers : Ahead(widx[v])' = Ahead(widx'[v])
      BY <3>2 DEF Ahead
    <3>5. FlushedPass'
      BY <3>1, <3>2, <3>3, <3>4 DEF FlushedPass
    <3>6. WindowWritten'
      BY <3>1, <3>2 DEF WindowWritten
    <3>7. QED
      BY <3>5, <3>6
  <2>3. QED
    BY <1>2, <2>1, <2>2
<1>3. ASSUME NEW w \in Writers, ReadRoom(w)
      PROVE  FlushedPass' /\ WindowWritten'
  <2>1. /\ Used' = Used
        /\ \A i : Ahead(i)' = Ahead(i)
        /\ \A i : Published(i)' = Published(i)
    BY <1>3, Still DEF ReadRoom
  <2>2. /\ pc[w] = "room" /\ pc'[w] = "copy" /\ got'[w] = 0
        /\ room'[w] = Slots - 1 - Used
    BY <1>3, FreeLinear DEF ReadRoom, TypeOK, Procs
  <2>3. /\ \A v \in Writers \ {w} :
             pc'[v] = pc[v] /\ got'[v] = got[v] /\ room'[v] = room[v]
        /\ wr' = wr /\ rd' = rd /\ slot' = slot /\ widx' = widx
    BY <1>3 DEF ReadRoom, TypeOK, Procs
  <2>4. \A v \in Writers : Ahead(widx[v])' = Ahead(widx[v])
    BY <2>3 DEF Ahead
  <2>5. Used \in Nat /\ Slots \in Nat
    BY UsedWhenApart, SlotsAssumption DEF TypeOK
  <2>6. wr # rd => /\ Ahead(widx[w]) = Used + got'[w]
                   /\ Used + got'[w] + room'[w] <= Slots - 1
    BY <2>2, <2>5 DEF FlushedPass, Used
  <2>7. FlushedPass'
    BY <2>1, <2>2, <2>3, <2>4, <2>6 DEF FlushedPass
  <2>8. WindowWritten'
    BY <2>1, <2>3 DEF WindowWritten
  <2>9. QED
    BY <2>7, <2>8
<1>4. ASSUME NEW w \in Writers, CopySlot(w) PROVE FlushedPass' /\ WindowWritten'
  BY <1>4, CopyKept
<1>5. ASSUME NEW w \in Writers, CopyFault(w) PROVE FlushedPass' /\ WindowWritten'
  <2>1. /\ Used' = Used
        /\ \A i : Ahead(i)' = Ahead(i)
        /\ \A i : Published(i)' = Published(i)
    BY <1>5, Still DEF CopyFault
  <2>2. /\ pc[w] = "copy" /\ lock = w
        /\ \A v \in Writers \ {w} : pc[v] \notin {"room", "copy"}
    BY <1>5 DEF CopyFault, Exclusive, Locked
  <2>3. /\ pc'[w] = "up" /\ \A v \in Writers \ {w} : pc'[v] = pc[v]
        /\ \A i \in Index : slot'[i] = slot[i] \/ i = widx[w]
    BY <1>5 DEF CopyFault, TypeOK, Procs
  <2>4. ~Published(widx[w])
    <3>1. Used \in Nat /\ (wr # rd <=> Used > 0)
      BY UsedWhenApart DEF TypeOK
    <3>2. Ahead(widx[w]) \in Nat /\ got[w] \in Nat
      <4>1. Ahead(widx[w]) \in Index
        BY AheadLinear DEF TypeOK
      <4>2. QED
        BY <4>1, SlotsAssumption DEF TypeOK, Index
    <3>3. wr # rd => Ahead(widx[w]) = Used + got[w]
      BY <2>2 DEF FlushedPass
    <3>4. QED
      BY <3>1, <3>2, <3>3 DEF Published
  <2>5. FlushedPass'
    BY <2>2, <2>3 DEF FlushedPass
  <2>6. WindowWritten'
    BY <2>1, <2>3, <2>4 DEF WindowWritten
  <2>7. QED
    BY <2>5, <2>6
<1>6. ASSUME NEW w \in Writers, Publish(w) PROVE FlushedPass' /\ WindowWritten'
  BY <1>6, PublishKept
<1>7. ASSUME NEW w \in Writers,
             \/ Decide(w) \/ WaitForRoom(w) \/ TimeLimit(w) \/ Signal(w) \/ Up(w)
      PROVE  FlushedPass' /\ WindowWritten'
  BY <1>7, PassKept
     DEF Decide, WaitForRoom, TimeLimit, Signal, Up, TypeOK, Procs
<1>8. ASSUME NEW s \in Syncers,
             Sync(s) \/ WaitForEmpty(s) \/ SyncGivesUp(s) \/ SyncReturns(s)
      PROVE  FlushedPass' /\ WindowWritten'
  BY <1>8, PassKept, ProcessAssumption
     DEF Sync, WaitForEmpty, SyncGivesUp, SyncReturns, TypeOK, Procs
<1>9. ASSUME Interrupt PROVE FlushedPass' /\ WindowWritten'
  BY <1>9, PassKept DEF Interrupt, FifoCheck, TypeOK, Procs
<1>10. ASSUME Fetch PROVE FlushedPass' /\ WindowWritten'
  BY <1>10, FetchKept
<1>11. ASSUME \/ \E m \in PlayModes : SetPlaymode(m)
              \/ \E on \in BOOLEAN : SetClock(on)
              \/ UNCHANGED vars
       PROVE  FlushedPass' /\ WindowWritten'
  BY <1>11, PassKept DEF SetPlaymode, SetClock, vars
<1>12. QED
  BY <1>1, <1>2, <1>3, <1>4, <1>5, <1>6, <1>7, <1>8, <1>9, <1>10, <1>11
     DEF Next, Application, Player, WriterStep, SyncStep

-------------------------------------------------------------------------------
(* Steps of a flush. *)

\* Storing the card's own pointer empties the ring and leaves the passes what
\* they may publish.
LEMMA StoreKept ==
  ASSUME TypeOK, FlushedPass, FlushLoaded, FlushStore
  PROVE  TypeOK' /\ FlushedPass' /\ WindowWritten' /\ FlushLoaded'
<1>1. /\ wr' = rd /\ rd' = rd /\ slot' = slot /\ rd \in Index
      /\ loaded' = FALSE /\ fpc > 0 /\ fpc' = fpc - 1 /\ fpc \in Nat
  BY DEF FlushStore, FlushLoaded, TypeOK
<1>2. TypeOK'
  BY <1>1 DEF FlushStore, TypeOK, local, env
<1>3. FlushedPass'
  BY <1>1 DEF FlushStore, FlushedPass, Ahead, local
<1>4. Used' = 0
  <2>1. (rd - rd + Slots) % Slots = 0
    BY <1>1, SlotsAssumption DEF Index
  <2>2. QED
    BY <1>1, <2>1 DEF Used, Ahead
<1>5. WindowWritten'
  <2>1. \A i \in Index : Ahead(i) \in Nat
    BY <1>1, AheadLinear, SlotsAssumption DEF Index
  <2>2. \A i \in Index : Ahead(i)' = Ahead(i)
    BY <1>1 DEF Ahead
  <2>3. \A i \in Index : ~Published(i)'
    BY <1>4, <2>1, <2>2 DEF Published
  <2>4. QED
    BY <2>3 DEF WindowWritten
<1>6. FlushLoaded'
  BY <1>1 DEF FlushLoaded
<1>7. QED
  BY <1>2, <1>3, <1>5, <1>6

\* At first no flush is under way.
LEMMA FlushInitInv == FlushInit => FlushInv
<1> SUFFICES ASSUME FlushInit PROVE FlushInv
  OBVIOUS
<1>1. Inv
  BY InitInv DEF FlushInit
<1>2. FlushedPass
  BY DEF FlushInit, Init, FlushedPass, Procs
<1>3. FlushLoaded
  BY DEF FlushInit, FlushLoaded
<1>4. QED
  BY <1>1, <1>2, <1>3 DEF FlushInv, Inv, PassInv, CallInv

\* Every step, of the FIFO or of a flush, keeps the invariant.
LEMMA FlushInvStep ==
  ASSUME CardStopped, FlushInv, [FlushNext]_allvars
  PROVE  FlushInv'
<1> TypeOK /\ CallInv /\ Exclusive /\ WindowWritten /\ FlushedPass /\ FlushLoaded
  BY DEF FlushInv
<1>1. ASSUME [Next]_vars PROVE TypeOK' /\ CallInv' /\ Exclusive'
                               /\ FlushedPass' /\ WindowWritten'
  <2>1. TypeOK' /\ CallInv' /\ Exclusive'
    BY <1>1, TypeStep, CallStep, LockStep
  <2>2. QED
    BY <1>1, <2>1, PassStep
<1>2. CASE FifoStep
  <2>1. FlushLoaded'
    BY <1>2 DEF FifoStep, FlushLoaded, flushvars
  <2>2. QED
    BY <1>1, <1>2, <2>1 DEF FifoStep, FlushInv
<1>3. CASE FlushStart
  <2>1. FlushLoaded'
    BY <1>3, FlushAssumption DEF FlushStart, FlushLoaded, vars, ring
  <2>2. QED
    BY <1>1, <1>3, <2>1 DEF FlushStart, FlushInv
<1>4. CASE FlushLoad
  <2>1. FlushLoaded'
    BY <1>4 DEF FlushLoad, FlushLoaded, vars, ring
  <2>2. QED
    BY <1>1, <1>4, <2>1 DEF FlushLoad, FlushInv
<1>5. CASE FlushStore
  <2>1. TypeOK' /\ FlushedPass' /\ WindowWritten' /\ FlushLoaded'
    BY <1>5, StoreKept
  <2>2. CallInv' /\ Exclusive'
    BY <1>5 DEF FlushStore, CallInv, Exclusive, local
  <2>3. QED
    BY <2>1, <2>2 DEF FlushInv
<1>6. CASE UNCHANGED allvars
  <2>1. FlushLoaded'
    BY <1>6 DEF allvars, FlushLoaded, flushvars, vars, ring
  <2>2. QED
    BY <1>1, <1>6, <2>1 DEF allvars, FlushInv
<1>7. QED
  BY <1>2, <1>3, <1>4, <1>5, <1>6 DEF FlushNext, FlushStep

-------------------------------------------------------------------------------
(* The theorems. *)

\* The invariant of the flushed FIFO, for a card that takes nothing meanwhile.
THEOREM FlushInvHolds == ASSUME CardStopped PROVE FlushSpec => []FlushInv
<1>1. FlushInv /\ [FlushNext]_allvars => FlushInv'
  BY FlushInvStep
<1>2. QED
  BY FlushInitInv, <1>1, PTL DEF FlushSpec

\* A flush in the middle of writes never shows the card a slot in the middle of
\* its rewriting (em8300_video_flush and em8300_audio_flush take no lock), as
\* long as the card takes nothing while it runs.
THEOREM FlushKeepsWindow == ASSUME CardStopped PROVE FlushSpec => []WindowWritten
BY FlushInvHolds, PTL DEF FlushInv

\* Nor does it make a writer fill a slot that the card may be taking.
THEOREM FlushKeepsWriters == ASSUME CardStopped PROVE FlushSpec => []NoOverrun
<1>1. FlushInv => NoOverrun
  <2> SUFFICES ASSUME FlushInv, NEW w \in Writers, pc[w] = "copy"
               PROVE  ~Published(widx[w])
    BY DEF NoOverrun
  <2>1. Used \in Nat /\ (wr # rd <=> Used > 0)
    BY UsedWhenApart DEF FlushInv, TypeOK
  <2>2. Ahead(widx[w]) \in Nat /\ got[w] \in Nat
    BY AheadLinear, SlotsAssumption DEF FlushInv, TypeOK, Index
  <2>3. wr # rd => Ahead(widx[w]) = Used + got[w]
    BY DEF FlushInv, FlushedPass
  <2>4. QED
    BY <2>1, <2>2, <2>3 DEF Published
<1>2. QED
  BY <1>1, FlushInvHolds, PTL
===============================================================================
