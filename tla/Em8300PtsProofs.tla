---------------------------- MODULE Em8300PtsProofs ----------------------------
(***************************************************************************)
(* What is proved of the presentation times (Em8300Pts): for any FIFO of    *)
(* entries, any times and sizes, and any number of writes and resets.       *)
(***************************************************************************)
EXTENDS Em8300Pts, Em8300Lemmas, TLAPS

\* How far an entry is from the one the card takes next.
Distance(i) == (i - crd + Entries) % Entries

\* The entries that wait for the card.
Pending == posted - taken

\* A mask stands for a remainder in the FIFO of subpictures only if its size is
\* a power of two.
Masked == "spu" \in Streams => PowerOfTwo(Entries)

PtsEntry == [valid : BOOLEAN, off : Nat, pts : Nat, want : Nat, exact : BOOLEAN,
             no : Nat]

Flags ==
  /\ ptsvalid \in BOOLEAN /\ playing \in BOOLEAN /\ mode \in BOOLEAN
  /\ undisturbed \in BOOLEAN /\ steady \in BOOLEAN
  /\ open \in BOOLEAN /\ vbl \in BOOLEAN

Values ==
  /\ stream \in Streams
  /\ entry \in [0 .. Entries - 1 -> PtsEntry]
  /\ pts \in Nat /\ lastpts \in Nat /\ offset \in Nat /\ accepted \in Nat
  /\ lost \in Nat
  /\ posted \in Nat /\ taken \in Nat /\ asked \in Times \cup {0}
  /\ ptr \in 0 .. Entries - 1 /\ crd \in 0 .. Entries - 1 /\ slot \in 0 .. Entries - 1
  /\ pc \in {"idle", "wait", "sleep", "post", "commit", "fifo"}
  /\ count \in Nat /\ written \in 0 .. count
  /\ writes \in Nat /\ resets \in Nat

TypeInv == Flags /\ Values

\* The pending time is the one asked for, halved by the ioctl for subpictures
\* and by the write for video.
TimeInv ==
  /\ TimeExact
  /\ undisturbed /\ Posting => pts = Half(asked)
  /\ undisturbed /\ ptsvalid /\ ~Posting =>
       pts = IF stream = "video" THEN asked ELSE Half(asked)

\* The offset lags behind what the FIFO has accepted, by the bytes of the current write,
\* of which there are none before the time is posted, and by those of failed writes.
OffsetInv ==
  /\ pc # "fifo" => written = 0
  /\ stream = "video" /\ steady => offset + lost + written = accepted

\* The occupied entries are those between the card's and the pointer, in the
\* order of their numbers; a write under way waits for the one at the pointer.
OrderInv ==
  Masked /\ resets = 0 =>
    /\ Pending \in 0 .. Entries
    /\ ptr = (crd + Pending) % Entries
    /\ Posting => slot = ptr
    /\ \A i \in 0 .. Entries - 1 :
         /\ entry[i].valid <=> Distance(i) < Pending
         /\ entry[i].valid => entry[i].no = taken + 1 + Distance(i)

PtsInv == TypeInv /\ NoOverwrite /\ TimeInv /\ OffsetInv /\ OrderInv

-------------------------------------------------------------------------------
(* The ring. *)

\* The size of the FIFO, and the pointer's next place in it.
LEMMA EntriesAreWords ==
  /\ Entries \in Nat \ {0}
  /\ \A i \in 0 .. Entries - 1 : i + 1 \in Words
  /\ Entries - 1 \in Words
<1>1. Entries \in Words /\ Entries # 0
  BY EntriesAssumption
<1>2. Entries \in Nat \ {0}
  BY <1>1, WordsAreNumbers
<1>3. \A i \in 0 .. Entries - 1 : i + 1 \in 0 .. Entries
  BY <1>2
<1>4. Entries - 1 \in 0 .. Entries
  BY <1>2
<1>5. QED BY <1>1, <1>2, <1>3, <1>4, WordsAreNumbers

LEMMA NextEntryIsEntry ==
  ASSUME NEW i \in 0 .. Entries - 1
  PROVE  NextEntry(i) \in 0 .. Entries - 1
<1>1. (i + 1) % Entries \in 0 .. Entries - 1
  <2>1. i + 1 \in Int /\ Entries \in Nat \ {0}
    BY EntriesAreWords
  <2>2. QED BY ONLY <2>1, DivMod
<1>2. And[<<i + 1, Entries - 1>>] \in 0 .. Entries - 1
  BY EntriesAreWords, AndIsBelow
<1>3. QED BY <1>1, <1>2 DEF NextEntry

LEMMA NextEntryIsNextPlace ==
  ASSUME NEW i \in 0 .. Entries - 1, stream \in Streams, Streams \subseteq {"video", "spu"},
         Masked
  PROVE  NextEntry(i) = IF i + 1 = Entries THEN 0 ELSE i + 1
<1>1. (i + 1) % Entries = IF i + 1 = Entries THEN 0 ELSE i + 1
  BY EntriesAreWords, NextPlace
<1>2. CASE stream = "video"
  BY <1>1, <1>2 DEF NextEntry
<1>3. CASE stream = "spu"
  <2>1. PowerOfTwo(Entries)
    BY <1>3 DEF Masked
  <2>2. And[<<i + 1, Entries - 1>>] = (i + 1) % Entries
    BY <2>1, EntriesAssumption, EntriesAreWords, MaskIsRemainder
  <2>3. stream # "video"
    BY <1>3
  <2>4. QED BY <1>1, <2>2, <2>3 DEF NextEntry
<1>4. QED BY <1>2, <1>3

\* A sum of two places, and the distance between them.
LEMMA PlaceAfter ==
  ASSUME NEW n \in Nat \ {0}, NEW c \in 0 .. n - 1, NEW k \in 0 .. n
  PROVE  (c + k) % n = IF c + k >= n THEN c + k - n ELSE c + k
<1>1. CASE c + k >= n
  <2>1. c + k = n * 1 + (c + k - n) /\ c + k - n \in 0 .. n - 1
    BY <1>1
  <2>2. QED BY <1>1, <2>1, RestIsRemainder
<1>2. CASE c + k < n
  <2>1. c + k = n * 0 + (c + k) /\ c + k \in 0 .. n - 1
    BY <1>2
  <2>2. QED BY <1>2, <2>1, RestIsRemainder
<1>3. QED BY <1>1, <1>2

LEMMA PlaceBetween ==
  ASSUME NEW n \in Nat \ {0}, NEW i \in 0 .. n - 1, NEW c \in 0 .. n - 1
  PROVE  ((i - c) + n) % n = IF i >= c THEN i - c ELSE (i - c) + n
<1>1. CASE i >= c
  <2>1. (i - c) + n = n * 1 + (i - c) /\ i - c \in 0 .. n - 1
    BY <1>1
  <2>2. QED BY <1>1, <2>1, RestIsRemainder
<1>2. CASE i < c
  <2>1. (i - c) + n = n * 0 + ((i - c) + n) /\ (i - c) + n \in 0 .. n - 1
    BY <1>2
  <2>2. QED BY <1>2, <2>1, RestIsRemainder
<1>3. QED BY <1>1, <1>2

-------------------------------------------------------------------------------
(* The entries. *)

LEMMA FreeIsEntry == Free \in PtsEntry /\ ~Free.valid
BY DEF Free, PtsEntry

\* What the card reads of an entry whose offset is written.
LEMMA EntryWithOffset ==
  ASSUME NEW r \in PtsEntry, NEW o \in Nat
  PROVE  LET v == [r EXCEPT !.off = o]
         IN  /\ v \in PtsEntry /\ v.valid = r.valid /\ v.pts = r.pts
             /\ v.want = r.want /\ v.exact = r.exact /\ v.no = r.no
BY DEF PtsEntry

\* What the steps that write entries do to them.
LEMMA PostedOffset ==
  ASSUME TypeInv, Post
  PROVE  /\ entry' \in [0 .. Entries - 1 -> PtsEntry]
         /\ \A i \in 0 .. Entries - 1 :
              /\ entry'[i].valid = entry[i].valid /\ entry'[i].pts = entry[i].pts
              /\ entry'[i].want = entry[i].want /\ entry'[i].exact = entry[i].exact
              /\ entry'[i].no = entry[i].no
<1> DEFINE r == entry[slot]
           o == IF stream = "video" THEN offset ELSE r.off
           v == [r EXCEPT !.off = o]
<1>1. r \in PtsEntry /\ slot \in 0 .. Entries - 1 /\ entry \in [0 .. Entries - 1 -> PtsEntry]
  BY DEF TypeInv, Values
<1>2. o \in Nat
  <2>1. r.off \in Nat /\ offset \in Nat
    BY <1>1 DEF TypeInv, Values, PtsEntry
  <2>2. QED BY <2>1
<1>3. entry' = [entry EXCEPT ![slot] = v]
  BY DEF Post
<1> HIDE DEF o
<1>4. /\ v \in PtsEntry /\ v.valid = r.valid /\ v.pts = r.pts
      /\ v.want = r.want /\ v.exact = r.exact /\ v.no = r.no
  BY ONLY <1>1, <1>2, EntryWithOffset
<1> HIDE DEF v
<1>5. QED BY <1>1, <1>3, <1>4

LEMMA PostedTime ==
  ASSUME TypeInv, Commit
  PROVE  /\ entry' \in [0 .. Entries - 1 -> PtsEntry]
         /\ \A i \in 0 .. Entries - 1 : i # slot => entry'[i] = entry[i]
         /\ entry'[slot].valid /\ entry'[slot].pts = pts
         /\ entry'[slot].want = Half(asked) /\ entry'[slot].exact = undisturbed
         /\ entry'[slot].no = posted + 1
<1> DEFINE r == entry[slot]
           t == TRUE
           w == Half(asked)
           n == posted + 1
           v == [r EXCEPT !.valid = t, !.pts = pts, !.want = w, !.exact = undisturbed, !.no = n]
<1>1. /\ r \in PtsEntry /\ slot \in 0 .. Entries - 1 /\ entry \in [0 .. Entries - 1 -> PtsEntry]
      /\ pts \in Nat /\ undisturbed \in BOOLEAN /\ n \in Nat
  BY DEF TypeInv, Values, Flags
<1>2. w \in Nat
  <2>1. asked \in Nat
    BY BoundAssumption DEF TypeInv, Values
  <2>2. QED BY <2>1 DEF Half
<1>3. entry' = [entry EXCEPT ![slot] = v]
  BY DEF Commit
<1>4. t \in BOOLEAN /\ t
  OBVIOUS
<1> HIDE DEF t, w, n
<1>5. v \in PtsEntry /\ v.valid = t /\ v.pts = pts /\ v.want = w
      /\ v.exact = undisturbed /\ v.no = n
  <2> DEFINE x == undisturbed
  <2>1. r \in PtsEntry /\ x \in BOOLEAN /\ pts \in Nat /\ n \in Nat
    BY <1>1
  <2> HIDE DEF r
  <2>2. v = [r EXCEPT !.valid = t, !.pts = pts, !.want = w, !.exact = x, !.no = n]
    OBVIOUS
  <2> HIDE DEF v, x
  <2>3. v \in PtsEntry /\ v.valid = t /\ v.pts = pts /\ v.want = w
        /\ v.exact = x /\ v.no = n
    BY ONLY <1>2, <1>4, <2>1, <2>2 DEF PtsEntry
  <2>4. QED BY <2>3 DEF x
<1> HIDE DEF v
<1>6. /\ entry' \in [0 .. Entries - 1 -> PtsEntry] /\ entry'[slot] = v
      /\ \A i \in 0 .. Entries - 1 : i # slot => entry'[i] = entry[i]
  BY ONLY <1>1, <1>3, <1>5
<1>7. QED BY <1>4, <1>5, <1>6 DEF w, n

LEMMA TakenEntry ==
  ASSUME TypeInv, Take
  PROVE  /\ entry' \in [0 .. Entries - 1 -> PtsEntry]
         /\ \A i \in 0 .. Entries - 1 : i # crd => entry'[i] = entry[i]
         /\ ~entry'[crd].valid
<1>1. crd \in 0 .. Entries - 1 /\ entry \in [0 .. Entries - 1 -> PtsEntry]
      /\ entry' = [entry EXCEPT ![crd] = Free]
  BY DEF TypeInv, Values, Take
<1>2. QED BY <1>1, FreeIsEntry

-------------------------------------------------------------------------------
(* Types. *)

LEMMA TypesHold == Init => TypeInv
<1> SUFFICES ASSUME Init PROVE TypeInv
  OBVIOUS
<1>1. entry \in [0 .. Entries - 1 -> PtsEntry]
  BY FreeIsEntry DEF Init
<1>2. 0 \in 0 .. Entries - 1
  BY EntriesAreWords
<1>3. Values
  BY <1>1, <1>2 DEF Init, Values
<1>4. Flags
  BY Zenon DEF Init, Flags
<1>5. QED BY <1>3, <1>4 DEF TypeInv

LEMMA FlagsKept ==
  ASSUME Flags, [Next]_vars
  PROVE  Flags'
<1> USE DEF Flags, state, history, device, write
<1>1. ASSUME NEW t \in Times, SetPts(t) PROVE Flags'
  BY <1>1, Zenon DEF SetPts, VideoSetPts, SpuSetPts
<1>2. ASSUME NEW n \in Sizes, Write(n) PROVE Flags'
  BY <1>2, Zenon DEF Write
<1>3. CASE WaitFails
  BY <1>3, Zenon DEF WaitFails
<1>4. CASE WaitForEntry
  BY <1>4 DEF WaitForEntry
<1>5. CASE Post
  BY <1>5 DEF Post
<1>6. CASE Commit
  BY <1>6, Zenon DEF Commit
<1>7. ASSUME NEW ok \in BOOLEAN, WriteReturns(ok) PROVE Flags'
  BY <1>7 DEF WriteReturns
<1>8. ASSUME NEW k \in 1 .. count, Accept(k) PROVE Flags'
  BY <1>8 DEF Accept
<1>9. CASE Flush
  BY <1>9, Zenon DEF Flush, Reset, ResetOffset
<1>10. CASE Stop
  BY <1>10, Zenon DEF Stop, Reset, ResetOffset
<1>11. CASE Start
  BY <1>11, Zenon DEF Start, Started, Reset
<1>12. ASSUME NEW on \in BOOLEAN, SetSpuMode(on) PROVE Flags'
  BY <1>12, Zenon DEF SetSpuMode
<1>13. CASE Take
  BY <1>13 DEF Take
<1>14. CASE CheckPtsFifo
  BY <1>14 DEF CheckPtsFifo
<1>15. CASE UNCHANGED vars
  BY <1>15 DEF vars
<1>17. CASE VideoRelease
  BY <1>17, Zenon DEF VideoRelease, Reset, ResetOffset
<1>18. CASE VideoOpen
  BY <1>18, Zenon DEF VideoOpen, Reset, Started
<1>19. CASE SpuRelease
  BY <1>19, Zenon DEF SpuRelease, Reset
<1>20. CASE SpuOpen
  BY <1>20, Zenon DEF SpuOpen, Reset
<1>21. CASE VideoElsewhere
  BY <1>21, Zenon DEF VideoElsewhere
<1>22. CASE Vbi
  BY <1>22, Zenon DEF Vbi
<1>16. QED
  BY <1>1, <1>2, <1>3, <1>4, <1>5, <1>6, <1>7, <1>8, <1>9, <1>10, <1>11, <1>12, <1>13,
     <1>14, <1>15, <1>17, <1>18, <1>19, <1>20, <1>21, <1>22
  DEF Next, Player, Writing, Others, Devices

LEMMA ValuesKept ==
  ASSUME TypeInv, [Next]_vars
  PROVE  Values'
<1> USE DEF Values, state, history, device, write
<1>0. /\ Entries \in Nat \ {0} /\ Times \subseteq Nat /\ Sizes \subseteq Nat
      /\ 0 \in 0 .. Entries - 1
  BY EntriesAreWords, BoundAssumption
<1>v. Values
  BY DEF TypeInv
<1>1. ASSUME NEW t \in Times, SetPts(t) PROVE Values'
  <2>1. pts' \in Nat /\ lastpts' \in Nat
    <3>1. CASE VideoSetPts(t)
      BY <1>v, <1>0, <3>1 DEF VideoSetPts
    <3>2. CASE SpuSetPts(t)
      BY <1>v, <1>0, <3>2 DEF SpuSetPts, Half
    <3>3. QED BY <1>1, <3>1, <3>2 DEF SetPts
  <2>2. QED BY <1>v, <1>1, <2>1 DEF SetPts
<1>2. ASSUME NEW n \in Sizes, Write(n) PROVE Values'
  <2>1. n \in Nat /\ 0 \in 0 .. n
    BY <1>0
  <2>2. pts' \in Nat
    <3>1. CASE pts' = pts
      BY <1>v, <3>1
    <3>2. CASE pts' = Half(pts)
      BY <1>v, <3>2 DEF Half
    <3>3. QED BY <1>2, <3>1, <3>2 DEF Write
  <2>3. slot' \in 0 .. Entries - 1
        /\ pc' \in {"idle", "wait", "sleep", "post", "commit", "fifo"}
    BY <1>v, <1>2 DEF Write
  <2>4. QED BY <1>v, <1>2, <2>1, <2>2, <2>3 DEF Write
<1>3. CASE WaitFails
  BY <1>v, <1>3 DEF WaitFails
<1>4. CASE WaitForEntry
  BY <1>v, <1>4 DEF WaitForEntry
<1>5. CASE Post
  BY <1>v, <1>5, PostedOffset DEF Post
<1>6. CASE Commit
  <2>1. ptr' \in 0 .. Entries - 1
    BY <1>v, <1>6, NextEntryIsEntry DEF Commit
  <2>2. entry' \in [0 .. Entries - 1 -> PtsEntry]
    BY <1>6, PostedTime
  <2>3. QED BY <1>v, <1>6, <2>1, <2>2 DEF Commit
<1>7. ASSUME NEW ok \in BOOLEAN, WriteReturns(ok) PROVE Values'
  BY <1>v, <1>7 DEF WriteReturns
<1>8. ASSUME NEW k \in 1 .. count, Accept(k) PROVE Values'
  BY <1>v, <1>8 DEF Accept
<1>9. CASE Flush
  BY <1>v, <1>0, <1>9 DEF Flush, Reset, ResetOffset
<1>10. CASE Stop
  BY <1>v, <1>0, <1>10 DEF Stop, Reset, ResetOffset
<1>11. CASE Start
  BY <1>v, <1>11 DEF Start, Started, Reset
<1>12. ASSUME NEW on \in BOOLEAN, SetSpuMode(on) PROVE Values'
  BY <1>v, <1>12 DEF SetSpuMode
<1>13. CASE Take
  <2>1. (crd + 1) % Entries \in 0 .. Entries - 1
    <3>1. crd + 1 \in Int /\ Entries \in Nat \ {0}
      BY <1>v, <1>0
    <3>2. QED BY ONLY <3>1, DivMod
  <2>2. entry' \in [0 .. Entries - 1 -> PtsEntry]
    BY <1>v, <1>13, TakenEntry
  <2>3. crd' \in 0 .. Entries - 1
    BY <1>v, <1>13, <2>1 DEF Take
  <2>4. QED BY <1>v, <1>13, <2>2, <2>3 DEF Take
<1>14. CASE CheckPtsFifo
  BY <1>v, <1>14 DEF CheckPtsFifo
<1>15. CASE UNCHANGED vars
  BY <1>v, <1>15 DEF vars
<1>17. CASE VideoRelease
  BY <1>v, <1>0, <1>17 DEF VideoRelease, Reset, ResetOffset
<1>18. CASE VideoOpen
  BY <1>v, <1>18 DEF VideoOpen, Reset, Started
<1>19. CASE SpuRelease
  BY <1>v, <1>0, <1>19 DEF SpuRelease, Reset
<1>20. CASE SpuOpen
  BY <1>v, <1>0, <1>20 DEF SpuOpen, Reset
<1>21. CASE VideoElsewhere
  BY <1>v, <1>21 DEF VideoElsewhere
<1>22. CASE Vbi
  BY <1>v, <1>22 DEF Vbi
<1>16. QED
  BY <1>1, <1>2, <1>3, <1>4, <1>5, <1>6, <1>7, <1>8, <1>9, <1>10, <1>11, <1>12, <1>13,
     <1>14, <1>15, <1>17, <1>18, <1>19, <1>20, <1>21, <1>22
  DEF Next, Player, Writing, Others, Devices

LEMMA TypesKept ==
  ASSUME TypeInv, [Next]_vars
  PROVE  TypeInv'
BY FlagsKept, ValuesKept DEF TypeInv

-------------------------------------------------------------------------------
(* No entry is filled twice. *)

LEMMA NoOverwriteKept ==
  ASSUME TypeInv, NoOverwrite, [Next]_vars
  PROVE  NoOverwrite'
<1> USE DEF NoOverwrite, state, history, device, write
<1>0. slot \in 0 .. Entries - 1
  BY DEF TypeInv, Values
<1>1. ASSUME NEW t \in Times, SetPts(t) PROVE NoOverwrite'
  BY <1>1 DEF SetPts
<1>2. ASSUME NEW n \in Sizes, Write(n) PROVE NoOverwrite'
  <2>1. pc' \in {"idle", "wait", "fifo"}
    BY <1>2 DEF Write
  <2>2. QED BY <2>1
<1>3. CASE WaitFails
  BY <1>3 DEF WaitFails
<1>4. CASE WaitForEntry
  BY <1>4 DEF WaitForEntry
<1>5. CASE Post
  <2>1. entry'[slot].valid = entry[slot].valid /\ slot' = slot /\ pc = "post"
    BY <1>0, <1>5, PostedOffset DEF Post
  <2>2. QED BY <2>1
<1>6. CASE Commit
  BY <1>6 DEF Commit
<1>7. ASSUME NEW ok \in BOOLEAN, WriteReturns(ok) PROVE NoOverwrite'
  BY <1>7 DEF WriteReturns
<1>8. ASSUME NEW k \in 1 .. count, Accept(k) PROVE NoOverwrite'
  BY <1>8 DEF Accept
<1>9. CASE Flush
  BY <1>9 DEF Flush
<1>10. CASE Stop
  BY <1>10 DEF Stop
<1>11. CASE Start
  BY <1>11 DEF Start
<1>12. ASSUME NEW on \in BOOLEAN, SetSpuMode(on) PROVE NoOverwrite'
  BY <1>12 DEF SetSpuMode
<1>13. CASE Take
  <2>1. /\ slot # crd => entry'[slot] = entry[slot]
        /\ slot = crd => ~entry'[slot].valid
        /\ slot' = slot /\ pc' = pc
    BY <1>0, <1>13, TakenEntry DEF Take
  <2>2. QED BY <2>1
<1>14. CASE CheckPtsFifo
  BY <1>14 DEF CheckPtsFifo
<1>15. CASE UNCHANGED vars
  BY <1>15 DEF vars
<1>17. CASE VideoRelease
  BY <1>17 DEF VideoRelease, Reset, ResetOffset
<1>18. CASE VideoOpen
  BY <1>18 DEF VideoOpen, Reset, Started
<1>19. CASE SpuRelease
  BY <1>19 DEF SpuRelease, Reset
<1>20. CASE SpuOpen
  BY <1>20 DEF SpuOpen, Reset
<1>21. CASE VideoElsewhere
  BY <1>21 DEF VideoElsewhere
<1>22. CASE Vbi
  BY <1>22 DEF Vbi
<1>16. QED
  BY <1>1, <1>2, <1>3, <1>4, <1>5, <1>6, <1>7, <1>8, <1>9, <1>10, <1>11, <1>12, <1>13,
     <1>14, <1>15, <1>17, <1>18, <1>19, <1>20, <1>21, <1>22
  DEF Next, Player, Writing, Others, Devices

-------------------------------------------------------------------------------
(* The times. *)

LEMMA TimeKept ==
  ASSUME TypeInv, TimeInv, [Next]_vars
  PROVE  TimeInv'
<1> USE DEF TimeInv, TimeExact, Posting, state, history, device, write
<1>0. /\ slot \in 0 .. Entries - 1 /\ crd \in 0 .. Entries - 1
      /\ pc \in {"idle", "wait", "sleep", "post", "commit", "fifo"}
      /\ stream \in {"video", "spu"}
  BY StreamAssumption DEF TypeInv, Values
<1>1. ASSUME NEW t \in Times, SetPts(t) PROVE TimeInv'
  <2>1. undisturbed' = ~Posting /\ pc' = pc /\ entry' = entry /\ asked' = t
        /\ stream' = stream
    BY <1>1 DEF SetPts
  <2>2. pts' = IF stream = "video" THEN t ELSE Half(t)
    BY <1>1 DEF SetPts, VideoSetPts, SpuSetPts
  <2>3. QED BY <2>1, <2>2
<1>2. ASSUME NEW n \in Sizes, Write(n) PROVE TimeInv'
  <2>1. pc = "idle" /\ entry' = entry /\ asked' = asked /\ stream' = stream
        /\ undisturbed' = undisturbed /\ ptsvalid' = ptsvalid
    BY <1>2 DEF Write
  <2>2. CASE mode /\ ptsvalid
    <3>1. pts' = (IF stream = "video" THEN Half(pts) ELSE pts) /\ pc' = "wait"
      BY <1>2, <2>2 DEF Write
    <3>2. QED BY <2>1, <2>2, <3>1
  <2>3. CASE ~(mode /\ ptsvalid)
    <3>1. pts' = pts /\ pc' \in {"idle", "fifo"}
      BY <1>2, <2>1, <2>3 DEF Write
    <3>2. QED BY <2>1, <3>1
  <2>4. QED BY <2>2, <2>3
<1>3. CASE WaitFails
  BY <1>3 DEF WaitFails
<1>4. CASE WaitForEntry
  BY <1>4 DEF WaitForEntry
<1>5. CASE Post
  <2>1. /\ pc = "post" /\ pc' = "commit" /\ UNCHANGED <<state, history>>
        /\ \A i \in 0 .. Entries - 1 :
             /\ entry'[i].valid = entry[i].valid /\ entry'[i].pts = entry[i].pts
             /\ entry'[i].want = entry[i].want /\ entry'[i].exact = entry[i].exact
    BY <1>5, PostedOffset DEF Post
  <2>2. QED BY <2>1
<1>6. CASE Commit
  <2>1. /\ pc = "commit" /\ pc' = "fifo" /\ ~ptsvalid'
        /\ UNCHANGED <<pts, asked, undisturbed, stream>>
    BY <1>6 DEF Commit
  <2>2. ASSUME NEW i \in 0 .. Entries - 1
        PROVE  (entry[i].valid /\ entry[i].exact => entry[i].pts = entry[i].want)'
    <3>1. CASE i = slot
      BY <1>6, <2>1, <3>1, PostedTime
    <3>2. CASE i # slot
      BY <1>6, <3>2, PostedTime
    <3>3. QED BY <3>1, <3>2
  <2>3. QED BY <2>1, <2>2
<1>7. ASSUME NEW ok \in BOOLEAN, WriteReturns(ok) PROVE TimeInv'
  BY <1>7 DEF WriteReturns
<1>8. ASSUME NEW k \in 1 .. count, Accept(k) PROVE TimeInv'
  BY <1>8 DEF Accept
<1>9. CASE Flush
  BY <1>9 DEF Flush, Reset
<1>10. CASE Stop
  BY <1>10 DEF Stop, Reset
<1>11. CASE Start
  BY <1>11 DEF Start, Started, Reset
<1>12. ASSUME NEW on \in BOOLEAN, SetSpuMode(on) PROVE TimeInv'
  BY <1>12 DEF SetSpuMode
<1>13. CASE Take
  <2>1. UNCHANGED <<state, pc, asked, undisturbed>>
    BY <1>13 DEF Take
  <2>2. ASSUME NEW i \in 0 .. Entries - 1
        PROVE  (entry[i].valid /\ entry[i].exact => entry[i].pts = entry[i].want)'
    <3>1. CASE i = crd
      BY <1>13, <3>1, TakenEntry
    <3>2. CASE i # crd
      BY <1>13, <3>2, TakenEntry
    <3>3. QED BY <3>1, <3>2
  <2>3. QED BY <2>1, <2>2
<1>14. CASE CheckPtsFifo
  BY <1>14 DEF CheckPtsFifo
<1>15. CASE UNCHANGED vars
  BY <1>15 DEF vars
<1>17. CASE VideoRelease
  BY <1>17 DEF VideoRelease, Reset, ResetOffset
<1>18. CASE VideoOpen
  BY <1>18 DEF VideoOpen, Reset, Started
<1>19. CASE SpuRelease
  BY <1>19 DEF SpuRelease, Reset
<1>20. CASE SpuOpen
  BY <1>20 DEF SpuOpen, Reset
<1>21. CASE VideoElsewhere
  BY <1>21 DEF VideoElsewhere
<1>22. CASE Vbi
  BY <1>22 DEF Vbi
<1>16. QED
  BY <1>1, <1>2, <1>3, <1>4, <1>5, <1>6, <1>7, <1>8, <1>9, <1>10, <1>11, <1>12, <1>13,
     <1>14, <1>15, <1>17, <1>18, <1>19, <1>20, <1>21, <1>22
  DEF Next, Player, Writing, Others, Devices

-------------------------------------------------------------------------------
(* The offsets. *)

LEMMA OffsetKept ==
  ASSUME TypeInv, OffsetInv, [Next]_vars
  PROVE  OffsetInv'
<1> USE DEF OffsetInv, state, history, device, write
<1>0. /\ pc \in {"idle", "wait", "sleep", "post", "commit", "fifo"}
      /\ offset \in Nat /\ accepted \in Nat /\ written \in Nat /\ count \in Nat
      /\ lost \in Nat
  BY DEF TypeInv, Values
<1>1. ASSUME NEW t \in Times, SetPts(t) PROVE OffsetInv'
  BY <1>1 DEF SetPts
<1>2. ASSUME NEW n \in Sizes, Write(n) PROVE OffsetInv'
  <2>1. pc = "idle" /\ written' = 0 /\ UNCHANGED <<stream, steady, offset, lost, accepted>>
    BY <1>2 DEF Write
  <2>2. QED BY <1>0, <2>1
<1>3. CASE WaitFails
  BY <1>3 DEF WaitFails
<1>4. CASE WaitForEntry
  BY <1>4 DEF WaitForEntry
<1>5. CASE Post
  BY <1>5 DEF Post
<1>6. CASE Commit
  <2>1. pc = "commit" /\ pc' = "fifo" /\ UNCHANGED <<stream, steady, offset, lost, accepted, written>>
    BY <1>6 DEF Commit
  <2>2. QED BY <1>0, <2>1
<1>7. ASSUME NEW ok \in BOOLEAN, WriteReturns(ok) PROVE OffsetInv'
  BY <1>0, <1>7 DEF WriteReturns
<1>8. ASSUME NEW k \in 1 .. count, Accept(k) PROVE OffsetInv'
  BY <1>0, <1>8 DEF Accept
<1>9. CASE Flush
  <2>1. steady' => written = 0
    BY <1>9, Zenon DEF Flush, ResetOffset
  <2>2. offset' = 0 /\ accepted' = 0 /\ lost' = 0 /\ UNCHANGED <<pc, written>>
    BY <1>9 DEF Flush, ResetOffset
  <2>3. QED BY <1>0, <2>1, <2>2
<1>10. CASE Stop
  <2>1. steady' => written = 0
    BY <1>10, Zenon DEF Stop, ResetOffset
  <2>2. offset' = 0 /\ accepted' = 0 /\ lost' = 0 /\ UNCHANGED <<pc, written>>
    BY <1>10 DEF Stop, ResetOffset
  <2>3. QED BY <1>0, <2>1, <2>2
<1>11. CASE Start
  BY <1>11 DEF Start, Started, Reset
<1>12. ASSUME NEW on \in BOOLEAN, SetSpuMode(on) PROVE OffsetInv'
  BY <1>12 DEF SetSpuMode
<1>13. CASE Take
  BY <1>13 DEF Take
<1>14. CASE CheckPtsFifo
  BY <1>14 DEF CheckPtsFifo
<1>15. CASE UNCHANGED vars
  BY <1>15 DEF vars
<1>17. CASE VideoRelease
  BY <1>0, <1>17 DEF VideoRelease, Reset, ResetOffset
<1>18. CASE VideoOpen
  BY <1>0, <1>18 DEF VideoOpen, Reset, Started
<1>19. CASE SpuRelease
  BY <1>0, <1>19 DEF SpuRelease, Reset
<1>20. CASE SpuOpen
  BY <1>0, <1>20 DEF SpuOpen, Reset
<1>21. CASE VideoElsewhere
  BY <1>0, <1>21 DEF VideoElsewhere
<1>22. CASE Vbi
  BY <1>0, <1>22 DEF Vbi
<1>16. QED
  BY <1>1, <1>2, <1>3, <1>4, <1>5, <1>6, <1>7, <1>8, <1>9, <1>10, <1>11, <1>12, <1>13,
     <1>14, <1>15, <1>17, <1>18, <1>19, <1>20, <1>21, <1>22
  DEF Next, Player, Writing, Others, Devices

-------------------------------------------------------------------------------
(* The order. *)

\* The card takes the first of the pending entries.
LEMMA OrderAfterTake ==
  ASSUME TypeInv, OrderInv, Masked, resets = 0, Take
  PROVE  OrderInv'
<1> DEFINE n == Entries
           q == posted - taken
           c == (crd + 1) % n
<1>0. /\ n \in Nat \ {0} /\ crd \in 0 .. n - 1 /\ posted \in Nat /\ taken \in Nat
      /\ ptr \in 0 .. n - 1
  BY EntriesAreWords DEF TypeInv, Values
<1>1. /\ q \in 0 .. n /\ ptr = (crd + q) % n /\ (Posting => slot = ptr)
      /\ \A i \in 0 .. n - 1 :
           /\ entry[i].valid <=> (i - crd + n) % n < q
           /\ entry[i].valid => entry[i].no = taken + 1 + ((i - crd + n) % n)
  BY DEF OrderInv, Distance, Pending
<1>2. /\ taken' = taken + 1 /\ crd' = c /\ entry[crd].valid
      /\ UNCHANGED <<ptr, posted, pc, slot>>
  BY DEF Take, state, write
<1>3. /\ \A i \in 0 .. n - 1 : i # crd => entry'[i] = entry[i]
      /\ ~entry'[crd].valid
  BY TakenEntry
<1> HIDE DEF n, q, c
<1>4. c = IF crd + 1 = n THEN 0 ELSE crd + 1
  BY <1>0, NextPlace DEF c
<1>5. c \in 0 .. n - 1
  BY <1>0, <1>4
<1>6. \A i \in 0 .. n - 1 :
        /\ (i - crd + n) % n = IF i >= crd THEN i - crd ELSE i - crd + n
        /\ (i - c + n) % n = IF i >= c THEN i - c ELSE i - c + n
  BY <1>0, <1>5, PlaceBetween
<1>7. q > 0
  <2>1. (crd - crd + n) % n = 0
    BY <1>0, <1>6
  <2>2. QED BY <1>0, <1>1, <1>2, <2>1
<1>8. ptr = IF crd + q >= n THEN crd + q - n ELSE crd + q
  BY <1>0, <1>1, PlaceAfter
<1>9. posted - (taken + 1) = q - 1
  BY <1>0 DEF q
<1>10. (c + (q - 1)) % n = IF c + (q - 1) >= n THEN c + (q - 1) - n ELSE c + (q - 1)
  <2> DEFINE k == q - 1
  <2>1. k \in 0 .. n /\ n \in Nat \ {0} /\ c \in 0 .. n - 1
    BY <1>0, <1>1, <1>5, <1>7
  <2> HIDE DEF k
  <2>2. (c + k) % n = IF c + k >= n THEN c + k - n ELSE c + k
    BY ONLY <2>1, PlaceAfter
  <2>3. QED BY <2>2 DEF k
<1>11. ptr = (c + (q - 1)) % n
  <2> DEFINE z == (c + (q - 1)) % n
  <2>1. z = IF c + (q - 1) >= n THEN c + (q - 1) - n ELSE c + (q - 1)
    BY <1>10
  <2>2. q \in 1 .. n
    BY <1>0, <1>1, <1>7
  <2> HIDE DEF z
  <2>3. ptr = z
    BY ONLY <1>0, <1>4, <1>8, <2>1, <2>2
  <2>4. QED BY <2>3 DEF z
<1>12. ASSUME NEW i \in 0 .. n - 1
       PROVE  /\ entry'[i].valid <=> (i - c + n) % n < q - 1
              /\ entry'[i].valid => entry'[i].no = (taken + 1) + 1 + ((i - c + n) % n)
  <2>1. CASE i = crd
    <3> DEFINE z == (i - c + n) % n
    <3>1. z = IF i >= c THEN i - c ELSE i - c + n
      BY <1>6
    <3> HIDE DEF z
    <3>2. z = n - 1
      BY ONLY <1>0, <1>4, <2>1, <3>1
    <3>3. ~(z < q - 1)
      BY <1>0, <1>1, <3>2
    <3>4. QED BY <1>3, <2>1, <3>3 DEF z
  <2>2. CASE i # crd
    <3> DEFINE d == (i - crd + n) % n
               z == (i - c + n) % n
    <3>1. /\ d = IF i >= crd THEN i - crd ELSE i - crd + n
          /\ z = IF i >= c THEN i - c ELSE i - c + n
      BY <1>6
    <3>2. /\ entry[i].valid <=> d < q
          /\ entry[i].valid => entry[i].no = taken + 1 + d
          /\ entry'[i] = entry[i]
      BY <1>1, <1>3, <2>2
    <3> HIDE DEF d, z
    <3>3. z = d - 1 /\ d \in Nat
      BY ONLY <1>0, <1>4, <2>2, <3>1, i \in 0 .. n - 1
    <3>4. d < q <=> z < q - 1
      BY <1>0, <1>1, <3>3
    <3>5. taken + 1 + d = (taken + 1) + 1 + z
      BY <1>0, <3>3
    <3>6. QED BY <3>2, <3>4, <3>5 DEF z
  <2>3. QED BY <2>1, <2>2
<1>13. Pending' = q - 1
  BY <1>2, <1>9 DEF Pending
<1>14. q - 1 \in 0 .. n
  BY <1>0, <1>1, <1>7
<1>15. (Posting => slot = ptr)'
  BY <1>1, <1>2 DEF Posting
<1>16. QED
  BY <1>2, <1>11, <1>12, <1>13, <1>14, <1>15 DEF OrderInv, Distance, n

\* A time is posted behind those pending.
LEMMA OrderAfterCommit ==
  ASSUME TypeInv, NoOverwrite, OrderInv, Masked, resets = 0, Commit
  PROVE  OrderInv'
<1> DEFINE n == Entries
           q == posted - taken
<1>0. /\ n \in Nat \ {0} /\ crd \in 0 .. n - 1 /\ posted \in Nat /\ taken \in Nat
      /\ ptr \in 0 .. n - 1 /\ stream \in Streams
  BY EntriesAreWords DEF TypeInv, Values
<1>1. /\ q \in 0 .. n /\ ptr = (crd + q) % n /\ slot = ptr /\ ~entry[slot].valid
      /\ \A i \in 0 .. n - 1 :
           /\ entry[i].valid <=> (i - crd + n) % n < q
           /\ entry[i].valid => entry[i].no = taken + 1 + ((i - crd + n) % n)
  BY DEF OrderInv, NoOverwrite, Distance, Pending, Posting, Commit
<1>2. posted' = posted + 1 /\ pc' = "fifo" /\ ptr' = NextEntry(ptr) /\ UNCHANGED <<taken, crd>>
  BY DEF Commit
<1>3. /\ \A i \in 0 .. n - 1 : i # ptr => entry'[i] = entry[i]
      /\ entry'[ptr].valid /\ entry'[ptr].no = posted + 1
  BY <1>1, PostedTime
<1>4. NextEntry(ptr) = IF ptr + 1 = n THEN 0 ELSE ptr + 1
  BY <1>0, StreamAssumption, NextEntryIsNextPlace
<1> HIDE DEF n, q
<1>5. ptr = IF crd + q >= n THEN crd + q - n ELSE crd + q
  BY <1>0, <1>1, PlaceAfter
<1>6. \A i \in 0 .. n - 1 :
        (i - crd + n) % n = IF i >= crd THEN i - crd ELSE i - crd + n
  BY <1>0, PlaceBetween
<1>7. (ptr - crd + n) % n = (IF q = n THEN 0 ELSE q)
  BY <1>0, <1>1, <1>5, <1>6
<1>8. q < n
  BY <1>0, <1>1, <1>7
<1>9. (crd + (q + 1)) % n = IF crd + (q + 1) >= n THEN crd + (q + 1) - n ELSE crd + (q + 1)
  <2> DEFINE k == q + 1
  <2>1. k \in 0 .. n /\ n \in Nat \ {0} /\ crd \in 0 .. n - 1
    BY <1>0, <1>1, <1>8
  <2> HIDE DEF k
  <2>2. (crd + k) % n = IF crd + k >= n THEN crd + k - n ELSE crd + k
    BY ONLY <2>1, PlaceAfter
  <2>3. QED BY <2>2 DEF k
<1>10. NextEntry(ptr) = (crd + (q + 1)) % n
  <2> DEFINE z == (crd + (q + 1)) % n
  <2>1. z = IF crd + (q + 1) >= n THEN crd + (q + 1) - n ELSE crd + (q + 1)
    BY <1>9
  <2>2. q \in 0 .. n - 1
    BY <1>0, <1>1, <1>8
  <2> HIDE DEF z
  <2>3. NextEntry(ptr) = z
    BY ONLY <1>0, <1>4, <1>5, <2>1, <2>2
  <2>4. QED BY <2>3 DEF z
<1>11. ASSUME NEW i \in 0 .. n - 1
       PROVE  /\ entry'[i].valid <=> (i - crd + n) % n < q + 1
              /\ entry'[i].valid => entry'[i].no = taken + 1 + ((i - crd + n) % n)
  <2>1. CASE i = ptr
    <3> DEFINE d == (i - crd + n) % n
    <3>1. d = q
      BY <1>0, <1>1, <1>7, <1>8, <2>1
    <3>2. taken + 1 + q = posted + 1
      BY <1>0 DEF q
    <3>3. q < q + 1
      BY <1>0, <1>1
    <3> HIDE DEF d
    <3>4. QED BY <1>3, <2>1, <3>1, <3>2, <3>3 DEF d
  <2>2. CASE i # ptr
    <3> DEFINE d == (i - crd + n) % n
    <3>0. d = IF i >= crd THEN i - crd ELSE i - crd + n
      BY <1>6
    <3>2. /\ entry[i].valid <=> d < q
          /\ entry[i].valid => entry[i].no = taken + 1 + d
          /\ entry'[i] = entry[i]
      BY <1>1, <1>3, <2>2
    <3> HIDE DEF d
    <3>1. d # q /\ d \in Nat
      <4>1. q \in 0 .. n
        BY <1>1
      <4>2. QED BY ONLY <1>0, <1>5, <1>8, <2>2, <3>0, <4>1, i \in 0 .. n - 1
    <3>3. d < q <=> d < q + 1
      BY <1>0, <1>1, <3>1
    <3>4. QED BY <3>2, <3>3 DEF d
  <2>3. QED BY <2>1, <2>2
<1>12. Pending' = q + 1
  BY <1>0, <1>2 DEF Pending, q
<1>13. q + 1 \in 0 .. n
  BY <1>0, <1>1, <1>8
<1>14. ~Posting'
  BY <1>2 DEF Posting
<1>15. QED
  BY <1>2, <1>10, <1>11, <1>12, <1>13, <1>14 DEF OrderInv, Distance, n

LEMMA OrderKept ==
  ASSUME TypeInv, NoOverwrite, OrderInv, [Next]_vars
  PROVE  OrderInv'
<1> USE DEF Posting, Pending, Distance, state, history, device, write
<1>0. /\ Masked <=> Masked' /\ resets \in Nat
  BY DEF Masked, TypeInv, Values
<1>u. ASSUME UNCHANGED <<resets, posted, taken, ptr, crd, slot, entry>>, Posting' => Posting
      PROVE  OrderInv'
  BY <1>0, <1>u DEF OrderInv
<1>r. ASSUME resets' = resets + 1 PROVE OrderInv'
  BY <1>0, <1>r DEF OrderInv
<1> HIDE DEF Pending, Distance
<1>1. ASSUME NEW t \in Times, SetPts(t) PROVE OrderInv'
  <2>1. UNCHANGED <<resets, posted, taken, ptr, crd, slot, entry, pc>>
    BY <1>1 DEF SetPts
  <2>2. QED BY <1>u, <2>1
<1>2. ASSUME NEW n \in Sizes, Write(n) PROVE OrderInv'
  <2>1. UNCHANGED <<resets, posted, taken, ptr, crd, entry>>
    BY <1>2 DEF Write
  <2>2. pc = "idle" /\ (Posting' => slot' = ptr)
    BY <1>2 DEF Write
  <2>3. QED BY <1>0, <2>1, <2>2 DEF OrderInv, Pending, Distance
<1>3. CASE WaitFails
  BY <1>u, <1>3 DEF WaitFails
<1>4. CASE WaitForEntry
  BY <1>u, <1>4 DEF WaitForEntry
<1>5. CASE Post
  <2>1. UNCHANGED <<resets, posted, taken, ptr, crd, slot>> /\ Posting
    BY <1>5 DEF Post
  <2>2. \A i \in 0 .. Entries - 1 :
          entry'[i].valid = entry[i].valid /\ entry'[i].no = entry[i].no
    BY <1>5, PostedOffset
  <2>3. QED BY <1>0, <2>1, <2>2 DEF OrderInv, Pending, Distance
<1>6. CASE Commit
  <2>1. CASE Masked /\ resets = 0
    BY <1>6, <2>1, OrderAfterCommit
  <2>2. CASE ~(Masked /\ resets = 0)
    BY <1>0, <1>6, <2>2 DEF OrderInv, Commit
  <2>3. QED BY <2>1, <2>2
<1>7. ASSUME NEW ok \in BOOLEAN, WriteReturns(ok) PROVE OrderInv'
  BY <1>u, <1>7 DEF WriteReturns
<1>8. ASSUME NEW k \in 1 .. count, Accept(k) PROVE OrderInv'
  BY <1>u, <1>8 DEF Accept
<1>9. CASE Flush
  BY <1>r, <1>9 DEF Flush, Reset
<1>10. CASE Stop
  BY <1>r, <1>10 DEF Stop, Reset
<1>11. CASE Start
  BY <1>r, <1>11 DEF Start, Started, Reset
<1>12. ASSUME NEW on \in BOOLEAN, SetSpuMode(on) PROVE OrderInv'
  BY <1>u, <1>12 DEF SetSpuMode
<1>13. CASE Take
  <2>1. CASE Masked /\ resets = 0
    BY <1>13, <2>1, OrderAfterTake
  <2>2. CASE ~(Masked /\ resets = 0)
    BY <1>0, <1>13, <2>2 DEF OrderInv, Take
  <2>3. QED BY <2>1, <2>2
<1>14. CASE CheckPtsFifo
  BY <1>u, <1>14 DEF CheckPtsFifo
<1>15. CASE UNCHANGED vars
  BY <1>u, <1>15 DEF vars
<1>17. CASE VideoRelease
  BY <1>r, <1>17 DEF VideoRelease, Reset, ResetOffset
<1>18. CASE VideoOpen
  BY <1>r, <1>18 DEF VideoOpen, Reset, Started
<1>19. CASE SpuRelease
  BY <1>r, <1>19 DEF SpuRelease, Reset
<1>20. CASE SpuOpen
  BY <1>r, <1>20 DEF SpuOpen, Reset
<1>21. CASE VideoElsewhere
  BY <1>u, <1>21 DEF VideoElsewhere
<1>22. CASE Vbi
  BY <1>u, <1>22 DEF Vbi
<1>16. QED
  BY <1>1, <1>2, <1>3, <1>4, <1>5, <1>6, <1>7, <1>8, <1>9, <1>10, <1>11, <1>12, <1>13,
     <1>14, <1>15, <1>17, <1>18, <1>19, <1>20, <1>21, <1>22
  DEF Next, Player, Writing, Others, Devices

-------------------------------------------------------------------------------
(* The theorems. *)

LEMMA InvHolds == Init => PtsInv
<1> SUFFICES ASSUME Init PROVE PtsInv
  OBVIOUS
<1>1. TypeInv
  BY TypesHold
<1>2. pc = "idle" /\ ptr = 0 /\ crd = 0 /\ posted = 0 /\ taken = 0 /\ ~ptsvalid
      /\ offset = 0 /\ accepted = 0 /\ lost = 0 /\ written = 0
      /\ \A i \in 0 .. Entries - 1 : ~entry[i].valid
  BY FreeIsEntry DEF Init
<1>3. NoOverwrite /\ TimeInv /\ OffsetInv
  BY <1>2 DEF NoOverwrite, TimeInv, TimeExact, OffsetInv, Posting
<1>4. OrderInv
  <2> DEFINE n == Entries
  <2>1. n \in Nat \ {0} /\ posted - taken = 0 /\ 0 \in 0 .. n /\ 0 \in 0 .. n - 1
    BY <1>2, EntriesAreWords
  <2>2. (0 + 0) % n = 0
    BY <2>1, PlaceAfter
  <2>3. \A i \in 0 .. n - 1 : (i - 0 + n) % n \in Nat
    BY <2>1, PlaceBetween
  <2> HIDE DEF n
  <2>4. \A i \in 0 .. n - 1 : ~((i - 0 + n) % n < 0)
    BY <2>3
  <2>5. QED BY <1>2, <2>1, <2>2, <2>4 DEF OrderInv, Pending, Distance, Posting, n
<1>5. QED BY <1>1, <1>3, <1>4 DEF PtsInv

\* What the proofs rest on: the pointer, the times, the offset and the order of
\* the entries, whatever writes and resets there were.
THEOREM PtsAccounted == Spec => []PtsInv
<1>1. PtsInv /\ [Next]_vars => PtsInv'
  BY TypesKept, NoOverwriteKept, TimeKept, OffsetKept, OrderKept DEF PtsInv
<1>2. QED BY InvHolds, <1>1, PTL DEF Spec

\* Every variable keeps its type, and the pointer stays in the FIFO, whatever its
\* size (em8300_video_write, em8300_spu_write).
THEOREM PointerStaysInFifo == Spec => []TypeOK
<1>1. PtsInv => TypeOK
  <2> SUFFICES ASSUME TypeInv PROVE TypeOK
    BY DEF PtsInv
  <2>1. {pts, lastpts, offset, accepted, lost, posted, taken} \subseteq Nat
        /\ {ptr, crd, slot} \subseteq 0 .. Entries - 1
        /\ pc \in {"idle", "wait", "sleep", "post", "commit", "fifo"}
        /\ written \in 0 .. count /\ asked \in Times \cup {0}
    BY DEF TypeInv, Values
  <2>2. {ptsvalid, playing, mode, open, vbl, undisturbed, steady} \subseteq BOOLEAN
    BY Zenon DEF TypeInv, Flags
  <2>3. QED BY <2>1, <2>2 DEF TypeOK
<1>2. QED BY PtsAccounted, <1>1, PTL

\* A write never fills an entry that the card has not taken, although flushes,
\* stops and starts move the pointer under it (em8300_video_write).
THEOREM EntriesAreNotOverwritten == Spec => []NoOverwrite
<1>1. PtsInv => NoOverwrite
  BY DEF PtsInv
<1>2. QED BY PtsAccounted, <1>1, PTL

\* The card is told the time the player set, halved once, by the ioctl for
\* subpictures, however often the write is tried, and by the write for video, unless
\* the time met a failed wait of a video write, a start, or a SETPTS or flush while it
\* was being posted (em8300_video_write, em8300_spu_write).
THEOREM TimesAreExact == Spec => []TimeExact
<1>1. PtsInv => TimeExact
  BY DEF PtsInv, TimeInv
<1>2. QED BY PtsAccounted, <1>1, PTL

\* The offset posted with a time counts the bytes accepted since the last reset, less
\* those of writes that returned an error after part of their bytes was accepted, unless
\* that reset came between a write's acceptance and its end (em8300_video_write).
THEOREM OffsetsAreExact == Spec => []OffsetExact
<1>1. PtsInv => OffsetExact
  <2> SUFFICES ASSUME TypeInv, OffsetInv, stream = "video", steady, pc = "idle"
               PROVE  offset + lost = accepted
    BY DEF PtsInv, OffsetExact
  <2>1. offset \in Nat /\ lost \in Nat /\ offset + lost + 0 = accepted
    BY DEF OffsetInv, TypeInv, Values
  <2>2. QED BY <2>1
<1>2. QED BY PtsAccounted, <1>1, PTL

\* The card takes the times in the order they were posted, as long as nobody
\* resets the pointer, and if the FIFO of subpictures, whose pointer is masked,
\* has a power of two of entries (em8300_spu_write).
THEOREM TimesComeInOrder ==
  ASSUME Masked
  PROVE  Spec => []InOrder
<1>1. PtsInv => InOrder
  BY DEF PtsInv, OrderInv, InOrder, Distance
<1>2. QED BY PtsAccounted, <1>1, PTL

===============================================================================
