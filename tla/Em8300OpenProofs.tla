--------------------------- MODULE Em8300OpenProofs ---------------------------
(***************************************************************************)
(* Proofs about Em8300Open: the driver style arbitrates the audio part of a *)
(* card for any number of processes, and the ALSA close hands it over in an *)
(* order that no open can observe half way.                                 *)
(***************************************************************************)
EXTENDS Em8300Open, FiniteSetTheorems, TLAPS

\* The substream belongs to the process that has the ALSA stream open, or that
\* is closing it and has not given it up yet.
SubstreamInv ==
  /\ substream # NoOne =>
       /\ substream \in Procs
       /\ kind[substream] = "alsa"
       /\ pc[substream] \in {"open", "detach"}
  /\ "substream" \notin said

\* Only the steps of an open or a close that belong to its kind of device are
\* reached.
KindInv ==
  \A p \in Procs :
    /\ pc[p] = "inuse" => kind[p] = "dsp"
    /\ pc[p] \in {"substream", "detach"} => kind[p] = "alsa"
    /\ pc[p] = "claim" => kind[p] \in AudioKinds
    /\ pc[p] = "unclaim" => kind[p] \in AudioKinds
    /\ pc[p] \in {"free", "freeing"} => kind[p] \notin {"dsp", "alsa"}
    /\ pc[p] = "count" => kind[p] # "alsa"
    /\ pc[p] = "uncount" => kind[p] # "alsa"

OpenInv == TypeInv /\ KindInv /\ AudioExclusive /\ SubstreamInv

\* The invariant holds in every initial state.
LEMMA InitOpenInv == Init => OpenInv
<1> SUFFICES ASSUME Init PROVE OpenInv
  OBVIOUS
<1>1. TypeInv
  <2>1. inuse \in [Subdevices -> Int] /\ opens \in [Procs -> 0 .. MaxOpens]
    BY NoOneAssumption DEF Init
  <2>2. /\ style \in {"NONE", "OSS", "ALSA"} /\ ucode \in BOOLEAN
        /\ nonblock \in [Subdevices -> BOOLEAN]
        /\ kind \in [Procs -> Kinds] /\ flag \in [Procs -> BOOLEAN]
        /\ disobeyed \in BOOLEAN /\ overlap \in BOOLEAN /\ refreed \in BOOLEAN
    BY DEF Init
  <2>3. QED BY <2>1, <2>2 DEF Init, TypeInv
<1>2. KindInv
  BY DEF Init, KindInv
<1>3. AudioExclusive
  BY DEF Init, AudioExclusive, Claims
<1>4. SubstreamInv
  BY DEF Init, SubstreamInv
<1>5. QED BY <1>1, <1>2, <1>3, <1>4 DEF OpenInv

\* Counting up or down keeps the use counts integers.
LEMMA CountStep ==
  ASSUME NEW S, NEW f \in [S -> Int], NEW d, NEW n \in Int
  PROVE  [f EXCEPT ![d] = f[d] + n] \in [S -> Int]
<1>1. \A x \in S : f[x] + n \in Int
  OBVIOUS
<1>2. QED BY <1>1

\* Types are preserved.
LEMMA NextTypeInv == TypeInv /\ [Next]_vars => TypeInv'
<1> SUFFICES ASSUME TypeInv, [Next]_vars PROVE TypeInv'
  OBVIOUS
<1> USE DEF TypeInv, Goto, Begin, card, local, history, Subdevices, Overlap
<1>1. ASSUME NEW p \in Procs, NEW k \in Kinds \cap Subdevices,
             NEW nb \in BOOLEAN, IoOpen(p, k, nb)
      PROVE TypeInv'
  <2>1. CASE k # "control" /\ inuse[k] > 0
    BY <1>1, <2>1, NoOneAssumption DEF IoOpen
  <2>2. CASE ~(k # "control" /\ inuse[k] > 0)
    <3>1. /\ style' = style /\ ucode' = ucode /\ inuse' = inuse
          /\ substream' = substream /\ info' = info /\ live' = live
          /\ said' = said /\ disobeyed' = disobeyed /\ refreed' = refreed
          /\ memory' = {}
      BY <1>1, <2>2 DEF IoOpen
    <3>2. nonblock' \in [Subdevices -> BOOLEAN]
      BY <1>1, <2>2 DEF IoOpen
    <3>3. overlap' \in BOOLEAN
      BY <1>1, <2>2 DEF IoOpen
    <3>4. kind' \in [Procs -> Kinds] /\ flag' \in [Procs -> BOOLEAN]
      BY <1>1, <2>2 DEF IoOpen
    <3>5. /\ opens' \in [Procs -> 0 .. MaxOpens]
          /\ pc' \in [Procs -> {"idle", "claim", "inuse", "substream", "ucode",
                 "count", "open", "detach", "unclaim", "free", "freeing",
                 "uncount"}]
      BY <1>1, <2>2, NoOneAssumption DEF IoOpen
    <3>6. QED BY <3>1, <3>2, <3>3, <3>4, <3>5
  <2>3. QED BY <2>1, <2>2
<1>2. ASSUME NEW p \in Procs, "dsp" \in Kinds,
             NEW nb \in BOOLEAN, DspOpen(p, nb)
      PROVE TypeInv'
  BY <1>2, NoOneAssumption DEF DspOpen
<1>3. ASSUME NEW p \in Procs, "alsa" \in Kinds, AlsaOpen(p) PROVE TypeInv'
  BY <1>3, NoOneAssumption DEF AlsaOpen
<1>4. ASSUME NEW p \in Procs, Claim(p) PROVE TypeInv'
  BY <1>4 DEF Claim, StyleOf
<1>5. ASSUME NEW p \in Procs, DspCheck(p) PROVE TypeInv'
  BY <1>5 DEF DspCheck
<1>6. ASSUME NEW p \in Procs, AlsaCheck(p) PROVE TypeInv'
  BY <1>6 DEF AlsaCheck
<1>7. ASSUME NEW p \in Procs, Count(p) PROVE TypeInv'
  <2>1. inuse' \in [Subdevices -> Int]
    <3>1. inuse' = [inuse EXCEPT ![Sub(kind[p])] = inuse[Sub(kind[p])] + 1]
      BY <1>7 DEF Count
    <3>2. inuse \in [Subdevices -> Int] /\ 1 \in Int
      OBVIOUS
    <3>3. QED BY ONLY <3>1, <3>2, CountStep, Zenon
  <2>2. QED BY <1>7, <2>1 DEF Count
<1>8. ASSUME NEW p \in Procs, NEW ok \in BOOLEAN, RequireUcode(p, ok)
      PROVE TypeInv'
  BY <1>8 DEF RequireUcode
<1>9. ASSUME NEW p \in Procs, Using(p) PROVE TypeInv'
  <2>1. CASE Fcntl(p)
    BY <2>1 DEF Fcntl
  <2>2. CASE Write(p)
    BY <2>2 DEF Write
  <2>3. ASSUME NEW b \in Blocks, Mmap(p, b) PROVE TypeInv'
    BY <2>3 DEF Mmap
  <2>4. QED
    BY <1>9, <2>1, <2>2, <2>3 DEF Using
<1>10. ASSUME NEW p \in Procs, Close(p) \/ Detach(p) \/ Unclaim(p) \/ Uncount(p)
       PROVE TypeInv'
  <2>1. CASE Uncount(p)
    <3>1. inuse' \in [Subdevices -> Int]
      <4>1. inuse' =
              [inuse EXCEPT ![Sub(kind[p])] = inuse[Sub(kind[p])] + (-1)]
        BY <2>1 DEF Uncount
      <4>2. inuse \in [Subdevices -> Int] /\ -1 \in Int
        OBVIOUS
      <4>3. QED BY ONLY <4>1, <4>2, CountStep, Zenon
    <3>2. QED BY <2>1, <3>1 DEF Uncount
  <2>2. CASE Close(p)
    BY <2>2 DEF Close
  <2>3. CASE Detach(p)
    BY <2>3 DEF Detach
  <2>4. CASE Unclaim(p)
    BY <2>4 DEF Unclaim
  <2>5. QED BY <1>10, <2>1, <2>2, <2>3, <2>4
<1>11. ASSUME NEW p \in Procs, FreePick(p) PROVE TypeInv'
  <2>1. CASE memory = {}
    BY <1>11, <2>1 DEF FreePick
  <2>2. CASE memory # {}
    <3>1. PICK b \in memory :
            info' = [info EXCEPT ![p] = b] /\ pc' = [pc EXCEPT ![p] = "freeing"]
      BY <1>11, <2>2 DEF FreePick
    <3>2. QED BY <1>11, <2>2, <3>1 DEF FreePick, Overlap
  <2>3. QED BY <2>1, <2>2
<1>12. ASSUME NEW p \in Procs, FreeBlock(p) PROVE TypeInv'
  BY <1>12 DEF FreeBlock
<1>13. CASE UNCHANGED vars
  BY <1>13 DEF vars
<1>14. QED
  BY <1>1, <1>2, <1>3, <1>4, <1>5, <1>6, <1>7, <1>8, <1>9, <1>10, <1>11, <1>12,
     <1>13 DEF Next, Opening, Closing

\* Kinds of devices keep to their own steps.
LEMMA NextKindInv == TypeInv /\ KindInv /\ [Next]_vars => KindInv'
<1> SUFFICES ASSUME TypeInv, KindInv, [Next]_vars PROVE KindInv'
  OBVIOUS
<1> USE DEF TypeInv, KindInv, Goto, Begin, card, local, history, AudioKinds
<1>1. ASSUME NEW p \in Procs, NEW k \in Kinds \cap Subdevices,
             NEW nb \in BOOLEAN, IoOpen(p, k, nb)
      PROVE KindInv'
  BY <1>1 DEF IoOpen, Subdevices
<1>2. ASSUME NEW p \in Procs, NEW nb \in BOOLEAN, DspOpen(p, nb) \/ AlsaOpen(p)
      PROVE KindInv'
  BY <1>2 DEF DspOpen, AlsaOpen
<1>3. ASSUME NEW p \in Procs, Claim(p) \/ DspCheck(p) \/ AlsaCheck(p) \/ Count(p)
      PROVE KindInv'
  BY <1>3 DEF Claim, DspCheck, AlsaCheck, Count
<1>4. ASSUME NEW p \in Procs, NEW ok \in BOOLEAN, RequireUcode(p, ok)
      PROVE KindInv'
  BY <1>4 DEF RequireUcode
<1>5. ASSUME NEW p \in Procs, Using(p) PROVE KindInv'
  BY <1>5 DEF Using, Fcntl, Write, Mmap
<1>6. ASSUME NEW p \in Procs, Close(p) \/ Detach(p) \/ Unclaim(p) \/ Uncount(p)
      PROVE KindInv'
  BY <1>6 DEF Close, Detach, Unclaim, Uncount
<1>7. ASSUME NEW p \in Procs, FreePick(p) \/ FreeBlock(p) PROVE KindInv'
  BY <1>7 DEF FreePick, FreeBlock
<1>8. CASE UNCHANGED vars
  BY <1>8 DEF vars
<1>9. QED
  BY <1>1, <1>2, <1>3, <1>4, <1>5, <1>6, <1>7, <1>8 DEF Next, Opening, Closing

\* A step that changes neither the driver style nor who claims the card.
LEMMA SameClaims ==
  ASSUME AudioExclusive, style' = style,
         \A q \in Procs : Claims(q)' <=> Claims(q),
         \A q \in Procs : Claims(q) => kind'[q] = kind[q]
  PROVE  AudioExclusive'
BY DEF AudioExclusive

\* A step by which a claimant gives the card up.
LEMMA ClaimDropped ==
  ASSUME AudioExclusive, NEW p \in Procs, Claims(p), style' = "NONE", ~Claims(p)',
         \A q \in Procs \ {p} : Claims(q)' <=> Claims(q)
  PROVE  AudioExclusive'
<1>1. \A q \in Procs : ~Claims(q)'
  BY DEF AudioExclusive
<1>2. QED BY <1>1 DEF AudioExclusive

\* The driver style arbitrates.
LEMMA NextAudioExclusive ==
  TypeInv /\ KindInv /\ AudioExclusive /\ [Next]_vars => AudioExclusive'
<1> SUFFICES ASSUME TypeInv, KindInv, AudioExclusive, [Next]_vars
             PROVE  AudioExclusive'
  OBVIOUS
<1> USE DEF Goto, card, local, history
<1>1. ASSUME NEW p \in Procs, NEW k \in Kinds \cap Subdevices,
             NEW nb \in BOOLEAN, IoOpen(p, k, nb)
      PROVE AudioExclusive'
  <2>1. /\ style' = style
        /\ pc' = [pc EXCEPT ![p] = pc'[p]]
        /\ kind' = [kind EXCEPT ![p] = k]
        /\ pc[p] = "idle" /\ pc'[p] \in {"idle", "count", "claim", "ucode"}
        /\ pc'[p] = "count" => k = "control"
        /\ pc'[p] = "ucode" => k \notin {"audio", "dsp"}
    BY <1>1 DEF IoOpen, Begin, TypeInv, Subdevices
  <2>2. ~Claims(p) /\ ~Claims(p)'
    BY <2>1 DEF Claims, AudioKinds, TypeInv
  <2>3. \A q \in Procs \ {p} : (Claims(q)' <=> Claims(q)) /\ kind'[q] = kind[q]
    BY <2>1 DEF Claims, TypeInv
  <2>4. QED BY <2>1, <2>2, <2>3, SameClaims
<1>2. ASSUME NEW p \in Procs, NEW nb \in BOOLEAN, DspOpen(p, nb) \/ AlsaOpen(p)
      PROVE AudioExclusive'
  <2>1. /\ style' = style
        /\ pc' = [pc EXCEPT ![p] = pc'[p]]
        /\ kind' = [kind EXCEPT ![p] = kind'[p]]
        /\ pc[p] = "idle" /\ pc'[p] \in {"claim", "ucode"}
        /\ pc'[p] = "ucode" => kind'[p] = "alsa"
    BY <1>2 DEF DspOpen, AlsaOpen, Begin, TypeInv
  <2>2. ~Claims(p) /\ ~Claims(p)'
    BY <2>1 DEF Claims, AudioKinds, TypeInv
  <2>3. \A q \in Procs \ {p} : (Claims(q)' <=> Claims(q)) /\ kind'[q] = kind[q]
    BY <2>1 DEF Claims, TypeInv
  <2>4. QED BY <2>1, <2>2, <2>3, SameClaims
<1>3. ASSUME NEW p \in Procs, Claim(p) PROVE AudioExclusive'
  <2>1. ~Claims(p) /\ kind' = kind /\ kind[p] \in AudioKinds
    BY <1>3 DEF Claim, Claims, KindInv
  <2>2. \A q \in Procs \ {p} : Claims(q)' <=> Claims(q)
    BY <1>3 DEF Claim, Claims, TypeInv
  <2>3. CASE style # "NONE"
    <3>1. style' = style /\ ~Claims(p)'
      BY <1>3, <2>3 DEF Claim, Claims, TypeInv
    <3>2. QED BY <2>1, <2>2, <3>1, SameClaims
  <2>4. CASE style = "NONE"
    <3>1. style' = StyleOf(kind'[p])
      BY <1>3, <2>1, <2>4 DEF Claim
    <3>2. style' # "NONE"
      BY <3>1 DEF StyleOf
    <3>3. Claims(p)'
      BY <1>3, <2>1, <2>4 DEF Claim, Claims, TypeInv, AudioKinds
    <3>4. \A q \in Procs \ {p} : ~Claims(q)'
      BY <2>2, <2>4 DEF AudioExclusive
    <3>5. QED BY <3>1, <3>2, <3>3, <3>4 DEF AudioExclusive
  <2>5. QED BY <2>3, <2>4
<1>4. ASSUME NEW p \in Procs, DspCheck(p) PROVE AudioExclusive'
  <2>1. Claims(p) /\ kind' = kind /\ kind[p] = "dsp"
    BY <1>4 DEF DspCheck, Claims, KindInv, AudioKinds
  <2>2. \A q \in Procs \ {p} : Claims(q)' <=> Claims(q)
    BY <1>4 DEF DspCheck, Claims, TypeInv
  <2>3. CASE inuse["audio"] > 0
    <3>1. style' = "NONE" /\ ~Claims(p)'
      BY <1>4, <2>1, <2>3 DEF DspCheck, Claims, TypeInv
    <3>2. QED BY <2>1, <2>2, <3>1, ClaimDropped
  <2>4. CASE ~(inuse["audio"] > 0)
    <3>1. style' = style /\ Claims(p)'
      BY <1>4, <2>1, <2>4 DEF DspCheck, Claims, TypeInv, AudioKinds
    <3>2. QED BY <2>1, <2>2, <3>1, SameClaims
  <2>5. QED BY <2>3, <2>4
<1>5. ASSUME NEW p \in Procs, AlsaCheck(p) PROVE AudioExclusive'
  <2>1. Claims(p) /\ kind' = kind /\ kind[p] = "alsa"
    BY <1>5 DEF AlsaCheck, Claims, KindInv, AudioKinds
  <2>2. \A q \in Procs \ {p} : Claims(q)' <=> Claims(q)
    BY <1>5 DEF AlsaCheck, Claims, TypeInv
  <2>3. CASE substream # NoOne
    <3>1. style' = "NONE" /\ ~Claims(p)'
      BY <1>5, <2>1, <2>3 DEF AlsaCheck, Claims, TypeInv
    <3>2. QED BY <2>1, <2>2, <3>1, ClaimDropped
  <2>4. CASE substream = NoOne
    <3>1. style' = style /\ Claims(p)'
      BY <1>5, <2>1, <2>4 DEF AlsaCheck, Claims, TypeInv, AudioKinds
    <3>2. QED BY <2>1, <2>2, <3>1, SameClaims
  <2>5. QED BY <2>3, <2>4
<1>6. ASSUME NEW p \in Procs, Count(p) PROVE AudioExclusive'
  <2>1. style' = style /\ kind' = kind
    BY <1>6 DEF Count
  <2>2. \A q \in Procs : Claims(q)' <=> Claims(q)
    BY <1>6 DEF Count, Claims, TypeInv
  <2>3. QED BY <2>1, <2>2, SameClaims
<1>7. ASSUME NEW p \in Procs, NEW ok \in BOOLEAN, RequireUcode(p, ok)
      PROVE AudioExclusive'
  <2>1. kind' = kind /\ pc[p] = "ucode"
    BY <1>7 DEF RequireUcode
  <2>2. \A q \in Procs \ {p} : Claims(q)' <=> Claims(q)
    BY <1>7 DEF RequireUcode, Claims, TypeInv
  <2>3. CASE kind[p] \in {"audio", "dsp"} /\ ~ucode'
    <3>1. Claims(p)
      BY <2>1, <2>3 DEF Claims, AudioKinds
    <3>2. style' = "NONE" /\ ~Claims(p)'
      BY <1>7, <2>1, <2>3 DEF RequireUcode, Claims, TypeInv
    <3>3. QED BY <2>2, <3>1, <3>2, ClaimDropped
  <2>4. CASE ~(kind[p] \in {"audio", "dsp"} /\ ~ucode')
    <3>1. style' = style
      BY <1>7, <2>4 DEF RequireUcode
    <3>2. Claims(p)' <=> Claims(p)
      BY <1>7, <2>1, <2>4 DEF RequireUcode, Claims, TypeInv, AudioKinds
    <3>3. QED BY <2>1, <2>2, <3>1, <3>2, SameClaims
  <2>5. QED BY <2>3, <2>4
<1>8. ASSUME NEW p \in Procs,
             Using(p) \/ FreePick(p) \/ FreeBlock(p) \/ Uncount(p)
      PROVE AudioExclusive'
  <2>1. style' = style /\ kind' = kind
    BY <1>8 DEF Using, Fcntl, Write, Mmap, FreePick, FreeBlock, Uncount
  <2>2. \A q \in Procs \ {p} : Claims(q)' <=> Claims(q)
    BY <1>8 DEF Using, Fcntl, Write, Mmap, FreePick, FreeBlock, Uncount, Claims,
                TypeInv
  <2>3. Claims(p)' <=> Claims(p)
    BY <1>8 DEF Using, Fcntl, Write, Mmap, FreePick, FreeBlock, Uncount, Claims,
                TypeInv
  <2>4. QED BY <2>1, <2>2, <2>3, SameClaims
<1>9. ASSUME NEW p \in Procs, Close(p) \/ Detach(p) PROVE AudioExclusive'
  <2>1. style' = style /\ kind' = kind
    BY <1>9 DEF Close, Detach
  <2>2. \A q \in Procs \ {p} : Claims(q)' <=> Claims(q)
    BY <1>9 DEF Close, Detach, Claims, TypeInv
  <2>3. Claims(p)' <=> Claims(p)
    BY <1>9 DEF Close, Detach, Claims, TypeInv, AudioKinds
  <2>4. QED BY <2>1, <2>2, <2>3, SameClaims
<1>10. ASSUME NEW p \in Procs, Unclaim(p) PROVE AudioExclusive'
  <2>1. Claims(p) /\ style' = "NONE" /\ ~Claims(p)'
    BY <1>10 DEF Unclaim, Claims, KindInv, TypeInv
  <2>2. \A q \in Procs \ {p} : Claims(q)' <=> Claims(q)
    BY <1>10 DEF Unclaim, Claims, TypeInv
  <2>3. QED BY <2>1, <2>2, ClaimDropped
<1>11. CASE UNCHANGED vars
  BY <1>11, SameClaims DEF vars, Claims
<1>12. QED
  BY <1>1, <1>2, <1>3, <1>4, <1>5, <1>6, <1>7, <1>8, <1>9, <1>10, <1>11
  DEF Next, Opening, Closing

\* The substream is given up before the claim.
LEMMA NextSubstreamInv == OpenInv /\ [Next]_vars => SubstreamInv'
<1> SUFFICES ASSUME OpenInv, [Next]_vars PROVE SubstreamInv'
  OBVIOUS
<1> USE DEF Goto, card, local, history, OpenInv, TypeInv, KindInv, SubstreamInv
<1>1. ASSUME NEW p \in Procs,
             \/ \E k \in Kinds \cap Subdevices, nb \in BOOLEAN : IoOpen(p, k, nb)
             \/ \E nb \in BOOLEAN : DspOpen(p, nb)
             \/ AlsaOpen(p)
      PROVE SubstreamInv'
  <2>1. pc[p] = "idle" /\ substream' = substream /\ said' = said
    BY <1>1 DEF IoOpen, DspOpen, AlsaOpen, Begin
  <2>2. \A q \in Procs \ {p} : pc'[q] = pc[q] /\ kind'[q] = kind[q]
    BY <1>1 DEF IoOpen, DspOpen, AlsaOpen, Begin
  <2>3. QED BY <2>1, <2>2
<1>2. ASSUME NEW p \in Procs, Claim(p) \/ Count(p) \/ FreePick(p) \/ FreeBlock(p)
                              \/ Uncount(p) \/ Unclaim(p)
      PROVE SubstreamInv'
  <2>1. /\ pc[p] \notin {"open", "detach"}
        /\ substream' = substream /\ said' = said /\ kind' = kind
        /\ \A q \in Procs \ {p} : pc'[q] = pc[q]
    BY <1>2 DEF Claim, Count, FreePick, FreeBlock, Uncount, Unclaim
  <2>2. QED BY <2>1
<1>3. ASSUME NEW p \in Procs, DspCheck(p) PROVE SubstreamInv'
  BY <1>3 DEF DspCheck
<1>4. ASSUME NEW p \in Procs, AlsaCheck(p) PROVE SubstreamInv'
  <2>1. Claims(p)
    BY <1>4 DEF AlsaCheck, Claims, AudioKinds
  <2>2. substream = NoOne
    <3>1. substream # NoOne => Claims(substream) /\ substream # p
      BY <1>4 DEF AlsaCheck, Claims, AudioKinds
    <3>2. QED BY <2>1, <3>1 DEF AudioExclusive
  <2>3. QED BY <1>4, <2>2 DEF AlsaCheck
<1>5. ASSUME NEW p \in Procs, NEW ok \in BOOLEAN, RequireUcode(p, ok)
      PROVE SubstreamInv'
  BY <1>5 DEF RequireUcode
<1>6. ASSUME NEW p \in Procs, Using(p) PROVE SubstreamInv'
  <2>1. pc' = pc /\ kind' = kind /\ substream' = substream /\ said' = said
    BY <1>6 DEF Using, Fcntl, Write, Mmap
  <2>2. QED BY <2>1
<1>7. ASSUME NEW p \in Procs, Close(p) PROVE SubstreamInv'
  BY <1>7 DEF Close
<1>8. ASSUME NEW p \in Procs, Detach(p) PROVE SubstreamInv'
  <2>1. substream' = NoOne /\ said' = said
    BY <1>8 DEF Detach
  <2>2. "substream" \notin said
    OBVIOUS
  <2>3. QED BY ONLY <2>1, <2>2 DEF SubstreamInv
<1>9. CASE UNCHANGED vars
  BY <1>9 DEF vars
<1>10. QED
  BY <1>1, <1>2, <1>3, <1>4, <1>5, <1>6, <1>7, <1>8, <1>9
  DEF Next, Opening, Closing

\* The inductive invariant of Em8300Open, for every set of processes.
THEOREM OpenInvHolds == Spec => []OpenInv
<1>1. OpenInv /\ [Next]_vars => OpenInv'
  BY NextTypeInv, NextKindInv, NextAudioExclusive, NextSubstreamInv DEF OpenInv
<1>2. QED BY InitOpenInv, <1>1, PTL DEF Spec

\* Whatever processes open and close the three audio devices, at most one has
\* the audio part of the card, and the driver style says which
\* (em->audio_driver_style).
THEOREM AudioHasOneUser == Spec => []AudioExclusive
<1>1. OpenInv => AudioExclusive
  BY DEF OpenInv
<1>2. QED BY <1>1, OpenInvHolds, PTL

\* snd_em8300_playback_open never prints that the driver style is NONE but the
\* substream is not NULL.
THEOREM SubstreamIsFree == Spec => []NoStaleSubstream
<1>1. OpenInv => NoStaleSubstream
  BY DEF OpenInv, SubstreamInv, NoStaleSubstream
<1>2. QED BY <1>1, OpenInvHolds, PTL

-------------------------------------------------------------------------------
(* The use counts. *)

\* The processes whose open em->inuse[d] counts: an open has counted itself and
\* its release has not taken the count back.  The ALSA stream is not counted.
Holders(d) ==
  {p \in Procs : /\ kind[p] # "alsa" /\ Sub(kind[p]) = d
                 /\ pc[p] \in {"open", "unclaim", "free", "freeing", "uncount"}}

\* Every use count is the number of the opens that hold the device.
CountsInv ==
  /\ inuse \in [Subdevices -> Int]
  /\ \A d \in Subdevices :
       IsFiniteSet(Holders(d)) /\ inuse[d] = Cardinality(Holders(d))

\* A step by which the holders of no device change.
LEMMA SameHolders ==
  ASSUME CountsInv, inuse' = inuse,
         \A d \in Subdevices : Holders(d)' = Holders(d)
  PROVE  CountsInv'
BY DEF CountsInv

\* A step of a process that holds no device before or after it, unless it holds
\* the same one.
LEMMA SameHolder ==
  ASSUME TypeInv, CountsInv, inuse' = inuse, NEW p \in Procs,
         \A q \in Procs \ {p} : pc'[q] = pc[q] /\ kind'[q] = kind[q],
         \A d \in Subdevices : p \in Holders(d)' <=> p \in Holders(d)
  PROVE  CountsInv'
<1>1. \A d \in Subdevices : Holders(d)' = Holders(d)
  <2> SUFFICES ASSUME NEW d \in Subdevices, NEW q \in Procs
               PROVE  q \in Holders(d)' <=> q \in Holders(d)
    BY DEF Holders
  <2>1. CASE q = p
    BY <2>1
  <2>2. CASE q # p
    BY <2>2 DEF Holders
  <2>3. QED BY <2>1, <2>2
<1>2. QED BY <1>1, SameHolders

\* Every action keeps the use counts true.
LEMMA NextCountsInv == TypeInv /\ KindInv /\ CountsInv /\ [Next]_vars => CountsInv'
<1> SUFFICES ASSUME TypeInv, KindInv, CountsInv, [Next]_vars PROVE CountsInv'
  OBVIOUS
<1> USE DEF Goto, card, local, history
<1>1. ASSUME NEW p \in Procs,
             \/ \E k \in Kinds \cap Subdevices, nb \in BOOLEAN : IoOpen(p, k, nb)
             \/ \E nb \in BOOLEAN : DspOpen(p, nb)
             \/ AlsaOpen(p)
      PROVE CountsInv'
  <2>1. pc[p] = "idle" /\ inuse' = inuse
    BY <1>1 DEF IoOpen, DspOpen, AlsaOpen, Begin
  <2>2. pc'[p] \in {"idle", "count", "claim", "ucode"}
    BY <1>1 DEF IoOpen, DspOpen, AlsaOpen, Begin, TypeInv
  <2>3. \A q \in Procs \ {p} : pc'[q] = pc[q] /\ kind'[q] = kind[q]
    BY <1>1 DEF IoOpen, DspOpen, AlsaOpen, Begin, TypeInv
  <2>4. \A d \in Subdevices : p \notin Holders(d) /\ p \notin Holders(d)'
    BY <2>1, <2>2 DEF Holders
  <2>5. QED BY <2>1, <2>3, <2>4, SameHolder
<1>2. ASSUME NEW p \in Procs, Claim(p) \/ DspCheck(p)
      PROVE CountsInv'
  <2>1. pc[p] \in {"claim", "inuse"} /\ inuse' = inuse /\ kind' = kind
    BY <1>2 DEF Claim, DspCheck
  <2>2. pc'[p] \in {"idle", "ucode", "inuse", "substream"}
    BY <1>2 DEF Claim, DspCheck, TypeInv
  <2>3. \A q \in Procs \ {p} : pc'[q] = pc[q]
    BY <1>2 DEF Claim, DspCheck, TypeInv
  <2>4. \A d \in Subdevices : p \notin Holders(d) /\ p \notin Holders(d)'
    BY <2>1, <2>2 DEF Holders
  <2>5. QED BY <2>1, <2>3, <2>4, SameHolder
<1>3. ASSUME NEW p \in Procs, AlsaCheck(p) \/ Detach(p) PROVE CountsInv'
  <2>1. kind[p] = "alsa" /\ inuse' = inuse /\ kind' = kind
    BY <1>3 DEF AlsaCheck, Detach, KindInv
  <2>2. \A q \in Procs \ {p} : pc'[q] = pc[q]
    BY <1>3 DEF AlsaCheck, Detach, TypeInv
  <2>3. \A d \in Subdevices : p \notin Holders(d) /\ p \notin Holders(d)'
    BY <2>1 DEF Holders
  <2>4. QED BY <2>1, <2>2, <2>3, SameHolder
<1>4. ASSUME NEW p \in Procs, NEW ok \in BOOLEAN, RequireUcode(p, ok)
      PROVE CountsInv'
  <2>1. pc[p] = "ucode" /\ inuse' = inuse /\ kind' = kind
        /\ pc'[p] \in {"idle", "claim", "count"}
    BY <1>4 DEF RequireUcode, TypeInv
  <2>2. \A q \in Procs \ {p} : pc'[q] = pc[q]
    BY <1>4 DEF RequireUcode, TypeInv
  <2>3. \A d \in Subdevices : p \notin Holders(d) /\ p \notin Holders(d)'
    BY <2>1 DEF Holders
  <2>4. QED BY <2>1, <2>2, <2>3, SameHolder
<1>5. ASSUME NEW p \in Procs, Count(p) PROVE CountsInv'
  <2> DEFINE D == Sub(kind[p])
  <2>1. /\ pc[p] = "count" /\ kind[p] # "alsa" /\ kind' = kind
        /\ inuse' = [inuse EXCEPT ![D] = inuse[D] + 1]
        /\ pc' = [pc EXCEPT ![p] = "open"]
    BY <1>5 DEF Count, KindInv
  <2>2. inuse' \in [Subdevices -> Int]
    BY <2>1, CountStep, 1 \in Int, Zenon DEF CountsInv
  <2>3. ASSUME NEW d \in Subdevices
        PROVE  IsFiniteSet(Holders(d)') /\ inuse'[d] = Cardinality(Holders(d)')
    <3>1. p \notin Holders(d) /\ IsFiniteSet(Holders(d))
          /\ inuse[d] = Cardinality(Holders(d)) /\ inuse[d] \in Int
      BY <2>1 DEF Holders, CountsInv
    <3>2. CASE d = D
      <4>1. Holders(d)' = Holders(d) \cup {p}
        BY <2>1, <3>2 DEF Holders, TypeInv
      <4>2. inuse'[d] = inuse[d] + 1
        BY <2>1, <3>2 DEF CountsInv
      <4>3. QED BY <3>1, <4>1, <4>2, FS_AddElement
    <3>3. CASE d # D
      <4>1. Holders(d)' = Holders(d)
        BY <2>1, <3>3 DEF Holders, TypeInv
      <4>2. inuse'[d] = inuse[d]
        BY <2>1, <3>3 DEF CountsInv
      <4>3. QED BY <3>1, <4>1, <4>2
    <3>4. QED BY <3>2, <3>3
  <2>4. QED BY <2>2, <2>3 DEF CountsInv
<1>6. ASSUME NEW p \in Procs, Using(p) PROVE CountsInv'
  <2>1. pc' = pc /\ kind' = kind /\ inuse' = inuse
    BY <1>6 DEF Using, Fcntl, Write, Mmap
  <2>2. QED BY <2>1, SameHolders DEF Holders
<1>7. ASSUME NEW p \in Procs,
             Close(p) \/ Unclaim(p) \/ FreePick(p) \/ FreeBlock(p)
      PROVE CountsInv'
  <2>1. kind' = kind /\ inuse' = inuse
    BY <1>7 DEF Close, Unclaim, FreePick, FreeBlock
  <2>2. \A q \in Procs \ {p} : pc'[q] = pc[q]
    BY <1>7 DEF Close, Unclaim, FreePick, FreeBlock, TypeInv
  <2>3. kind[p] # "alsa" =>
          {pc[p], pc'[p]} \subseteq {"open", "unclaim", "free", "freeing", "uncount"}
    BY <1>7 DEF Close, Unclaim, FreePick, FreeBlock, TypeInv, KindInv, AudioKinds
  <2>4. \A d \in Subdevices : p \in Holders(d)' <=> p \in Holders(d)
    BY <2>1, <2>3 DEF Holders
  <2>5. QED BY <2>1, <2>2, <2>4, SameHolder
<1>8. ASSUME NEW p \in Procs, Uncount(p) PROVE CountsInv'
  <2> DEFINE D == Sub(kind[p])
  <2>1. /\ pc[p] = "uncount" /\ kind[p] # "alsa" /\ kind' = kind
        /\ inuse' = [inuse EXCEPT ![D] = inuse[D] + (-1)]
        /\ pc' = [pc EXCEPT ![p] = "idle"]
    BY <1>8 DEF Uncount, KindInv, CountsInv
  <2>2. inuse' \in [Subdevices -> Int]
    BY <2>1, CountStep, -1 \in Int, Zenon DEF CountsInv
  <2>3. ASSUME NEW d \in Subdevices
        PROVE  IsFiniteSet(Holders(d)') /\ inuse'[d] = Cardinality(Holders(d)')
    <3>1. IsFiniteSet(Holders(d)) /\ inuse[d] = Cardinality(Holders(d))
          /\ inuse[d] \in Int
      BY DEF CountsInv
    <3>2. CASE d = D
      <4>1. Holders(d)' = Holders(d) \ {p} /\ p \in Holders(d)
        BY <2>1, <3>2 DEF Holders, TypeInv
      <4>2. inuse'[d] = inuse[d] - 1
        BY <2>1, <3>1, <3>2 DEF CountsInv
      <4>3. QED BY <3>1, <4>1, <4>2, FS_RemoveElement
    <3>3. CASE d # D
      <4>1. Holders(d)' = Holders(d)
        BY <2>1, <3>3 DEF Holders, TypeInv
      <4>2. inuse'[d] = inuse[d]
        BY <2>1, <3>3 DEF CountsInv
      <4>3. QED BY <3>1, <4>1, <4>2
    <3>4. QED BY <3>2, <3>3
  <2>4. QED BY <2>2, <2>3 DEF CountsInv
<1>9. CASE UNCHANGED vars
  BY <1>9, SameHolders DEF vars, Holders
<1>10. QED
  BY <1>1, <1>2, <1>3, <1>4, <1>5, <1>6, <1>7, <1>8, <1>9
  DEF Next, Opening, Closing

\* em->inuse counts the opens of each device exactly, for every set of processes
\* and every interleaving of their opens and releases.
THEOREM CountsAreExact == Spec => []CountsInv
<1>1. Init => CountsInv
  <2> SUFFICES ASSUME Init PROVE CountsInv
    OBVIOUS
  <2>1. inuse \in [Subdevices -> Int] /\ \A d \in Subdevices : inuse[d] = 0
    BY DEF Init
  <2>2. \A d \in Subdevices : Holders(d) = {}
    BY DEF Init, Holders
  <2>3. QED BY <2>1, <2>2, FS_EmptySet DEF CountsInv
<1>2. OpenInv /\ CountsInv /\ [Next]_vars => CountsInv'
  BY NextCountsInv DEF OpenInv
<1>3. QED BY <1>1, <1>2, OpenInvHolds, PTL DEF Spec

\* The state of a card and of the processes that use it keeps its types, and no
\* release takes back a count that no open has made (em->inuse).
THEOREM TypeCorrect == Spec => []TypeOK
<1>1. OpenInv /\ CountsInv => TypeOK
  <2> SUFFICES ASSUME TypeInv, CountsInv, NEW d \in Subdevices PROVE inuse[d] >= 0
    BY DEF OpenInv, TypeOK
  <2>1. Cardinality(Holders(d)) \in Nat
    BY FS_CardinalityType DEF CountsInv
  <2>2. QED BY <2>1 DEF CountsInv
<1>2. QED BY <1>1, OpenInvHolds, CountsAreExact, PTL

-------------------------------------------------------------------------------
(* The list of the mapped blocks. *)

\* As long as nobody has changed the list under a release that walks it, what is
\* on the list is allocated, one release at a time is about to free a block, and
\* that block is on the list.
ListInv ==
  ~overlap =>
    /\ ~refreed
    /\ memory \subseteq live
    /\ \A p \in Procs : pc[p] = "freeing" => info[p] \in memory
    /\ \A p, q \in Procs : pc[p] = "freeing" /\ pc[q] = "freeing" => p = q

\* A step that leaves the list alone.
LEMMA SameList ==
  ASSUME TypeInv, ListInv, overlap' = overlap, refreed' = refreed,
         memory' = memory, live' = live, info' = info,
         \A q \in Procs : pc'[q] = "freeing" => pc[q] = "freeing"
  PROVE  ListInv'
BY DEF ListInv

\* Every action keeps the list and the memory behind it together.
LEMMA NextListInv == TypeInv /\ ListInv /\ [Next]_vars => ListInv'
<1> SUFFICES ASSUME TypeInv, ListInv, [Next]_vars PROVE ListInv'
  OBVIOUS
<1> USE DEF Goto, card, local, history
<1>1. ASSUME NEW p \in Procs, NEW k \in Kinds, NEW nb \in BOOLEAN, IoOpen(p, k, nb)
      PROVE ListInv'
  <2>1. CASE k # "control" /\ inuse[k] > 0
    BY <1>1, <2>1, SameList DEF IoOpen
  <2>2. CASE ~(k # "control" /\ inuse[k] > 0)
    <3>1. /\ memory' = {} /\ live' = live /\ refreed' = refreed /\ Overlap
          /\ \A q \in Procs : pc'[q] = "freeing" => pc[q] = "freeing"
      BY <1>1, <2>2 DEF IoOpen, TypeInv
    <3>2. QED BY <3>1 DEF ListInv, Overlap, TypeInv
  <2>3. QED BY <2>1, <2>2
<1>2. ASSUME NEW p \in Procs, NEW nb \in BOOLEAN,
             \/ DspOpen(p, nb) \/ AlsaOpen(p)
             \/ Claim(p) \/ DspCheck(p) \/ AlsaCheck(p) \/ Count(p)
      PROVE ListInv'
  <2>1. \A q \in Procs : pc'[q] = "freeing" => pc[q] = "freeing"
    BY <1>2 DEF DspOpen, AlsaOpen, Claim, DspCheck, AlsaCheck, Count, TypeInv
  <2>2. QED BY <1>2, <2>1, SameList
            DEF DspOpen, AlsaOpen, Claim, DspCheck, AlsaCheck, Count
<1>3. ASSUME NEW p \in Procs, NEW ok \in BOOLEAN, RequireUcode(p, ok) PROVE ListInv'
  <2>1. \A q \in Procs : pc'[q] = "freeing" => pc[q] = "freeing"
    BY <1>3 DEF RequireUcode, TypeInv
  <2>2. QED BY <1>3, <2>1, SameList DEF RequireUcode
<1>4. ASSUME NEW p \in Procs, Fcntl(p) \/ Write(p) PROVE ListInv'
  BY <1>4, SameList DEF Fcntl, Write
<1>5. ASSUME NEW p \in Procs, NEW b \in Blocks, Mmap(p, b) PROVE ListInv'
  BY <1>5 DEF Mmap, ListInv, Overlap, TypeInv
<1>6. ASSUME NEW p \in Procs, Close(p) \/ Detach(p) \/ Unclaim(p) \/ Uncount(p)
      PROVE ListInv'
  <2>1. \A q \in Procs : pc'[q] = "freeing" => pc[q] = "freeing"
    BY <1>6 DEF Close, Detach, Unclaim, Uncount, TypeInv
  <2>2. QED BY <1>6, <2>1, SameList DEF Close, Detach, Unclaim, Uncount
<1>7. ASSUME NEW p \in Procs, FreePick(p) PROVE ListInv'
  <2>1. CASE memory = {}
    <3>1. \A q \in Procs : pc'[q] = "freeing" => pc[q] = "freeing"
      BY <1>7, <2>1 DEF FreePick, TypeInv
    <3>2. QED BY <1>7, <2>1, <3>1, SameList DEF FreePick
  <2>2. CASE memory # {}
    <3>1. PICK b \in memory : info' = [info EXCEPT ![p] = b]
      BY <1>7, <2>2 DEF FreePick
    <3>2. /\ memory' = memory /\ live' = live /\ refreed' = refreed /\ Overlap
          /\ pc' = [pc EXCEPT ![p] = "freeing"]
      BY <1>7, <2>2 DEF FreePick
    <3>3. QED BY <3>1, <3>2 DEF ListInv, Overlap, TypeInv
  <2>3. QED BY <2>1, <2>2
<1>8. ASSUME NEW p \in Procs, FreeBlock(p) PROVE ListInv'
  BY <1>8 DEF FreeBlock, ListInv, TypeInv
<1>9. CASE UNCHANGED vars
  BY <1>9, SameList DEF vars
<1>10. QED
  BY <1>1, <1>2, <1>3, <1>4, <1>5, <1>6, <1>7, <1>8, <1>9
  DEF Next, Opening, Closing, Using

\* Unless a process changes the list while another walks it, no block that mmap
\* has handed out is freed twice, whatever processes open, map and close
\* (em8300_io_open, em8300_io_mmap, em8300_io_release).
THEOREM BlocksAreFreedOnce == Spec => []FreedOnce
<1>1. Init => ListInv
  BY DEF Init, ListInv
<1>2. OpenInv /\ ListInv /\ [Next]_vars => ListInv'
  BY NextListInv DEF OpenInv
<1>3. ListInv => FreedOnce
  BY DEF ListInv, FreedOnce
<1>4. QED BY <1>1, <1>2, <1>3, OpenInvHolds, PTL DEF Spec
===============================================================================
