-------------------------------- MODULE MCAudio --------------------------------
(***************************************************************************)
(* The audio path of a card and its interrupts, for TLC: Em8300AudioMode,    *)
(* Em8300Indirect and Em8300Irq side by side.  They share no variable, so    *)
(* what one of them does says nothing of the others, and a behaviour here    *)
(* is a behaviour of one of them.                                           *)
(***************************************************************************)
EXTENDS Integers, Sequences, FiniteSets

CONSTANTS Speeds, Lengths, BlockFrames, MaxSettings,       \* Em8300AudioMode
          Block, HwSize, SwSize, Slots, MaxUnits, MaxStarts, \* Em8300Indirect
          MaxChanges, MaxLoads                              \* Em8300Irq

VARIABLES part,  \* whose behaviour this is
  em, hw, status, opening, write, slot, reloaded, settings,
  rec, ring, card, total, failed, starts,
  irqmask, register, handler, at, loaded, open, irqcount, overlapped,
  disturbed, timedOut, count

Audio == INSTANCE Em8300AudioMode
Indirect == INSTANCE Em8300Indirect
Irq == INSTANCE Em8300Irq

ASSUME AudioConstants == Audio!AudioAssumption
ASSUME IndirectConstants == Indirect!IndirectAssumption
ASSUME IrqConstants == Irq!IrqAssumption

audioVars == <<em, hw, status, opening, write, slot, reloaded, settings>>
indirectVars == <<rec, ring, card, total, failed, starts>>
irqVars == <<irqmask, register, handler, at, loaded, open, irqcount, overlapped,
             disturbed, timedOut, count>>
vars == <<part, audioVars, indirectVars, irqVars>>

Init == part \in {"audio", "indirect", "irq"}
        /\ Audio!Init /\ Indirect!Init /\ Irq!Init

Next ==
  /\ UNCHANGED part
  /\ \/ part = "audio" /\ Audio!Next /\ UNCHANGED <<indirectVars, irqVars>>
     \/ part = "indirect" /\ Indirect!Next /\ UNCHANGED <<audioVars, irqVars>>
     \/ part = "irq" /\ Irq!Next /\ UNCHANGED <<audioVars, indirectVars>>

\* In the parts where no interrupt is ever enabled the fairness asks for nothing.
Spec == Init /\ [][Next]_vars /\ Irq!Fairness

-------------------------------------------------------------------------------
\* The format of the device, the clock generator and the FIFO agree while the
\* audio device is open (Em8300AudioMode).
AudioAgrees == Audio!AudioAgrees

\* What a write copies is converted once, by the format it began with or by one
\* set since (Em8300AudioMode).
SamplesKept == Audio!SamplesKept

\* The card is given the stream of an ALSA program in order (Em8300Indirect).
QueuedInOrder == Indirect!QueuedInOrder

\* Nothing the card has still to fetch is overwritten (Em8300Indirect).
NothingOverwritten == Indirect!NothingOverwritten

\* Between changes the mask is that of the started subdevices (Em8300Irq).
MaskFits == Irq!MaskFits

\* A VBI ioctl that waits in vain was disturbed (Em8300Irq).
VbiAnswered == Irq!VbiAnswered

\* The register catches up with the mask (Em8300Irq).
MaskCatchesUp == Irq!MaskCatchesUp
===============================================================================
