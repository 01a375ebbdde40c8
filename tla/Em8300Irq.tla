------------------------------- MODULE Em8300Irq -------------------------------
(***************************************************************************)
(* The interrupt mask: em->irqmask, which every subdevice changes without a *)
(* lock, the register Q_IrqMask, and the interrupt handler, which clears    *)
(* the register while it works and writes the mask back (em8300_main.c).    *)
(*                                                                          *)
(* A change of the mask is a load, a store, a load for the register and the *)
(* store of the register; the handler's last load and store are two steps   *)
(* too.  The processes and the handler are on processors of their own.      *)
(***************************************************************************)
EXTENDS Integers, FiniteSets

CONSTANTS
  MaxChanges,  \* bound on the changes of the mask
  MaxLoads     \* bound on the microcode being loaded again

\* What the constants must satisfy.
IrqAssumption == MaxChanges \in Nat /\ MaxLoads \in Nat

VARIABLES
  irqmask,    \* em->irqmask
  register,   \* Q_IrqMask
  handler,    \* the handler: where it is, the causes it serves, what it loaded
  at,         \* where each process is
  loaded,     \* what each process has loaded and not yet written
  open,       \* the processes whose subdevice is started
  irqcount,   \* em->irqcount is not old_count, as the VBI ioctl compares them
  overlapped, \* two changes of the mask have overlapped
  disturbed,  \* the VBI ioctl's bit may have been lost since it was set
  timedOut,   \* the last VBI ioctl returned without a blanking interrupt
  count       \* changes and loads made

vars == <<irqmask, register, handler, at, loaded, open, irqcount, overlapped,
          disturbed, timedOut, count>>

\* A player that opens and releases the video device, one that starts and stops
\* the audio FIFO (through either driver), and a caller of the VBI ioctl.
Procs == {"video", "audio", "vbi"}

VBL == "VIDEO_VBL"
Bits(p) == CASE p = "video" -> {"VIDEO_FIFO", VBL}
             [] p = "audio" -> {"AUDIO_FIFO"}
             [] p = "vbi"   -> {VBL}

\* The processes in the middle of a change.
Between == {p \in Procs : at[p] # "idle" /\ at[p] # "wait"}

-------------------------------------------------------------------------------
(* The handler. *)

\* An interrupt for a set of enabled causes: the register is cleared.
em8300_irq(causes) ==
  /\ handler.at = "idle" /\ causes # {} /\ causes \subseteq register
  /\ handler' = [at |-> "serve", causes |-> causes, value |-> {}]
  /\ register' = {}
  /\ UNCHANGED <<irqmask, at, loaded, open, irqcount, overlapped, disturbed,
                 timedOut, count>>

\* Variant: the handler writes back the causes it has just served.
ServeRestoring ==
  /\ handler.at = "serve"
  /\ irqcount' = (irqcount \/ VBL \in handler.causes)
  /\ handler' = [handler EXCEPT !.at = "restore", !.value = handler.causes]
  /\ UNCHANGED <<irqmask, register, at, loaded, open, overlapped, disturbed,
                 timedOut, count>>

\* The causes are served, which for a blanking counts it, and the mask is loaded.
Serve ==
  /\ handler.at = "serve"
  /\ irqcount' = (irqcount \/ VBL \in handler.causes)
  /\ handler' = [handler EXCEPT !.at = "restore", !.value = irqmask]
  /\ UNCHANGED <<irqmask, register, at, loaded, open, overlapped, disturbed,
                 timedOut, count>>

Restore ==
  /\ handler.at = "restore"
  /\ register' = handler.value
  /\ handler' = [at |-> "idle", causes |-> {}, value |-> {}]
  /\ UNCHANGED <<irqmask, at, loaded, open, irqcount, overlapped, disturbed,
                 timedOut, count>>

-------------------------------------------------------------------------------
(* The changes of the mask. *)

\* Variant: a stop clears the mask of every subdevice.
ChangedClearsAll(p) == IF p \in open THEN {} ELSE irqmask \cup Bits(p)

\* What a start of p's subdevice, or a stop, makes of the mask.
Changed(p) == IF p \in open THEN irqmask \ Bits(p) ELSE irqmask \cup Bits(p)

\* Process p begins to change the mask: audio_start and audio_stop,
\* em8300_video_open and em8300_video_release, the VBI ioctl.  A caller of VBI has
\* stored old_count; its bit is safe if no one else is at work.
Begin(p) ==
  /\ at[p] = "idle" /\ count.changes < MaxChanges
  /\ at' = [at EXCEPT ![p] = "store"]
  /\ loaded' = [loaded EXCEPT ![p] = Changed(p)]
  /\ overlapped' = (overlapped \/ Between # {})
  /\ irqcount' = IF p = "vbi" THEN FALSE ELSE irqcount
  /\ timedOut' = IF p = "vbi" THEN FALSE ELSE timedOut
  /\ disturbed' =
       IF p = "vbi" THEN Between # {} \/ handler.at = "restore"
       ELSE \/ disturbed
            \/ at["vbi"] \in {"store", "load", "write"}
            \/ p = "video" /\ p \in open
  /\ count' = [count EXCEPT !.changes = @ + 1]
  /\ UNCHANGED <<irqmask, register, handler, open>>

Store(p) ==
  /\ at[p] = "store"
  /\ irqmask' = loaded[p]
  /\ open' = IF p = "vbi" THEN open
             ELSE IF p \in open THEN open \ {p} ELSE open \cup {p}
  /\ at' = [at EXCEPT ![p] = "load"]
  /\ disturbed' = (disturbed \/ (p = "vbi" /\ handler.at = "restore"))
  /\ UNCHANGED <<register, handler, loaded, irqcount, overlapped, timedOut, count>>

Load(p) ==
  /\ at[p] = "load"
  /\ loaded' = [loaded EXCEPT ![p] = irqmask]
  /\ at' = [at EXCEPT ![p] = "write"]
  /\ UNCHANGED <<irqmask, register, handler, open, irqcount, overlapped, disturbed,
                 timedOut, count>>

\* Variant: the mask is stored and the register left as it is.
WriteNever(p) ==
  /\ at[p] = "write"
  /\ at' = [at EXCEPT ![p] = IF p = "vbi" THEN "wait" ELSE "idle"]
  /\ UNCHANGED <<irqmask, register, handler, loaded, open, irqcount, overlapped,
                 disturbed, timedOut, count>>

Write(p) ==
  /\ at[p] = "write"
  /\ register' = loaded[p]
  /\ loaded' = [loaded EXCEPT ![p] = {}]
  /\ at' = [at EXCEPT ![p] = IF p = "vbi" THEN "wait" ELSE "idle"]
  /\ UNCHANGED <<irqmask, handler, open, irqcount, overlapped, disturbed,
                 timedOut, count>>

\* The wait of the VBI ioctl ends with a blanking, or after a second without one,
\* which is to say with the blanking interrupt off.
WaitEnds ==
  /\ at["vbi"] = "wait"
  /\ irqcount \/ (VBL \notin register /\ handler.at = "idle")
  /\ at' = [at EXCEPT !["vbi"] = "idle"]
  /\ timedOut' = ~irqcount
  /\ UNCHANGED <<irqmask, register, handler, loaded, open, irqcount, overlapped,
                 disturbed, count>>

\* EM8300_IOCTL_INIT: em8300_video_setup clears the register, and not the mask.
em8300_video_setup ==
  /\ count.loads < MaxLoads
  /\ register' = {}
  /\ disturbed' = TRUE
  /\ count' = [count EXCEPT !.loads = @ + 1]
  /\ UNCHANGED <<irqmask, handler, at, loaded, open, irqcount, overlapped, timedOut>>

-------------------------------------------------------------------------------
(* The specification.  The blanking interrupt comes 50 or 60 times a second while *)
(* it is enabled; the others may stay away.  Handler and processes run on.        *)

Init ==
  /\ irqmask = {} /\ register = {}
  /\ handler = [at |-> "idle", causes |-> {}, value |-> {}]
  /\ at = [p \in Procs |-> "idle"] /\ loaded = [p \in Procs |-> {}]
  /\ open = {} /\ irqcount = FALSE /\ overlapped = FALSE /\ disturbed = FALSE
  /\ timedOut = FALSE /\ count = [changes |-> 0, loads |-> 0]

Blanking == em8300_irq({VBL}) \/ em8300_irq({VBL, "VIDEO_FIFO"})
Changing == \E p \in Procs : Store(p) \/ Load(p) \/ Write(p)

Next ==
  \/ \E causes \in SUBSET {"VIDEO_FIFO", "AUDIO_FIFO", VBL} : em8300_irq(causes)
  \/ Serve \/ Restore
  \/ \E p \in Procs : Begin(p)
  \/ Changing
  \/ WaitEnds
  \/ em8300_video_setup

Fairness ==
  /\ WF_vars(Blanking) /\ WF_vars(Serve) /\ WF_vars(Restore)
  /\ WF_vars(Changing) /\ WF_vars(WaitEnds)

Spec == Init /\ [][Next]_vars /\ Fairness

-------------------------------------------------------------------------------
(* Properties. *)

\* When no change of the mask is under way and none has overlapped another, every
\* started subdevice has its interrupts enabled in the mask, and no stopped one has
\* (the blanking interrupt stays once a VBI ioctl has asked for it).
MaskFits ==
  Between = {} /\ ~overlapped =>
    \A p \in {"video", "audio"} :
      IF p \in open THEN Bits(p) \subseteq irqmask
      ELSE (Bits(p) \ {VBL}) \cap irqmask = {}

\* A VBI ioctl waits in vain only if the video device was released meanwhile, the
\* microcode loaded again, or another change of the mask or the end of the handler
\* overlapped its own change.
VbiAnswered == timedOut => disturbed

\* Once the processes leave the mask alone, the register does not stay different
\* from it for ever while the blanking interrupt is on: a value that the handler
\* or a process has written too late is replaced at the next interrupt.
MaskCatchesUp ==
  <>[](VBL \in register => register = irqmask)
===============================================================================
