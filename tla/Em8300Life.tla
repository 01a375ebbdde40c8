------------------------------- MODULE Em8300Life -------------------------------
(***************************************************************************)
(* What the driver holds: the loading and unloading of the module, the       *)
(* probe and the removal of a card, the registrars and the microcode         *)
(* (em8300_main.c, em8300_registration.c, em8300_ucode.c, em8300_ioctl.c).   *)
(*                                                                          *)
(* Two threads run lists of calls: the module's init or exit, and the        *)
(* card's probe, removal or microcode.  A call takes or gives back one       *)
(* resource and may fail; what the code then does is the point: it unwinds,  *)
(* leaves a pointer at NULL, or goes on and gives back what it never got.    *)
(* The interrupt handler runs between any two calls.                         *)
(***************************************************************************)
EXTENDS Integers, Sequences, FiniteSets

CONSTANTS
  MaxProbes,  \* bound on the cards probed (at most EM8300_MAX in the code)
  MaxLoads,   \* bound on the attempts to start the microcode
  MaxFailures \* bound on the calls that fail

\* What the constants must satisfy.
LifeAssumption == {MaxProbes, MaxLoads, MaxFailures} \subseteq Nat

VARIABLES
  fwLoader,    \* CONFIG_FW_LOADER
  todo,        \* the calls that each thread has still to make
  doing,       \* what the card's thread is about
  held,        \* the resources the kernel has given and not got back
  pointer,     \* the pointers and numbers the driver would release
  ucodeloaded, \* em->ucodeloaded
  irqmask,     \* em->irqmask enables something
  armed,       \* Q_IrqMask enables something
  handler,     \* the handler is between its first and its last access
  ignored,     \* acquisitions that failed and whose failure was passed over
  aborted,     \* acquisitions whose failure was handled
  wrong,       \* resources given back that were not held
  leaked,      \* resources held that no pointer leads to any more
  stale,       \* FIFOs that the handler has used and that were freed
  raced,       \* the handler was at work, or set going, while a mask was cleared
  count        \* probes, loads and failures

kernel == <<held, pointer, wrong, leaked>>
failing == <<ignored, aborted>>
irq == <<irqmask, armed, handler, stale, raced>>
vars == <<fwLoader, todo, doing, held, pointer, ucodeloaded, irqmask, armed,
          handler, ignored, aborted, wrong, leaked, stale, raced, count>>

Threads == {"module", "card"}

\* A call, and a list of the same call on several resources.
Call(op, r) == [op |-> op, r |-> r]
All(op, rs) == [i \in DOMAIN rs |-> Call(op, rs[i])]

FifoNames == <<"mvfifo", "mafifo", "spfifo">>
Fifos == {FifoNames[i] : i \in 1..3}
Buffer(f) == CASE f = "mvfifo" -> "mvbuf" [] f = "mafifo" -> "mabuf"
               [] f = "spfifo" -> "spbuf"

-------------------------------------------------------------------------------
(* The lists of calls. *)

\* What the registrars of procfs, udev, sysfs and ALSA do at each occasion.
procfs_register_driver == <<Call("try", "proc")>>
procfs_unregister_driver == <<Call("put", "proc")>>
procfs_register_card == <<Call("try", "card proc")>>
procfs_unregister_card == <<Call("put", "card proc")>>
udev_register_driver == <<Call("try", "class")>>
udev_unregister_driver == <<Call("put", "class")>>
udev_register_card == <<Call("try", "node")>>
udev_unregister_card == <<Call("put", "node")>>
udev_enable_card == <<Call("try", "subdevice nodes")>>
udev_disable_card == <<Call("put", "subdevice nodes")>>
sysfs_postregister_driver == <<Call("try", "version")>>
sysfs_preunregister_driver == <<Call("put", "version")>>
sysfs_register_card == <<Call("try", "model and zoom")>>
sysfs_unregister_card == <<Call("put", "model and zoom")>>
alsa_enable_card == <<Call("try", "alsa")>>
alsa_disable_card == <<Call("put", "alsa")>>

\* All of them, in the order of the table, which unregistering keeps.
RegisterDriver == procfs_register_driver \o udev_register_driver
UnregisterDriver == procfs_unregister_driver \o udev_unregister_driver
RegisterCard == procfs_register_card \o udev_register_card \o sysfs_register_card
UnregisterCard == procfs_unregister_card \o udev_unregister_card \o sysfs_unregister_card
EnableCard == udev_enable_card \o alsa_enable_card
DisableCard == udev_disable_card \o alsa_disable_card

em8300_init == RegisterDriver \o All("get", <<"chrdev", "pci driver">>)
               \o sysfs_postregister_driver
em8300_exit == sysfs_preunregister_driver \o All("put", <<"pci driver", "chrdev">>)
               \o UnregisterDriver

I2cInit1 == All("get", <<"algo 0", "algo 1">>) \o <<Call("hope", "bus 1"), Call("try", "eeprom")>>
I2cInit2 == <<Call("hope", "bus 0"), Call("try", "encoder")>>
I2cExit == All("put", <<"eeprom", "encoder", "algo 0", "bus 0", "algo 1", "bus 1">>)

init_em8300 == I2cInit1 \o <<Call("try", "checksum")>> \o I2cInit2

em8300_probe(fw) ==
  All("get", <<"em", "pci device", "mem">>) \o <<Call("mtrr", "mtrr"), Call("irq", "irq")>>
  \o init_em8300 \o RegisterCard \o <<Call("hope", "dsp")>>
  \o (IF fw THEN EnableCard ELSE <<>>)

release_em8300 ==
  All("put", <<"mtrr", "checksum">>) \o I2cExit \o <<Call("mask", "em")>>
  \o All("free", FifoNames) \o All("put", <<"irq", "mem", "em">>)

\* Variant: the card is released before it is unregistered.
RemoveReleasing(enabled) ==
  (IF enabled THEN DisableCard ELSE <<>>) \o <<Call("put", "dsp")>>
  \o release_em8300 \o UnregisterCard \o <<Call("put", "pci device")>>

em8300_remove(enabled) ==
  (IF enabled THEN DisableCard ELSE <<>>) \o <<Call("put", "dsp")>>
  \o UnregisterCard \o release_em8300 \o <<Call("put", "pci device")>>

\* em8300_require_ucode and em8300_ioctl_init: the same calls, but that the
\* latter enables the card when no firmware loader has done so.
StartUcode(enable) ==
  <<Call("mask", "em"), Call("need", "video")>> \o All("free", FifoNames)
  \o All("alloc", FifoNames) \o All("init", FifoNames) \o <<Call("need", "audio")>>
  \o (IF enable THEN EnableCard ELSE <<>>) \o <<Call("loaded", "em")>>

\* What is undone when an acquisition fails on which the rest depends.
Unwinding(r) ==
  CASE r = "chrdev" -> UnregisterDriver
    [] r = "pci driver" -> <<Call("put", "chrdev")>> \o UnregisterDriver
    [] r \in {"pci device", "mem"} -> <<Call("put", "em")>>
    [] r = "irq" -> All("put", <<"mtrr", "mem", "em">>)
    [] OTHER -> <<>>

\* The probing of a chip that needs its bus, and the nodes that need their class.
Needs(r) == CASE r = "eeprom" -> {"bus 1"} [] r = "encoder" -> {"bus 0"}
              [] r = "card proc" -> {"proc"} [] OTHER -> {}

\* The code uses these unchecked, so that a failure ends the story there.
Unchecked == {"algo 0", "algo 1", "class"}

-------------------------------------------------------------------------------
Init ==
  /\ fwLoader \in BOOLEAN
  /\ todo = [t \in Threads |-> <<>>] /\ doing = "nothing"
  /\ held = {} /\ pointer = {} /\ ucodeloaded = FALSE
  /\ irqmask = FALSE /\ armed = FALSE /\ handler = FALSE
  /\ ignored = {} /\ aborted = {} /\ wrong = {} /\ leaked = {}
  /\ stale = {} /\ raced = FALSE
  /\ count = [probes |-> 0, loads |-> 0, failures |-> 0]

Count(what) == count' = [count EXCEPT ![what] = @ + 1]

-------------------------------------------------------------------------------
(* What begins a list. *)

Insmod ==
  /\ todo["module"] = <<>> /\ "pci driver" \notin held /\ count.probes < MaxProbes
  /\ todo' = [todo EXCEPT !["module"] = em8300_init]
  /\ UNCHANGED <<fwLoader, doing, kernel, failing, ucodeloaded, irq, count>>

Rmmod ==
  /\ todo["module"] = <<>> /\ "pci driver" \in held
  /\ todo' = [todo EXCEPT !["module"] = em8300_exit]
  /\ UNCHANGED <<fwLoader, doing, kernel, failing, ucodeloaded, irq, count>>

CardIdle == todo["card"] = <<>>
Unloading == \E i \in DOMAIN todo["module"] : todo["module"][i] = Call("put", "pci driver")

Probe ==
  /\ CardIdle /\ "em" \notin held /\ "pci driver" \in held /\ ~Unloading
  /\ count.probes < MaxProbes /\ Count("probes")
  /\ doing' = "probe" /\ todo' = [todo EXCEPT !["card"] = em8300_probe(fwLoader)]
  /\ ucodeloaded' = FALSE /\ irqmask' = FALSE
  /\ pointer' = pointer \ (Fifos \cup {"alsa", "eeprom", "encoder", "checksum"})
  /\ UNCHANGED <<fwLoader, held, wrong, leaked, failing, armed, handler, stale, raced>>

\* The card goes, or its driver does, while no file is open.
Remove ==
  /\ CardIdle /\ "em" \in held
  /\ doing' = "remove"
  /\ todo' = [todo EXCEPT !["card"] = em8300_remove(fwLoader \/ ucodeloaded)]
  /\ UNCHANGED <<fwLoader, kernel, failing, ucodeloaded, irq, count>>

\* The first open of a subdevice, or the control ioctl that brings microcode.
Load ==
  /\ CardIdle /\ "em" \in held /\ count.loads < MaxLoads /\ Count("loads")
  /\ doing' = "load"
  /\ todo' = [todo EXCEPT !["card"] = StartUcode(~fwLoader /\ ~ucodeloaded)]
  /\ UNCHANGED <<fwLoader, kernel, failing, ucodeloaded, irq>>

-------------------------------------------------------------------------------
(* The calls. *)

AtCall(t, op) == todo[t] # <<>> /\ Head(todo[t]).op = op
Done(t) == todo' = [todo EXCEPT ![t] = Tail(@)]
Res(t) == Head(todo[t]).r
Fails == count.failures < MaxFailures /\ Count("failures")

Take(r) == held' = held \cup {r} /\ pointer' = pointer \cup {r}

Succeed(t) ==
  /\ todo[t] # <<>> /\ Head(todo[t]).op \in {"get", "try", "hope", "irq", "mtrr"}
  /\ Needs(Res(t)) \subseteq held
  /\ Take(Res(t)) /\ Done(t)
  /\ UNCHANGED <<fwLoader, doing, wrong, leaked, failing, ucodeloaded, irq, count>>

\* A failure that ends the list: what has been taken is undone.
FailGet(t) ==
  /\ AtCall(t, "get") \/ AtCall(t, "irq")
  /\ Res(t) \notin Unchecked
  /\ Fails
  /\ todo' = [todo EXCEPT ![t] = Unwinding(Res(t))]
  /\ aborted' = aborted \cup {Res(t)}
  /\ UNCHANGED <<fwLoader, doing, kernel, ignored, ucodeloaded, irq>>

\* A failure that leaves a pointer at NULL, or nothing to be removed; it is
\* certain where the call is made on something that is not there.
FailTry(t) ==
  /\ AtCall(t, "try") /\ Res(t) \notin Unchecked
  /\ IF Needs(Res(t)) \subseteq held THEN Fails ELSE UNCHANGED count
  /\ pointer' = pointer \ {Res(t)}
  /\ ignored' = ignored \cup {Res(t)}
  /\ Done(t)
  /\ UNCHANGED <<fwLoader, doing, held, wrong, leaked, aborted, ucodeloaded, irq>>

\* A failure nobody looks at, of what will be given back all the same: a bus,
\* the dsp device, an interrupt that is not refused with EINVAL, and a range
\* register whose number is an error.
FailHope(t) ==
  /\ AtCall(t, "hope") \/ AtCall(t, "irq") \/ AtCall(t, "mtrr")
  /\ Fails
  /\ pointer' = pointer \cup {Res(t)}
  /\ ignored' = ignored \cup {Res(t)}
  /\ Done(t)
  /\ UNCHANGED <<fwLoader, doing, held, wrong, leaked, aborted, ucodeloaded, irq>>

\* The range register 0 is taken for none, and stays set.
MtrrZero(t) ==
  /\ AtCall(t, "mtrr") /\ Fails
  /\ leaked' = leaked \cup {"mtrr"} /\ ignored' = ignored \cup {"mtrr"}
  /\ pointer' = pointer \ {"mtrr"}
  /\ Done(t)
  /\ UNCHANGED <<fwLoader, doing, held, wrong, aborted, ucodeloaded, irq>>

\* A release.  The interrupt's waits for the handler, the driver's for the cards.
Put(t) ==
  /\ AtCall(t, "put")
  /\ Res(t) = "irq" => ~handler
  /\ Res(t) = "pci driver" => CardIdle /\ "em" \notin held
  /\ IF Res(t) \in pointer
     THEN /\ held' = held \ {Res(t)}
          /\ pointer' = pointer \ {Res(t)}
          /\ wrong' = wrong \cup ({Res(t)} \ held)
     ELSE UNCHANGED <<held, pointer, wrong>>
  /\ Done(t)
  /\ UNCHANGED <<fwLoader, doing, leaked, failing, ucodeloaded, irq, count>>

\* The registers are reset and Q_IrqMask is cleared.
Mask(t) ==
  /\ AtCall(t, "mask")
  /\ armed' = FALSE /\ raced' = (raced \/ handler)
  /\ Done(t)
  /\ UNCHANGED <<fwLoader, doing, kernel, failing, ucodeloaded, irqmask, handler,
                 stale, count>>

\* A command to the card that may time out.
Need(t) ==
  /\ AtCall(t, "need")
  /\ \/ Done(t) /\ UNCHANGED <<aborted, count>>
     \/ Fails /\ todo' = [todo EXCEPT ![t] = <<>>] /\ aborted' = aborted \cup {Res(t)}
  /\ UNCHANGED <<fwLoader, doing, kernel, ignored, ucodeloaded, irq>>

Valid(f) == Buffer(f) \in held

\* em8300_fifo_free: the buffers go with a FIFO that is valid.
FifoFree(t) ==
  LET f == Res(t)
      bufs == {Buffer(f)} \cup (IF f = "mafifo" THEN {"prep"} ELSE {})
  IN /\ AtCall(t, "free")
     /\ IF f \in pointer
        THEN /\ held' = held \ ({f} \cup bufs)
             /\ wrong' = wrong \cup ({f} \ held)
             /\ leaked' = IF Valid(f) THEN leaked ELSE leaked \cup (bufs \cap held)
        ELSE UNCHANGED <<held, wrong, leaked>>
     /\ Done(t)
     /\ UNCHANGED <<fwLoader, doing, pointer, failing, ucodeloaded, irq, count>>

FifoAlloc(t) ==
  /\ AtCall(t, "alloc")
  /\ \/ Take(Res(t)) /\ Done(t) /\ UNCHANGED <<aborted, count>>
     \/ /\ Fails
        /\ pointer' = pointer \ {Res(t)} /\ UNCHANGED held
        /\ aborted' = aborted \cup {Res(t)}
        /\ todo' = [todo EXCEPT ![t] = <<>>]
  /\ UNCHANGED <<fwLoader, doing, wrong, leaked, ignored, ucodeloaded, irq>>

\* em8300_fifo_init, whose result is ignored.
FifoInit(t) ==
  LET f == Res(t)
      prep == IF f = "mafifo" THEN {"prep"} ELSE {}
  IN /\ AtCall(t, "init") /\ Done(t)
     /\ \/ held' = held \cup {Buffer(f)} \cup prep /\ UNCHANGED <<ignored, count>>
        \/ Fails /\ held' \in {held, held \cup prep} /\ ignored' = ignored \cup {Buffer(f)}
     /\ UNCHANGED <<fwLoader, doing, pointer, wrong, leaked, aborted, ucodeloaded, irq>>

Loaded(t) ==
  /\ AtCall(t, "loaded") /\ Done(t)
  /\ ucodeloaded' = TRUE
  /\ UNCHANGED <<fwLoader, doing, kernel, failing, irq, count>>

-------------------------------------------------------------------------------
(* Interrupts. *)

\* An open of the video device enables interrupts and a release disables them;
\* the VBI ioctl leaves its own enabled.
EnableIrq ==
  /\ ucodeloaded /\ "em" \in held /\ (CardIdle \/ doing = "load")
  /\ irqmask' = TRUE /\ armed' = TRUE
  /\ raced' = (raced \/ ~CardIdle)
  /\ UNCHANGED <<fwLoader, todo, doing, kernel, failing, ucodeloaded, handler, stale,
                 count>>

DisableIrq ==
  /\ irqmask /\ "em" \in held /\ (CardIdle \/ doing = "load")
  /\ irqmask' = FALSE /\ armed' = FALSE
  /\ UNCHANGED <<fwLoader, todo, doing, kernel, failing, ucodeloaded, handler, stale,
                 raced, count>>

Interrupt ==
  /\ armed /\ ~handler /\ "irq" \in held
  /\ handler' = TRUE
  /\ UNCHANGED <<fwLoader, todo, doing, kernel, failing, ucodeloaded, irqmask, armed,
                 stale, raced, count>>

\* The handler looks at the FIFOs it has pointers to, and restores the mask.
Handle ==
  /\ handler /\ handler' = FALSE
  /\ stale' = stale \cup ((Fifos \cap pointer) \ held)
  /\ armed' = irqmask
  /\ UNCHANGED <<fwLoader, todo, doing, kernel, failing, ucodeloaded, irqmask, raced,
                 count>>

-------------------------------------------------------------------------------
Next ==
  \/ Insmod \/ Rmmod \/ Probe \/ Remove \/ Load
  \/ \E t \in Threads : Succeed(t) \/ FailGet(t) \/ FailTry(t) \/ Put(t)
  \/ FailHope("card") \/ MtrrZero("card") \/ Mask("card") \/ Need("card")
  \/ FifoFree("card") \/ FifoAlloc("card") \/ FifoInit("card") \/ Loaded("card")
  \/ EnableIrq \/ DisableIrq \/ Interrupt \/ Handle

Spec == Init /\ [][Next]_vars

-------------------------------------------------------------------------------
(* Properties. *)

\* What only makes sense while something else is there.
Depends == {<<"card proc", "proc">>, <<"node", "class">>, <<"subdevice nodes", "class">>,
            <<"em", "pci driver">>, <<"mem", "em">>, <<"irq", "mem">>,
            <<"node", "chrdev">>, <<"eeprom", "bus 1">>, <<"encoder", "bus 0">>}
           \cup ({"card proc", "node", "model and zoom", "subdevice nodes", "alsa", "dsp",
                  "bus 0", "bus 1"} \X {"em", "mem"})

\* A load that could not allocate a FIFO after freeing the three before leaves
\* the pointers to the others as they were.
Dangling == aborted \cap Fifos # {}

\* Whatever fails: nothing is there without what it depends on, the handler
\* never runs on a card whose registers are unmapped, what is given back
\* without being held is what the code never noticed failing, and a card that
\* has gone leaves nothing but a PCI device enabled by a probe that failed.
LifeBalanced ==
  /\ \A d \in Depends : d[1] \in held => d[2] \in held
  /\ handler => {"em", "mem", "irq"} \subseteq held
  /\ wrong \subseteq ignored \cup (IF Dangling THEN Fifos ELSE {})
  /\ leaked \subseteq ignored \cup (IF "mabuf" \in ignored THEN {"prep"} ELSE {})
  /\ stale # {} => raced \/ Dangling
  /\ (CardIdle /\ "em" \notin held)
       => held \subseteq {"proc", "class", "chrdev", "pci driver", "version"}
            \cup (IF aborted \cap {"mem", "irq"} # {} THEN {"pci device"} ELSE {})
  /\ (todo["module"] = <<>> /\ "pci driver" \notin held)
       => held \subseteq {"pci device"}
===============================================================================
