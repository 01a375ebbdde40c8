# A verification project for the em8300 driver

`src/` is the Linux driver for MPEG decoder cards built on the Sigma Designs
EM8300 (DXR3, Hollywood+), with its user programs. This directory holds TLA+
modules that model the driver, the TLC configurations that check them on small
instances, and proofs that TLAPS checks.

## The system

A card has four subdevices, each a character device: control, audio, video and
subpicture. Audio is also reachable through the OSS dsp device and through
ALSA. Data written by a player goes through one of three bus-master FIFOs in
the card's memory; presentation times go through two smaller PTS FIFOs; the
card raises interrupts as it takes data and at every vertical blanking.

The concurrency is that of a kernel driver: any number of processes are inside
its file operations at once, on several processors; the interrupt handler runs
between any two of their instructions; the card moves its own pointers; a wait
can end by a wake-up, a time limit or a signal. There are four
semaphores: one per FIFO, held over a whole write; `audio_driver_style_lock`,
for the test and set of the audio driver; a lock for the ALSA substream, taken
by its open only; and `ioctl_lock`, which keeps the ioctls of a card apart from
each other, but not from writes, opens, releases or the handler. Everything
else is shared without a lock, and that is where the properties below are
aimed.

### Inventory

| Component | Source (src/modules) | State | Operations | What makes it correct |
|---|---|---|---|---|
| Bus-master FIFOs | em8300_fifo.c | pointer registers, slots, `bytes`, `lock`, wait queue | write, writeblocking, sync, check, freeslots, calcbuffered, init, free | slots are taken in order, complete, once; writers exclude each other; every wait ends |
| FIFO flush | em8300_video.c, em8300_audio.c | the write pointers | video_flush, audio_flush | leaves the ring sound and nobody stranded |
| Device ownership | em8300_main.c, em8300_alsa.c | `audio_driver_style`, `inuse`, `nonblock`, `memory`, substream | open, write, mmap, release, pcm open and close | one audio user; counts return; mapped memory freed once |
| Presentation times | em8300_video.c, em8300_spu.c | pending time and its flag, last time, pointer, stream offset | SETPTS, write, flush, setplaymode, the handler's check | each time reaches the card once, in order, with its offset |
| Interrupt handler and mask | em8300_main.c | `irqmask`, Q_IrqMask | handler, enable and disable by each subdevice, VBI ioctl | an enabled source stays enabled |
| Play mode and video output | em8300_video.c, em8300_ioctl.c | `video_playmode`, `playmode`, encoder output, overlay mode | setplaymode (two of them), enable_videoout, overlay_setmode, setvideomode | output is on while a user plays |
| Audio modes | em8300_audio.c | format, channels, speed, mode, preprocessing of the FIFO | OSS ioctls, set_audiomode | preprocessing agrees with what is being written |
| ALSA driver | em8300_alsa.c | indirect transfer state, slots' addresses | prepare, trigger, pointer, transfer, interrupt | the reported pointer is what was taken |
| Microcode and life of the FIFOs | em8300_ucode.c, em8300_ioctl.c | `ucodeloaded`, the three FIFO pointers | require_ucode, upload, ioctl_init | no FIFO is used after it is freed |
| Control ioctls | em8300_ioctl.c, em8300_ioctl32.c | the fields of the components they change | dispatch, clock, picture settings, 32-bit conversion | the clock ends close to the time asked for; passes on what it is given |
| DICOM | em8300_dicom.c | rectangles, kind of output, picture registers | update, enable, disable, setBCS | window within the screen, and the one that was asked for |
| Overlay chip | em9010.c | attributes, calibration values, registers of the chip | calibrations, window, screen, attributes, modes | the chip holds the settings; a calibration that succeeds is kept |
| TV encoders | adv717x.c, bt865.c | mode, output, register image | probe, SETMODE, ENABLEOUTPUT, parameters | image follows mode and output; parameters keep to their bits |
| I2C and clock generator | em8300_i2c.c | pins, buses | init, transfers, exit | a transfer that is alone arrives |
| Register access | em8300_misc.c | none | waitfor, setregblock, writeblock | loops end |
| Probe, removal, registrars | em8300_main.c, em8300_registration.c and the registrars | `em8300[]`, what the kernel has given | init, exit, probe, remove, register, enable | what is taken is given back, in order, once |
| Device nodes, sysfs, procfs, models, EEPROM, parameters | remaining files | tables | registration, zoom, formatting | nodes go with their card |
| User programs | src/overlay, src/dxr3snap, src/em8300setup | the overlay's state file | autocal, dxr3view; sequences of ioctls | the file holds what was found |
| GUI and scripts | src/dhc, src/scripts | single-threaded | sequences of ioctls | |

Components interact by calls (open starts a subdevice, which loads the
microcode, sets the play mode and the interrupt mask), by shared fields of
`struct em8300_s`, by wait queues (the handler wakes the FIFOs, the PTS waits
and the VBI ioctl), and by the registers of the card. The hard behaviours, each
at the line where it bites, are the list of hazards in `PROJECT.json`.

## The modules

| Module | Models | Extends |
|---|---|---|
| `Em8300Stream` | what a FIFO promises: a bounded queue with an owner | |
| `Em8300Fifo` | the ring, its lock, waits, time limits and interrupts; `INSTANCE`s `Em8300Stream` | |
| `Em8300Flush` | a flush interleaved with the ring's users | `Em8300Fifo` |
| `Em8300FifoProofs` | proofs about `Em8300Fifo`, that it implements `Em8300Stream`, and about `Em8300Flush` | `Em8300Flush`, TLAPS |
| `Em8300Open` | who has a card's devices open | |
| `Em8300OpenProofs` | proofs about `Em8300Open` | `Em8300Open`, TLAPS |
| `Em8300Bits` | C's `&` on sixteen bits | |
| `Em8300Pts` | presentation times of video and subpictures | `Em8300Bits` |
| `Em8300Lemmas` | lemmas on remainders, masks, induction and lists of calls that several proofs need | `Em8300Bits`, TLAPS |
| `Em8300PtsProofs` | proofs about `Em8300Pts` | `Em8300Pts`, `Em8300Lemmas` |
| `Em8300Output` | play mode, TV mode, overlay switch, encoder output, display controller | |
| `Em8300Encoder` | the drivers of the three TV encoders | |
| `Em8300Overlay` | rectangles of the display controller, registers of the overlay chip | |
| `Em8300Calibrate` | the overlay's calibrations and the programs that keep their results | |
| `Em8300Arith` | the system clock in halves, and what is computed for registers | `Em8300Bits` |
| `Em8300Bus` | the pins that encoder, overlay chip and clock generator share | |
| `Em8300Life` | module and card life: what is taken, fails, is undone and given back | |
| `Em8300AudioMode` | audio format, rate, channels and mode; the preparation of samples | |
| `Em8300Indirect` | the ALSA transfer between application, ring and card | |
| `Em8300Irq` | the interrupt mask, its register, the handler, the VBI ioctl | |
| `Em8300AudioProofs` | proofs about `Em8300AudioMode`, `Em8300Irq` and `Em8300Indirect` | `MCAudio`, `Em8300Lemmas` |
| `Em8300ControlProofs` | proofs about `Em8300Output`, `Em8300Overlay`, `Em8300Calibrate`, `Em8300Encoder` and `Em8300Arith` | `MCControl`, `Em8300Lemmas` |
| `Em8300BusProofs` | proofs about `Em8300Bus` | `MCControl`, `Em8300Lemmas` |
| `Em8300LifeProofs` | proofs about `Em8300Life` | `MCControl`, `Em8300Lemmas` |
| `MCFifo`, `MCFlush`, `MCOpen`, `MCPts` | instances for TLC | the module they name |
| `MCControl`, `MCAudio` | several models side by side, for TLC | `INSTANCE`s of the models |

A definition preceded by a comment that begins "Variant:" is not part of a
model: it is the definition next to it with a plausible mistake, kept to show
that the properties notice it.

### Em8300Fifo

Data are counted in chunks, a chunk being what one slot carries, and a slot
holds where its chunk came from: writer, call, offset in the call's buffer. A
chunk shorter than a slot behaves as a chunk. The preprocessing of audio data
is not in the model, nor are the video flags.

A writer's program counter follows `em8300_fifo_writeblocking`:
`down` (the semaphore), `index` and `room` (the two reads of the pointer
registers in `em8300_fifo_write_nolock`), `copy` (the loop, one step per slot,
ended by the store of the write pointer), `full` (the look at the clock and the
play mode), `wait` (the condition of the wait), `sleep`, `up`. The two forms of
the wait share `wait` and `sleep`; `timed` tells them apart. A step ends where
a register shared with the card has been read or written, so every
interleaving that the card, the handler and other processes can see is a
behaviour.

`TimeLimit` is the passing of the two seconds: as in the macro of
`em8300_compat24.h`, the condition is not looked at again, and the writer stops
and starts playback. A restart is one step here; what it does to presentation
times is in `Em8300Pts`. After the second limit the write gives up, with
EINTR or the count written so far.

A bad user buffer has two outcomes. `access_ok` refuses one outside the range of
user addresses (`CopyFault`): what the pass copied stays unpublished, the write
returns EFAULT, and `bytes` stays too high. An address in that range that is not
mapped passes the test, and then nobody looks at the result of `copy_from_user`,
nor at `get_user` in the preprocess callbacks: the slot is published and counted
as if the data had come. `Holes` is the set of chunks for which that happens, any
set of them, and `Chunk` shows it in the slot. So `WindowWritten` promises
that a slot between the pointers has been through a whole round of the copy loop,
and `ImplementsStream` that it keeps its place, its order and its count; neither
that it holds the caller's data.

The card is `Fetch`; it takes the slot at the read pointer whenever the ring is
not empty and makes an interrupt pending. The handler is `Interrupt`, whose
part in this module is `FifoCheck`. Other processes set the play mode and the
clock. Play modes other than PLAY are alike for this module.

### Em8300Flush

A flush is a load of the read pointer and a store of the write pointer, once
for video, twice for audio (`MA_PCIWrPtr`, then the same register through the
FIFO). It runs as a process of its own beside the whole of `Em8300Fifo`. With
`CardStopped`, the card takes nothing while the flush is under way, which is
the situation of a seek in a stopped or paused player. While a flush is
under way no other ioctl changes the clock (`ioctl_lock`); the play mode can
still change, by an open or release of the video device or by a write. Without it, a flush can
store a pointer the card has passed; the ring then looks nearly full of slots
that were taken long ago. That is in the model, but no property is stated of
what the card does with them.

### Em8300Open

A step ends where the code can sleep or where it has touched one of
the shared fields. `IoOpen` goes up to the point where the open sleeps;
`Claim` is the test and set of the driver style under its semaphore;
`RequireUcode` loads the microcode or fails; `Count` raises the use count. A
release runs through `detach` (ALSA), `unclaim`, `free`/`freeing` (the walk
over the mapped blocks, its look at the head and its removal separate steps)
and `uncount`. `Fcntl`, `Write` and `Mmap` are what a process does with an open
device. History variables record what the driver has printed (`said`), blocks
freed twice (`refreed`), overlapping accesses to the list (`overlap`) and
writes against their flag (`disobeyed`).

### Em8300Pts

One write at a time of video or of subpictures (`stream`, chosen at the start),
with SETPTS, flush, stop, start and the change of the subpicture mode coming
from other processes at any step, each as one step because ioctls exclude each
other. The write computes its entry (`slot`) before
it waits and uses it afterwards, whatever has become of the pointer meanwhile.
The bytes are accepted by the FIFO in one step, any number of them up to the
count offered or none, and what the write then returns is their number or an error:
a bad address in a later pass hides what earlier passes published, and the offset
stays behind by the bytes that `lost` counts. The device can be released and opened
again (`open`), and `vbl` is the bit of the blanking interrupt, which only an open
of the video device or the VBI ioctl sets and only the release of the video device
clears; while a video write sleeps it is set, for a subpicture write it comes and
goes (`VideoElsewhere`, `Vbi`). That one of several unlocked changes of the mask can
be lost is in `Em8300Irq`. The entry is written in two steps, the last of which
carries the occupied bit. `Half` is the shift of an unsigned time.

### Em8300Output

A handler is the list of calls it makes, written from `em8300_ioctl.c` in their
order; two processes, the one ioctl that `ioctl_lock` admits and an open or
release of the video device or a write to the sysfs file `zoom`, take their
calls in turn, so every interleaving
between two calls is a behaviour. (Of opens, releases and zooms, too, several can
be under way at once; the model has one at a time.) A call that depends on a
field looks at it when it is made (`UnlessOverlay`).

The three calls of the display controller share `em->dicom_tvout`, which no lock
protects, and are made step by step (`within`): the look at the settings
(`DicomEnable`, `DicomUpdate`) with the store or the writes of frame and visible
part, the load and store of the bit for the aspect ratio, and the write of the
register, for which the compiler may or may not read the field again. An update
whose wait fails returns at once and its result is dropped (`DicomTimeout`); until
another succeeds the size is the old one. `sure` records for output and size
whether the last call that set it had it for itself, from its look at the settings
to its last write, with the settings unchanged: what overlapping calls leave
behind `OutputAgrees` does not say, but it claims that they leave nothing that a later
undisturbed call would not mend. The synchronisation registers that an update
writes after the size, the zoom itself, and the wait at its end are left out; a
size that is looked up while the TV mode changes may be a mixture of two in the
code, is one of the two here, and is not sure.

`data` is what the encoder's
driver remembers and `regs` what the chip holds: an update is one call per
register, each of which sleeps for the bus. The ADV717x looks a register up
when it comes to it, the BT865 copies its table first, and that is what
`StaleBounded` tells apart. `by` and `mixed` are history.

### Em8300Encoder

The tables of the source, with the registers that modes and parameters tell
apart; `Setup` is the list of parameters that `em8300_adv717x_setup` hands over
after the probe, `SetMode` and `EnableOutput` the two commands. One command is a
step here: their overlap is in `Em8300Output`. The default TV mode, a choice at
compile time, is taken as PAL.

### Em8300Overlay

One ioctl, or one write to the sysfs file `zoom`, is a step. `em` is the part
of `struct em8300_s` that is asked for, `dicom` and `reg` what the display
controller and the chip hold, and `changed` records what has been asked for and
not written since, which is what `ChipFollows` excuses. The arithmetic of
`sub_4288c`, `loc_2bcfe` and `loc_2A66E` is the source's, with C's rounding
towards zero. What the chip counts, whether lines must be doubled, and whether
the controller answers in time are choices of the environment. The values of the
attributes are any integers, for the ioctl checks the number of an attribute and
not its value: a register takes the low byte, the key colour 24 bits, and a
jitter of more than four bits is ORed over the signals in register 7, where its
bits stay until the signals are written again (`Over`, `Jitter`).

### Em8300Calibrate

A search is one step that gives every result the sensor can bring about: seen
at one of its tries, or never. The programs take one ioctl or one file
operation per step and can be killed between any two. `seen` remembers where
the picture was when the sensor saw it, so that the result can be compared with
it, and `before` what the file held. The key colours found by the colour
calibration are not kept; that any of its 64 calls can fail is. The state file may
not open at all, which the program does not notice (`OpenFails`).

### Em8300Arith

The clock ioctls access one half of the clock per step while the clock runs;
C leaves open in which order the two halves are read, and the module takes the
low one first, as it is written. The rest is one step from arbitrary input to
result: picture bytes (with the products of an int of `2 * IntHalf` values, for
the ioctl takes any setting), the overlay's rate, halved presentation times, speed, and
the counts of the rings, where the walk of `em8300_fifo_calcbuffered` is
compared with the remainder.

### Em8300Bus

A transfer is the list of register writes that the code makes for it; two
processes take them in turn, for the lock of the I2C layer and the lock of the
ioctls keep only their own apart. Devices count and compare the bits at the
rising edges of their clock. What the kernel's algorithm does with
`em8300_setscl` and `em8300_setsda` is external. A byte has `Width` bits, two at
least, since that is what the number of a register takes; the count of a device
stops at five times that, above what a transfer that is alone can reach.

### Em8300Life

Init, exit, probe, removal and loading of the microcode are lists of calls, in
the source's order, each on one resource: `get` (a failure unwinds), `try` (a
failure leaves NULL), `hope` (nobody looks), `put`, and the FIFO's own. `held`
is what the kernel has given out, `pointer` what the driver would give back;
`wrong`, `leaked` and `stale` are what must not happen and the histories
`ignored`, `aborted` and `raced` say when it may. The interrupt handler runs
between any two calls. Removal happens while no file is open, as the kernel's
reference counts have it; the memory of `pdata` and the class are taken to be
allocated, for the code uses them unchecked; to remove a node or file that
is not there is harmless.

### Em8300AudioMode

Ioctls are steps. The open of the dsp device is three (claim, rate, mode), a
write two: the length of a slot is computed with the ratio of one moment, the
samples are copied with the function of another. A sample is named by frame
and channel and a byte by its half, so what reaches a slot can be compared with
what the user meant. The single bits of the IEC 958 status block are left out,
its rate and kind and the place of the preamble are not.

### Em8300Indirect

The record of ALSA's indirect transfer, the slots that point into ALSA's buffer
and the card, which fetches and plays. A callback is a step, as ALSA has its
stream locked. That the card's STOP empties its own buffer is an
assumption. A transfer that finds no slot free loses its place: the driver
counts it as queued all the same, and `failed` records it.

### Em8300Irq

Every load and store of `em->irqmask` and of Q_IrqMask is a step of its own, for
a process that starts and stops the video part, one for audio, one in the VBI
ioctl, and the handler. `overlapped` and `disturbed` record which changes can
have been lost, and the properties claim everything else.

### MCControl and MCAudio

These put several models next to each other: `part` is chosen at the start, and
a behaviour is one of that model. No model's variable is touched by another,
so nothing is learned of their interaction; it is one TLC run instead of seven
or three. In `MCAudio` the fairness is that of `Em8300Irq`, and
in the other parts, where no interrupt is enabled, it asks for nothing. In
`MCControl` a variable that several models have stands for that of the chosen
one. Both modules assume the assumptions of their models, which TLC evaluates.

## What is checked

All runs use the specifications and definitions of the modules as they are;
a `.cfg` only gives constants their values.

| Run | Question | Result |
|---|---|---|
| `fifo_safety` | is the ring safe, is sync a barrier, is it a queue? | holds |
| `fifo_live` | does every write return? | holds |
| `flush` | does a flush keep the ring safe and timed writes alive? | holds |
| `open` | one audio user, no stale substream, no double free? | holds |
| `pts` | times exact, in order, offsets right, sleepers woken? | holds |
| `control` | do output, encoder, overlay, calibration, registers, buses and resources end up consistent? | holds |
| `audio` | are samples, stream and interrupt mask kept? | holds |
| `dsp_sync` | does SNDCTL_DSP_SYNC wait for the last byte? | no |
| `flush_wakeup` | does a write without a time limit survive a flush? | no |
| `dsp_inuse` | is the complaint of `em8300_dsp_open` impossible? | no |
| `mmap_tracked` | does the list keep track of all mapped memory? | no |
| `dsp_nonblock` | does a dsp write obey O_NONBLOCK? | no |

The five runs that end in a violation are disagreements between the code and
what its own comments, messages or change log say; the findings in
`PROJECT.json` quote both sides.

Bounds, and why they are enough:

- **Ring.** Three slots give a capacity of two: empty, partly full, full and
  wrapped all occur. The threshold is one slot, so a sleeping write has room
  after one fetch and is woken only by the second: the gap between room and
  wake-up that the liveness properties are about. A write of
  three chunks is larger than the ring, so it makes a partial pass, waits and goes
  round; a write of none takes the path around the loop. Two writers, one
  call each, queue for the lock with every mixture of blocking and
  non-blocking; the second chunk of each cannot be read; one caller of sync repeats without bound. All starting
  positions of the pointers are tried.
- **Flush.** One writer of two calls, one flush of either kind, so a flush
  falls before, inside, between and after calls.
- **Open.** Three processes with two opens each: one can be opening while
  another releases and a third has just failed. One block is enough for a
  double free. Processes are symmetric, and no liveness is checked here.
- **Presentation times.** Two entries wrap after two posts and are full after
  two, so the third write waits; four writes go past that. Two resets let a
  stop and a start, or two flushes, hit the same write. Times 12 and 20 have
  different halves and quarters, so a time halved twice or mixed up shows.
- **Output.** Two ioctls and one zoom, or one open with its release, on both
  encoders and with and without `stop_video`: an open falls between any two calls of
  an ioctl, an update by a zoom between any two steps of one, and two ioctls pause
  and play, or enter and leave overlay mode. Playing through both needs a third
  ioctl (with three: 9.7 million states, same result).
- **Encoder.** All chips and output modes and every combination of bars, pixel
  port and adjustments; 4 does not fit its two bits. The number of commands is
  unbounded.
- **Overlay.** Three operations after any start; windows over each edge of the
  screen, and one above and below it at once; counts that give a rate in range,
  one out of it, and an equal one.
- **Calibration.** Two runs of the programs, so the second finds a file of the
  first, whole, cut off or absent; first, early and last tries, and none.
- **Arithmetic.** Halves of base 4, so a carry is met; settings at both ends, in
  the middle and at 4 and 250; slot counts that are and are not powers of two.
- **Bus.** Three transfers, so a third comes after two that have broken
  each other; bytes of two bits (three were tried: 3.1 million states, same
  result).
- **Life.** Two probes, two loads, one failure at any call (with one probe and
  two failures: 4.3 million states, same result).
- **Audio modes.** Four settings: open, AC3, another change, and a reopening
  through the other driver. **Indirect.** Blocks of two units, a buffer of three
  blocks, a ring of three slots: transfers are split at the end of the buffer,
  the card's count wraps, and the ring can be full. **Interrupt mask.** Three
  changes and one loading of the microcode, by all three processes.

A process that has used up its calls stops: runs of `open`, `pts`, `control` and
`audio` do not check for deadlock, because all may end. In the FIFO runs the
player can always act, so absence of deadlock says nothing there, and
`fifo_live` says what it should.

Fairness. A process that can run does, and the pending interrupt is delivered:
weak fairness of each writer's own steps, of `Interrupt`, and of the flush
once it is under way. The
kernel's semaphore hands itself to waiters in turn: strong fairness of `Down`.
Timers run out: weak fairness of `TimeLimit` and `SyncGivesUp`. Nothing is
assumed of applications, signals or refused buffers. That the card keeps taking
slots is not part of the specification but the hypothesis `CardDrains` of
`WritesReturn`; `TimedWritesReturn` does without it. In `Em8300Pts` the write's
steps are fair and so is the handler while the blanking interrupt is enabled
(`vbl` is a guard of `CheckPtsFifo`); that the card keeps taking entries is a
hypothesis on its microcode. The time limit is not fair, since the property is that
it is not needed: a subpicture write with the video device closed and no VBI ioctl
does need it, and `SleepersWake` says so. In `Em8300Irq` processors run on:
weak fairness of the handler's steps and of each change that has begun. A
blanking comes 50 or 60 times a second while its bit is set in Q_IrqMask.

What the runs show, beyond the definitions: no interleaving of the unlocked
card with a writer's stale count of free slots overruns the ring, because the
card can only widen the room; a wait on a full ring is always ended by an
interrupt that was raised above half the ring, because the card keeps raising
them until the ring is empty; the write pointer stored by a flush can hit any
point of a write's pass without an unwritten slot being exposed, as long as
the card stands still; the three audio drivers exclude each other although only
the claim is locked, because every path that gives up the claim is one that
held it.

Of the output: whatever an open does between the calls of an ioctl,
clock and TV mode of the encoder agree in the end, because the calls that set them are made by
the ioctls alone; and so does the display controller, because every handler ends with
calls that look at the fields again. What need not agree is known: two calls of the
controller that overlap can write the register from each other's `dicom_tvout`, and
an update that does not find the controller ready leaves the old size; leaving overlay
mode compares the TV mode with STOPPED, which is the number of PAL, and
so switches a PAL picture off; a card that was paused while stopped is not
switched on by PLAY; an update of the encoder that overlaps another leaves at
most one register of an ADV717x behind, but may leave a whole table of a BT865.
`PlayingShows` and `StaleBounded` say that these are the only ways.

Of the encoders: parameters keep to their bits in every mode, and a parameter
set but not yet written never shows. The tables of the BT865, except for NTSC,
contain the bit that ENABLEOUTPUT adds, so that switching the output off has no
effect in them.

Of the overlay: the scale a resolution gives is always one that windows are
placed with, and every window that touches the screen is clipped to it, except
one that begins above and ends below. A search for the scale that runs out of
tries is a success; the result of the vertical search is halved twice when lines
are doubled; a calibration that fails leaves the overlay on, and autocal still
writes the file, with the values found so far.

Of the numbers: both clock ioctls leave the clock close to the time asked for
unless a carry falls between its halves; the difference of VIDEO_SETSCR is
unsigned, so a clock that is behind is always set. The masked walk is the
remainder if the slot count is a power of two. The speed read back from old
microcode is not the one set, as `! ver >= 0x29` is never false.

Of the pins: a transfer that is alone arrives whatever broken ones have left,
and the clock generator gets a byte even when it is not alone.

Of the card's life: after one failure anywhere, only what the code never
noticed failing is given back without having been got. Known exceptions, which
`LifeBalanced` names: the PCI device stays enabled when the registers cannot be
mapped or the interrupt is refused; MTRR number 0 is taken for none; the
buffer for prepared samples is lost when the audio FIFO's own cannot be had; the
FIFOs are freed twice, or used after they are freed, when one of them cannot be
allocated on a second load; and a handler that is at work, or set going, while
Q_IrqMask is cleared can use a FIFO that a removal or a load has freed.

Of the audio path: the settings agree while the dsp device is open, unless the
microcode is loaded under it (the clock generator keeps its rate); every sample
sounds as it was meant, except AC3 data in an analog mode and a write whose
settings change between its two looks at them. The ALSA transfer keeps its order
unless the ring was full when it was queued.

Of the mask: only overlapping changes lose each other's bits; a wrong register
is put right at the next interrupt; a VBI ioctl waits in vain only if it was
disturbed. Loading the microcode clears the register and not the mask, so
interrupts stay off until the next change.

## What is proved

The theorems hold for every value of the constants that meets the assumptions
named in the modules; TLC evaluates these for the instances. The invariants
below were checked by TLC on the instances before they were proved.

### The ring (`Em8300FifoProofs`)

For any number of slots, writers, callers of sync, calls and sizes, and any set of
chunks that cannot be read, with the
assumptions that there is a slot, that writers and callers of sync are different
processes, and that the two placeholder values are none of the real ones:

- `TypeCorrect`, `OnlyWrittenSlotsAreTaken`, `NoSlotIsOverrun`,
  `CallsAreExclusive`, `PlayedCountIsExact`, `SyncIsABarrier`: the invariants
  of `fifo_safety`.
- `FifoImplementsStream`: the ring implements the queue of `Em8300Stream`.

The argument is the invariant `Inv`. `WindowWritten` is not inductive by
itself: when a pass ends, the pointer jumps over everything it copied, so one
must know that these slots have been through the loop, that they lie directly behind the
published ones, and that the pass began at the write pointer that is still
there. That is `PassInv`, which in turn needs `Exclusive` (nobody else moves the
pointer) and the remark that the room counted at the beginning of the pass only
grows. `PlayedIsFetched` needs `BytesInv`, which says how far the byte
count runs ahead inside a pass; `SyncDrains` needs `SyncInv`, which says that
what was published at the call is either taken or still buffered. The
arithmetic of the ring is in a handful of lemmas on `Ahead` and
`NextSlot`, stated with their ranges and cited from the steps.

The refinement needs two facts more, that a pass starts with nothing copied
(`GotInv`) and that what it has copied are the chunks of its call that come
next (`CopiedInv`). With them the store of the write pointer appends one run of
chunks to the sequence between the pointers (`PublishAppends`), a fetch takes
its head (`FetchTakes`), and every other step is a stutter.

### A flush (also in `Em8300FifoProofs`)

For any number of flushes as well, if the card stands still during each
(`CardStopped`): `FlushKeepsWindow` and `FlushKeepsWriters`. The ring's own
`PassInv` is false here. A flush drops slots in front of a pass that has read
its index already, so the pass no longer begins at the write pointer, and one that
counts its room afterwards counts slots that it has passed. `FlushedPass` says
what remains true: everything from the card to where the pass has come is
written, and whenever the ring is not empty the pass is where `PassInv` has it.

### Ownership (`Em8300OpenProofs`)

For any number of processes, blocks and opens, and any set of kinds:

- `AudioHasOneUser`, `SubstreamIsFree`: the three audio drivers exclude each
  other, the driver style names the one that has the card, and no ALSA open
  that holds the claim finds a substream.
- `CountsAreExact`: the use count of a subdevice is the number of processes that
  hold it open; hence `TypeCorrect`, in which no count falls below zero.
- `BlocksAreFreedOnce`.

The invariant `OpenInv` adds to the types that a process at a step of one
driver is opening a device of that driver (`KindInv`), and that a substream
belongs to an ALSA process between its attaching and its detaching
(`SubstreamInv`), which with `AudioExclusive` is inductive. For the blocks the
invariant (`ListInv`) is that, unless two accesses to the list overlapped,
what is on the list is allocated, and only one process is between its look at
the head and the removal.

### Presentation times (`Em8300PtsProofs`)

For any number of entries, times, sizes, writes and resets (`PtsAccounted`):

- `PointerStaysInFifo`, `EntriesAreNotOverwritten`, `TimesAreExact`,
  `OffsetsAreExact`;
- `TimesComeInOrder`, for a masked pointer only if the number of entries is a
  power of two (`Masked`). The code divides the pointer of the video FIFO and
  masks that of the subpictures, and relies on the size that the card reports;
  with other sizes the theorem is false.

`TimeInv` says where the one halving of a time has already happened: in the
ioctl for subpictures, in the write for video, which is why only a video write
that is tried again halves twice; `TimesAreExact` leaves that out, and a start,
SETPTS or flush that changes the time under way. `OffsetInv` says by how much the
offset lags behind the FIFO, inside a write and by the bytes of failed ones. `OrderInv` says that the occupied
entries are those between the card's and the pointer, numbered in turn.

That a mask is a remainder is proved and not assumed. `Em8300Bits` defines `&`
as a recursive function on words; `AndUnfolds` shows that the function is what
its equation says, `MaskIsRemainder` that `x & (n - 1)` is `x % n` for a power of
two. Both are inductions on numbers by `SetInduction`, an instance of
well-founded induction with a set for the predicate, which the library's own
theorems on induction cannot give to these provers.

### The interrupt mask and the audio settings (`Em8300AudioProofs`)

- `MaskFitsOpen`, `VbiIsAnswered`, for any number of changes and loads:
  unless two changes overlapped, at most one is under way, and what it is about
  to store is made from the mask as it is (`MaskInv`). A VBI ioctl that nothing
  has disturbed finds its bit in everything that will be written to mask or
  register (`VbiInv`).
- `AudioSettingsAgree`, for any set of rates: `SettingsInv` says from which step
  of an open on the rate and the mode fit, and that the multiplier and the
  preparation of the FIFO always do.
- `SoundIsKept`, for any length of write and any size of block: a frame of a
  prepared slot is the frame written, in the right channel and order. `WriteInv`
  says that a write which no change has torn goes by the settings as they are.

### The ALSA transfer (`Em8300AudioProofs`)

For any sizes of the application's buffer, the card's and the ring, and any
blocks (`PlaybackIsAccounted`): `NothingIsOverwritten`, `StreamIsQueuedInOrder`.
The driver keeps pointers modulo two sizes, and slots that say where in a buffer
they begin; the invariant ties each to its place in the stream. `Counted` and
`SeenInv` do so for the pointers. `Chain` does for the slots: each begins where
the one before ends, the first where the card has come to and the last at what
has been queued, unless a transfer was lost. The loop that
fills the ring is a recursive function, of which `LoopKeeps` shows by `SetInduction`
on the number of turns that it keeps this.

### The control of a card (`Em8300ControlProofs`)

For any set of encoders and TV modes, any number of ioctls, opens and zooms, any set of
defaults, windows, screens, attributes and pixel data adjustments, any even base
of the clock's halves, any width of an int from 18 bits, and any settings, rates and
sizes of rings:

- `OutputFollowsSettings`: when all handlers have returned, the clock generator and
  the encoder agree with the overlay switch and the TV mode; the output and the size
  of the display controller do if the last call that set them had them for itself,
  found the controller ready and the settings unchanged, whatever earlier calls
  have done to each other;
- `PlayingIsShown`: a video device that plays shows its picture, but for the two
  cases in which the code switches it off for another reason;
- `OneRegisterStale`: two updates of an ADV717x that overlap leave at most one
  register out of date, and updates that do not overlap leave none, whatever
  the encoder;
- `ChipFollowsSettings`: the chip and the display controller hold of the settings
  as many bits as a register has, for any values of the attributes, except for what
  `changed` names, where a jitter of more than four bits counts among the signals;
- `PicturesFit`: the picture stays within that of its TV mode at every zoom, a
  window that touches the screen is cut where the screen ends (but for the case
  of a window that is cut above and below, which the property names), and every
  resolution that the ioctl takes gives a scale and a divider that fit;
- `CalibrationIsKept`: a calibration that has ended keeps what it found in driver
  and file, and one that failed writes no value of an unfinished search;
- `ParametersAreKept`: the set-up of an ADV717x puts every parameter in its own
  bits of the tables and leaves every other bit as the source has it;
- `DarkIsDark`: once set up, an ADV717x has its converters off or holds the whole
  table of its mode, and a BT865 whose output is off is dark in NTSC only;
- `NumbersFit`: after either ioctl on the clock it is as close to the time asked
  for as the tolerance and the duration of the call allow, unless a carry fell
  between the halves; the picture bytes grow with the settings and fit their
  registers for a contrast of 0 to 1000 and any brightness and saturation whose
  products fit an int; what is computed from times and pointers fits its register
  and is what they mean.

A handler of `Em8300Output` is a list of calls, and a control ioctl and a file
operation take turns call by call, so in the middle nothing agrees with
anything. `OutputInv` therefore speaks of the calls that are left, in both lists
together (`Pending`). Whatever is not yet as it should be has a call left that
sets it (`Following` for the display controller, as far as `sure` claims it;
`Placed` says which step of a call a process is at, `TvSure` and `SizeSure` what
has been written by then; `Heading` for overlay switch,
clock and TV mode, `Fresh` for the registers), and all such calls agree on where
they lead: that is why `Heading` has one overlay switch and one TV mode
for both lists, and why `Separate` is needed, which says which of the two
processes makes which calls. `Showing` says that a picture that is due is on
unless a call that decides about it is still to come. `LookedUp` says that a
value to be written is next in its list: so only one value can grow old between
its lookup and its write, which is the one register. Each call and each
handler has a lemma of its own; what a list may leave open and what must follow
is stated of lists (`ListOK`) and carried over `Tail` and `\o` by a few
lemmas about them.

`OverlayInv` repeats what `ChipFollows` says of chip and controller and adds what
makes it inductive: the range of the jitter, that the overlay is
connected exactly while overlay mode is on, and that mode and switch fit. Of
register 7, in which a signal and the jitter are packed, it needs that every way of
writing the one leaves the other alone (`Jitters`, `Signals`, `NewJitter`).

`PicturesFit` is arithmetic on settings of which `PictureOK` says what each
operation leaves: a known TV mode, a resolution that the ioctl has taken, the last
rate of the lines within what the chip can count, offsets of any value. The card's
coordinates are quotients by a scale that is not fixed, rounded toward zero; that
such quotients rise with the distance, and what two of them lose against their sum,
is proved once (`QuotientsRise`, `ScaledInts`) and is why the right edge may pass
that of the frame by one. A window may lie anywhere: no bound on its place or size
is used (`ColumnsFit`, `LinesFit`). That the divider fits rests on a bound of the
rate (`RateFits`): a rate four times as high would leave a line no pixel.

`CalibrateInv` says of each call of a calibration what has been found so far and
where it is (`Halfway`): a field that has been searched agrees in program and
driver and puts the picture where the sensor saw it; of the others the program
has what it read. Once the calibration is over, `Ended` says of the program's
values what `CalibrationKept` says of the file's, so that emptying and writing
the file keep it. That each search finds what it says (`LineSearched`,
`PixelSearched`, `ScaleSearched`) is shown for any tries at which the sensor may
answer, within the number of tries the code makes, and any scale.

`EncoderInv` says which bits of an encoder's tables are not those of the source:
after the probe that of the colour bars, after the set-up those of
`ParameterBits`. `BitSet` shows that SET_REG changes one bit of a byte, by
writing a byte as the sum of its bits (`ByteBits`, `NumberBits`); `ChangedThen`
adds one assignment to those made before, if it is of a bit that none of them
has, and the set-up is twelve of these for each chip (`SetUpTables`). That the
bits are distinct is checked for each chip there, and is why the order of the
commands does not matter.

`ArithInv` says how far the clock may have run while an ioctl holds one of its
halves (`Elapsed`): without a carry the lower half only grows, by no more than
the ticks counted. The distance on a clock that wraps is a metric
(`ApartBounds`), and both ioctls, though they subtract in different ways, find
no less than it (`TestKeeps`). The rest is computed in one step. The walk through
a FIFO's slots is a recursive function, solved by exhibiting its solution
(`WalkIsDistance`); it rests on the mask being a remainder, which is proved by
doubling for the sizes up to 256 that `IsPowerOfTwo` names (`MaskOfPowers`).

### The I2C pins (`Em8300BusProofs`)

For any transfers of bytes of two to eight bits:

- `TransfersArrive`: a transfer over the I2C pins that no other overlaps gives its
  device the bits meant for it and no others, whatever earlier transfers left on the
  lines; the clock generator gets its number of bits even if one does; and when none
  overlaps, the card is left driving the data line.

`BusInv` says where the writes that a transfer has left will take its device. What a
device sees of the lines and has taken is a view, and `Leads` says of a list of
writes that it leads from any view of one set to a view of another; a list and the
list after it lead where the second does (`LeadsJoined`), and so do the bits of a byte
(`JoinedLeads`, which solves the recursive function `Joined`). Each routine of the
source is shown to lead from a device that has taken nothing, its clock high, to one
that has taken its frame (`WriteLeads`, `ReadLeads`, `EncoderLeads`, `ClockgenLeads`);
nothing is asked of the other lines, of whether the encoder listens, or of who drives
the data line, and so a transfer may follow any other. That the clock is high when a
transfer begins alone is `Restored`: every list that lowers the clock raises it again
(`Restoring`). A step of the process then takes one write off its list
(`TakesLeft`). For the clock generator the same is shown of sets of views that speak
of nothing but its own clock and the bits counted (`Blind`), which no one else can
leave: that is why it gets a whole byte from an overlapped transfer too.

### What the driver holds (`Em8300LifeProofs`)

For any number of probes, loads and failures (`TakenIsGivenBack`): `LifeBalanced`.

What is held is a matter of how far two lists of calls have come, and of what failed
on the way. The proof rests on an observation about the source: there is one order
(`Place`) in which every list of the driver stands, that of a probe with its unwinding,
that of a load and that of a removal (`Increasing`). So the *set* of the calls
that are left, `OfCard` and `OfModule`, says how far a list has come, and no lemma
about a step looks into a list. Each list is shown to have its calls and its order by
joining its pieces (`PieceJoined`).

`LifeInv` says what is held when just these calls are left. `ProbeOK`: a probe has
taken nothing whose turn has not come, and will have card and registers.
`LoadOK`: a load frees each FIFO before it allocates it, unless it does
not hold it. `ShutOK`: all that a card that goes still has will be given back, but
for what a failed probe is known to leave. `EnabledOK`: subdevices are there only
on a card that its removal will find enabled. `PointersOK` and `BuffersOK` relate
what is pointed to, what is held and what was passed over (`ignored`); `LostOK`
is then what is given back in vain or lost. `QuietOK` keeps the handler away from
FIFOs that come and go: while a pointer to one leads nowhere, no interrupt can
come but one that was under way when they were masked. `ModuleOK` and `DependsOK`
carry the order of what depends on what. There is one lemma for each kind of call
and each of these parts (`CardTakes` to `ModuleGives`), then one for each action.

### Only model-checked

Every safety invariant of the passing runs is stated by a theorem. What is left:

- The four liveness properties: two of the ring, one of the presentation times,
  one of the interrupt mask. These provers do not do `ENABLED`, without which
  nothing follows from fairness.

## What is not modelled

- Register access (`em8300_misc.c`): loops that poll a register and copy words.
  They keep no state; where one may fail, the module of the caller chooses. (The
  time-out of `em8300_setregblock` can never return ETIME: the test for it is in
  the loop, which ends before it could hold.)
- The content of the microcode and its upload, the EEPROM and the table of card
  models, the text of procfs and sysfs, devfs, the printing of parameters: they
  decide nothing that another component keeps.
- The raw register ioctls, which let a program do anything to the card, and
  the 32-bit conversion, which passes on what it is given.
- The commands of the subpicture device for palette and buttons, which only
  write registers, and the OSS ioctls that only report (GETOSPACE, GETOPTR).
- The single bits of the IEC 958 status block, the gamma table and key colours
  found by calibration.
- The snapshot and writer programs, em8300setup, the GUI and the scripts:
  single-threaded callers of the ioctls.
- More than one card: the cards share the table `em8300[]` and the drivers'
  registration, nothing else. (`em8300_cards` is never counted down, and nodes
  are registered before the table's entry is set.)
- Memory ordering between processors, and what the card's microcode does with
  pointers that make no sense.

## Plan

Done: the ring and its abstract queue, flush, ownership, presentation times;
the control side and the audio path of the card; the interrupt mask; the life of
a card. Proved: every safety invariant and the refinement of the ring, the flush,
ownership, presentation times, audio settings and samples, the ALSA transfer and
the interrupt mask; the output, the encoders, the overlay and its calibration, the
numbers in registers, the I2C pins, and what the driver holds. Nothing of the plan is
left open.
