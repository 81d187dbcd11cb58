# qxDOS in TLA+

qxDOS runs DOS programs on iOS and macOS. Its own core is `emu88`, a 386 PC
emulator in C++, wrapped by an Objective-C bridge (`qxDOS/Bridge`) and a Swift
application (`qxDOS/Views`); a second back end runs DOSBox. This directory holds
TLA+ models of the parts of that program that are hard to test: what two threads
do to one object, what a device and its driver do to one ring, what survives a
restart, what an instruction leaves behind when it faults half way. Each model
was translated from the source; `PROJECT.json` gives, definition by definition,
the lines it stands for.

All source paths below are relative to `src/`.

1. [The system](#the-system)
2. [Modules](#modules)
3. [Runs](#runs), with bounds and fairness
4. [Proofs](#proofs)
5. [Where the code disagrees with what is said of it](#where-the-code-disagrees-with-what-is-said-of-it)
6. [Not modelled](#not-modelled)
7. [Plan](#plan)

## The system

### Threads

| thread | runs | touches |
|---|---|---|
| main | SwiftUI, `EmulatorViewModel`, the bridge's entry points (`-sendCharacter:`, `-stop`, ...) | keyboard fields of the machine, mouse and joystick atomics, serial queue, `_shouldRun`, the delegate, the disk library |
| emulator (one serial queue per `Emu88Emulator`) | `-runLoop`: `run_batch`, audio refill, video, network pump | the whole machine, the audio ring's producer side |
| loader (a background task per start) | reads disk images | the emulator object before it is started |
| downloads (background tasks) | fetch, verify, move images | the Disks directory; everything else through blocks on the main queue |
| audio (CoreAudio) | the `AVAudioSourceNode` render block | the audio ring's consumer side |
| DOSBox (one queue per `DOSEmulator`) | `dosbox_init`, `dosbox_run`, cleanup | the engine's process-wide state |

Two locks exist (serial queues, network queue). The audio ring is lock-free by
design. The machine itself has no lock, although the main thread writes it.

### Components

For each: its state, what is hard about it, what makes it right, and the module.

| component, source | state | hard | right when | module |
|---|---|---|---|---|
| Audio ring, `Emu88Emulator.mm:30-75` and the refill | slots, `wpos`, `rpos` | stale views of the other cursor, wrap of a 32-bit cursor | it is a FIFO that loses and repeats nothing | `AudioRing` |
| Keyboard path, `queue_key`, INT 16h, port 60h | BIOS ring in guest memory, scancode ring, wait flag, poll counter, latch, semaphore | two threads write every field without a lock; a wait rewinds the guest's IP; the thread sleeps | a key is read once, in order, and the guest resumes on an instruction | `Keyboard` |
| Interrupt delivery, `run_batch`, `check_interrupts` | one-slot latch, IF, HLT, device levels, FERR/IGNNE# | a later request overwrites an earlier one; devices are looked at only in some passes | who asks is served, handlers do not nest, the CPU makes progress | `Interrupts` |
| Session lifecycle, `EmulatorViewModel.swift`, `Emu88Emulator.mm` | published flags, installed emulator, blocks on the main queue, objects and who holds them | cancelling while loading, exits that arrive late, a destructor that waits | what runs is what the user sees and can stop; nothing is freed under a running loop | `Session` |
| DOSBox bridge, `DOSEmulator.mm`, `dosbox_bridge.cpp` | the engine's state, cached images, shutdown flags | one engine per process, a stop that waits only so long | one session at a time in the engine, every ending ends | `DosBox` |
| Disk library, `EmulatorViewModel.swift`, `DiskCatalog.swift` | files, states of downloads, attached drives, manifest drives | background moves against deletions, two downloads of one image, a new catalog | an image of the catalog on a drive is known as such; a download that is waited for ends | `DiskLibrary` |
| NE2000 and host network, `ne2000.cc`, `Emu88SlirpNet.mm` | registers, 32 KB of packet memory, the host's frame queue | three wrap rules, full against empty, arrival between any two accesses | frames get to the driver whole and in order | `Ne2000`, `Network` |
| 16550 UART, `uart16550.cc` and the bridge's queues | receive FIFO, enables, latches, cached identification | four sources on one line, an edge that a read retires, loopback | bytes keep their order; the driver gets the interrupt it waits for | `Uart16550`, `Serial` |
| Sound Blaster, `sound_blaster.cc` | DSP command machine, 8237 channel, playback | commands and resets in the middle of commands, a block end inside a render call | DSP and driver agree on every byte; a block end means the block was played | `SoundBlaster` |
| PIC, PIT, 8042, DAC ports, `dos_machine.cc` | read and write phases, ICW sequence, counter latch | a sequence left half way | a whole sequence works whatever was there before | `Chipset` |
| Text screen, INT 10h of `dos_bios.cc` | text memory, cursors, pages | line ends against scrolling against pages | no text is lost but off the top | `TextScreen` |
| VESA and VGA memory, `dos_bios.cc`, `dos_machine.cc` | mode, window, line length, start, unchained planes | four ways to the same byte | what is drawn is shown where it was drawn | `Framebuffer` |
| BIOS disk services, INT 13h | geometries, mapped images | two addressings of one image, limits from its size | just the sectors asked for move | `BiosDisk` |
| XMS driver and DPMI memory, `dos_bios.cc`, `dos_dpmi.cc` | a handle table each, the DPMI host's cursor | two services place blocks in one memory without knowing of each other; sessions follow each other | no memory has two owners | `ExtendedMemory` |
| DPMI host, `dos_dpmi.cc` | descriptors, DOS blocks, copies of low memory, exception state | low memory has two sides that are exchanged around every call; calls nest | each side finds its own; descriptors, tables and caches agree | `DpmiCalls`, `DpmiServices` |
| Protected mode, `emu88_pmode.cc` | segment caches, tables, TSS, exception in flight | a fault during a fault, privilege changes, tasks that nest | privilege, selectors, descriptors and tasks agree; a return restores | `ProtectedMode` |
| CPU: memory operands, `emu88.cc` | registers, pages, pending fault | a fault in the middle of an instruction that is executed again | a restarted instruction ends as if the page had been there | `FaultingOps`, `FaultingStack`, `FaultingPrograms` |
| CPU: integer arithmetic, `emu88.cc` | registers, flags | boundaries, three processors | numbers and flags are those of the processor | `Alu`, `AluReference` |
| x87, `emu88_f80.h`, `emu88_fpu.cc` | register stack, tags, control and status | rounding at every boundary, masked responses | results are the exact ones, rounded | `F80`, `F80Ops`, `Rounding`, `FpuReference`, `FpuStack` |

Interactions: the main thread calls into the machine directly (keys, serial,
mouse, stop) and gets called back by blocks on the main queue; devices reach the
CPU through the interrupt latch that `run_batch` fills and `check_interrupts`
empties; the audio threads share the ring; XMS and DPMI share extended memory;
the DPMI host runs real-mode code by nested execution loops.

## Modules

```
AudioRing --+
Keyboard  --+--> BoundedFifo          Network (EXTENDS Ne2000) --> FrameChannel
Serial    --+                         ExtendedMemory           --> BlockAllocator
  (EXTENDS Uart16550)

MCSession      Session, DosBox
MCMemory       ExtendedMemory, DpmiCalls, DpmiServices, ProtectedMode
MCDevices      AudioRing, SoundBlaster, BiosDisk, TextScreen, Framebuffer, Chipset
MCInstructions FaultingPrograms (-> FaultingStack -> FaultingOps),
               FpuReference (-> F80Ops -> F80, and Rounding), FpuStack,
               AluReference (-> Alu)
MCDiskLibrary  DiskLibrary
MCFaultingPush FaultingPrograms
```

An arrow on top is a refinement: the abstract specification instantiated under a
mapping and given as a PROPERTY. The `MC` modules give a component's constants
their values; those with several components let `Init` pick one, since components
that do not touch each other need not be interleaved. `x_proof` modules hold
theorems; `Devices_proof` is about the devices of `MCDevices` and the serial line and
takes its arithmetic from `TextScreen_proof`. Where no `MC` module is listed the configuration is for the component's
module itself.

Operators introduced by a comment "Bug:" are not part of a model: each is what a
plausible mistake would make of the definition that follows it, and is there so
that a property can be seen to fail.

### AudioRing

One action per access to something shared: load of a cursor, copy of one slot,
store of a cursor. `Refill`, `PushLoad`, `PushCopy`, `PushPublish` are the refill
and `push`; `PopLoad`, `PopCopy`, `PopPublish` are `pop`. `Modulus` stands for
2^32. The release/acquire pairs of the code order slot copies against cursors,
which is why an interleaving of these steps covers what the hardware may do.

- `RefillNeverClipped`: the silent clip in `push` never drops rendered sound.
- `IsAFifo`: the two threads implement `BoundedFifo`.

### Keyboard

The main thread's `queue_key` and `-sendCharacter:` one access at a time, the
emulator thread's batch loop one access at a time, and a guest that chooses its
instructions from `Program` (INT 16h read and check, another BIOS call, CLI, STI,
HLT). `skew` is where IP is relative to the instruction the guest means to
execute, so a rewind too many is visible.

- `KeysAreAFifo`: the BIOS ring, shared without a lock, implements `BoundedFifo`.
- `IpOnInstruction`: the guest executes only at instruction boundaries.
- `NoLostWakeup`: the emulator thread does not sleep on a key already queued.
- `KeyIsRead`: a guest that keeps asking gets every queued key.

Left out: AH=05h (the guest stuffing a key), the guest's own writes to the BIOS
data area, shift flags. The timer vector stands for INT 08h and the INT 1Ch it
chains to.

### Interrupts

One action per stage of a pass of `run_batch`: instruction, timer, NE2000, UART,
Sound Blaster, `check_interrupts`. `Request` overwrites the latch, as
`request_int` does. `Masked` and `Hooked` are fixed per instance; `TickGap` is how
many instructions fit between ticks. The handler of an x87 error may or may not
clear the status word.

- `SlotFreeBetweenInstructions`: nothing stays in the latch, so no request is
  delivered into a later, unrelated context.
- `HandlersDoNotNest`.
- `EveryoneIsServed`: to a guest that ends up with interrupts on, a network or
  serial level is offered again and again, a block end and a latched x87 error are
  offered once they can be taken, and an error left in the status word does not
  park the guest - although the latch loses requests.

### Session and DosBox

`Session`: user events (`Start`, `CancelStart`, `DetachDelegate`: the beginning of
`-stop`), background loading, blocks on the main queue (`GiveUpStart`, `Install`,
`DidExit`) and each emulator's run loop. `refs` is who holds the object; dropping
the last one runs `-dealloc`. Blocks that were on the main queue when a user event
ended run before the next one (`owed`), as a main run loop does. `Patient`
restricts the user who cancels to wait until the disks have stopped loading.

- `OnlyTheShownRuns`: no emulator runs that the user neither sees nor can stop.
- `StopIsSafe`: no machine is freed under its run loop, an exit is reported only
  of a guest that halted, an emulator is destroyed on its own queue only then.
- `EveryEndingEnds`: `-stop` returns, a halted guest leaves the screen, a DOSBox
  session asked to end ends.

`DosBox`: start, loading, `dosbox_init`, run, shutdown request, the bounded wait of
`-stop`, cleanup, saving of images, and both ways out of the process.

- `OneDosBox`: at most one session is between `dosbox_init` and its cleanup.
- `SavesAreFresh` (fails, see below).

### DiskLibrary

Catalog versions, `downloadDisk` with its retries, checksum, move and main-queue
block, auto-downloads for drives that wait, deletions, blank images, downloads
from a URL, and what is attached where.

- `CatalogDisksAreTracked`: an image of the catalog is attached only to a drive
  that is in `manifestDrives` (whose write protection and warnings hang on it).
- `WaitsEnd`: a drive that waits for a download does not wait forever.
- `OwnImagesStay` (fails, see below).

### Ne2000 and Network

`Ne2000` is the card: registers in one record, packet memory as a function, one
operator per register write, DMA access and `receive`. `Network` adds the host's
queue with its limit, the machine's poll, and a packet driver: set-up in either of
two orders, either convention for BNRY (on the next page to read or one behind),
acknowledging, ring reading, sending, reset. The driver is a guest program, modelled
from what DP8390 drivers do and marked external. A frame is a value with a length,
its header one address instead of four.

- `NoPageLeaks`: the free space `receive` computes from CURR and BNRY is what the
  unread frames leave of the ring.
- `SentIsUploaded`: what leaves for the host is what the driver uploaded.
- `FramesInOrder`: card, queue and driver implement `FrameChannel`.
- `FramesAreRead`: every frame the card took is read.

Left out: the destination filter, loopback, register read-back, the driver's
masking of single sources.

### Uart16550 and Serial

`Uart16550`: a record, one operator per register write, read and poll; each ends in
`UpdateStatus` as the code's do. `Serial` adds the host's queues, the machine's poll
and an interrupt-driven guest whose foreground changes FIFO mode, clears it, loops
back and sends through the THR-empty interrupt.

- `HostBytesInOrder`: FIFO and host queue together are one bounded queue, in spite
  of clears, loopback and overflow.
- `BytesGetAcross`: what the guest sends is sent, the handler's loop over IIR ends,
  and at trigger level 1 every byte received is read.

Left out: the divisor latch, line format, scratch register.

### ExtendedMemory

One action per function that changes a table: `XmsAllocate`, `XmsFree`,
`XmsReallocate`; `ModeSwitch`, `Terminate`, `Allocate`, `Free`, `Resize` of the DPMI
host, over any number of sessions. The XMS driver puts a block above the highest end
among its live handles; the DPMI host above a cursor that only a mode switch sets
back. `grown` is history: XMS handles made larger in place.

- `OneOwner`: no unit belongs to two of: XMS blocks not grown and ending below the
  DPMI arena, the session's blocks, the host's own tables.
- `IsAnAllocator`: the DPMI host implements `BlockAllocator`.

Left out: A20 and the high memory area, lock counts (no function looks at them),
the moving of data, reports of free memory.

### DpmiCalls and DpmiServices

`DpmiCalls`: low memory as two sides, the exchange around reflected interrupts and
nested real-mode calls, raw switches, the stacks of nested loops, termination.

- `SidesStayApart`: real mode and the client each find their own low memory, and
  nested reflections have stacks of their own.

`DpmiServices`: descriptors (0000h-000Ch), DOS memory (0100h-0102h), 0002h's table,
exceptions and their return, one segment register with its cache.

- `SelectorsAgree`: the table, what the client owns, the tables of 0002h and 0100h
  and the cached segment register agree.

### ProtectedMode

Segment loads, far transfers, gates, interrupts, exceptions up to the triple fault,
task switches, virtual-8086 mode, on a given set of descriptors. The tables are the
guest's: `ProtectedModeAssumption` says what they must be like for transfers to be
those that the guest means. Rings 0 and 3; conforming code of ring 0; call and
interrupt gates into ring-0 code, trap gates also into ring 3; exceptions through
interrupt gates; a handler for IRQs; a present segment for each task, and no stack
that two tasks share. Descriptors that are absent, of the wrong type or of another
level, null targets, missing vectors and busy tasks all occur.

- `LevelsAndTasksAgree`: CPL, the selectors of CS and SS, their descriptors and the
  busy bits of tasks agree.
- `ReturnsRestore`: a return goes back to the instruction, stack, privilege and
  flags it was left with.
- `FaultsAreRestartable`: a fault leaves what the instruction can be run again from.

### SoundBlaster, Chipset

`SoundBlaster`: command bytes, parameters, replies, reset at any point, the channel's
registers behind their flip-flop, playback by render calls of any length. A driver
programs it and keeps what it means to have programmed in variables of its own.

- `DspInStep`: the DSP takes each byte for the command or parameter it is meant as,
  and holds just the replies that are waited for.
- `BlockEndMeansPlayed`: a block end is reported when the block was fetched, in order.

`Chipset`: ICW sequence, counter loads and latch, palette index and components,
controller commands.

- `WholeSequencesWork`: a sequence of bytes sent or read as a whole does what it is
  for, wherever the one before it was left.

### BiosDisk, TextScreen, Framebuffer

- `TransfersAreExact`: INT 13h moves just the sectors asked for, and the last place
  the drive parameters name is the last there is.
- `ScreenShowsText`: the screen shows the last rows of an endless paper; a line is
  scrolled once and as a whole, the cursor is behind the last character, other pages
  are untouched. Nothing is said of scrolling, or of the control characters of a
  string, on a page other than the first.
- `FrameShowsDrawing`: a pixel drawn where the services say it is, through window or
  aperture, is where the frame shows it after any change of mode, line length, start.

### FaultingOps, FaultingStack, FaultingPrograms

Memory as two frames of pages that may be absent or read-only, `pending` faults, a
pager, and instructions: string instructions with REP, read-modify-write, loads and
stores, XLAT, BOUND, ARPL, segment loads and far pointers (`FaultingOps`); PUSH, POP,
PUSHA, POPA, ENTER, LEAVE, CALL, RET, PUSHF, POPF in real, protected and V86 mode
(`FaultingStack`).

- `RestartsAreTransparent`: an instruction that faulted and was run again ends as it
  would have with all pages there (fails for PUSH, see below).
- `Completes`: it does end.

Programs marked `resident` have their pages in memory, an instruction touches two
pages at most; what is excluded by that is listed under "Others met".

### Alu and AluReference; F80, F80Ops, Rounding, FpuReference, FpuStack

`Alu` is the code, at a small width, for three processors; `AluReference` says in
numbers what each instruction should do (`IntegersAreRight`). `F80` and `F80Ops` are
the code's arithmetic on a small format; `Rounding` says in terms of sets of values
what a rounded result is (`RoundsCorrectly`). `FpuStack` is the register stack.

- `StackFaultsAreIndefinite`: a masked stack fault delivers the indefinite value.
- `SavedStateComesBack`: FSAVE and FRSTOR, FSTENV and FLDENV restore.

## Runs

| run | expected | shows | distinct states |
|---|---|---|---|
| `MCKeyboard` | holds | safety, refinement and liveness of the key path | 560 k |
| `MCInterrupts` | holds | delivery from all sources | 460 k |
| `MCSession` | holds | both back ends' lifecycles, with a patient user | 130 k |
| `DosBoxSaves` | fails | a DOSBox session that ends by itself saves an old image | |
| `MCDiskLibrary` | holds | downloads, catalogs and drives | 340 k |
| `DiskLibraryOwn` | fails | a new catalog deletes the user's own images | |
| `MCNetwork` | holds | card, queue and driver | 460 k |
| `MCSerial` | holds | card, queues and guest | 120 k |
| `MCMemory` | holds | XMS, DPMI memory, calls and services, protected mode | 1.1 M |
| `MCInstructions` | holds | faults and restarts, arithmetic, x87 | 1.2 M |
| `MCFaultingPush` | fails | PUSH moves SP before the store that may fault | |
| `MCDevices` | holds | audio ring, Sound Blaster, disk, text, frame buffer, chips | 1.2 M |

Deadlock is checked in `MCNetwork` only. The others may stop: a guest in HLT with
interrupts off, a session after its last start, a serial line after its last byte, a
machine shut down by a triple fault, a component after the calls it is allowed.

### Bounds

Every counter capped in a guard has a constant of its own (`MaxPresses`, `MaxEvents`,
`MaxStarts`, `MaxIn`, `MaxOut`, `MaxHandle`, `MaxPlayed`, `MaxCalls`, ...). The
others are the code's own constants made small, large enough that full, empty,
wrapped and one-below-full all occur.

- Keyboard: rings of three words that begin full but for one and at a chosen word
  (`FirstWord`, `TypedAhead`), so that they wrap and fill within the presses left.
- Interrupts: batches of four instructions, polls every second pass.
- Session: five starts, enough for two overlapping sessions and leftovers of a third.
- Network: seven pages: PROM, hole, one page to send from, a ring of four. Three
  frames fill it and a two-page frame straddles its end at every offset. A driver
  one behind needs a ring of two pages or more, a header and data a page of two
  addresses; both are assumptions of the model.
- Serial: a FIFO of two, three bytes from the host, two from the guest.
- ExtendedMemory: fifteen units, pages of two, tables of two, three handles: tables
  fill, memory runs out on both sides, blocks are freed below others.
- DpmiCalls: calls nested two deep in the host's own; DpmiServices: an LDT of four,
  one entry in each of the other tables, one exception at a time.
- ProtectedMode: a kernel, a program at ring 3 or in V86 mode and a second task, two
  transfers nested in each.
- Devices: a port byte of two values, buffers of two and three units, render calls of
  one and three, a palette of two, three rows of text, 8 bytes of video memory in
  banks of four. A palette of one entry would not show an index that runs on.
- Instructions: two frames of two bytes; integers of three bits; a significand of
  four bits with every class of exponent; an x87 stack of two.
- DiskLibrary: one image, two drives, two downloads at once, two attempts each.

### Fairness

- Keyboard: both threads are scheduled (`WF` of each). No fairness on key presses.
- Interrupts: the emulator runs (`WF` of `Next`), none on any device or on ticks.
- Session: main-queue blocks, the loader and each run loop are scheduled. DosBox: the
  main thread's continuation weakly, its blocks strongly (it is busy now and again),
  the loader and the run thread weakly, until the process is gone. DiskLibrary: each
  task runs. The user and the guest owe nothing.
- Network and serial: the poll, the driver's handler and its foreground send (for serial
  the guest's handler and the host's reading) are weakly fair, being code that their
  threads run unconditionally. The start of
  the network handler is strongly fair: the driver turns interrupts off when it sends,
  and the poll raises the level again; that such an offer gets through the one-slot
  latch is what `EveryoneIsServed` establishes in `Interrupts`. The serial line's
  `PollInterrupts` is strongly fair for the same reason.
- Instructions: the processor and the pager run (`WF` of `MemoryStep`).

## Proofs

TLC decides small instances; the theorems hold for all values of the constants that
satisfy the assumptions named in the components' modules. Every safety theorem is
proved by an inductive invariant that contains the property; what follows says what
had to be added to it, and why.

### Hypotheses

Six theorems are implications. Each hypothesis is a restriction the runs have too,
and without it TLC finds the property violated:

- `Patient` (`NoneRunsUnseen`, `StopsAreSafe`): the user who cancels a start waits
  until the disks have stopped loading. Otherwise both emulators are installed
  (`EmulatorViewModel.swift:229`).
- `Hooked = Line` (`IpStaysOnInstructions`): the guest handles both interrupts.
  Otherwise an interrupt that reaches the ROM stub rewinds IP (`dos_machine.cc:805`).
- `NoWrap` (`NoMemoryHasTwoOwners`, `ImplementsAllocator`): no request takes the
  32-bit end of a block past 2^32 (`dos_dpmi.cc:1262`).
- `TwoTasks` (`EveryReturnRestores`): task calls do not nest. Otherwise the IRET that
  returns to a task clears the NT flag by which that task itself would return
  (`emu88_pmode.cc:1124`).

### Keyboard_proof

`NoWakeupIsLost`: the invariant follows each step of the decision to sleep: once the
emulator thread has found the ring empty, a press that comes in between either will
still be seen by a look it has yet to take or has left a permit on the semaphore.
`IpStaysOnInstructions`: IP is `skew` words from an instruction only while the rewind is
pending, and a frame on the stack returns to where the guest was.
`KeyRingIsAFifo`: the same mapping as the audio ring's, with the word the cursor never
fills.

### Interrupts_proof

`TypeCorrect`, `SlotFree`, `NoNesting`. The invariant says at each stage of a pass what
the latch can hold (`SlotInv`: a request is there only after a source has offered it in
this pass, with IF set) and that a frame exists only with IF clear (`HandlerInv`).

### Session_proof

`NoneRunsUnseen` and `StopsAreSafe` rest on `SessionInv`, which says for each emulator
who holds it and what may still be on the main queue for it, depending on how far its
start has come: a block that installs is there only while the start it belongs to is the
current one or has been cancelled, an exit block only for a guest that halted.
`OneDosBoxAtATime` rests on `BoxInv`: who has entered the engine is the run thread of the
view that holds it, and the next start passes the guard only after its cleanup.
`CatalogDisksStayTracked` rests on `TrackInv`: every step that attaches an image of the
catalog enters the drive into `manifestDrives` in the same step, and every step that takes
a drive out detaches it.

### Network_proof

`PromIsReadOnly`: every path that writes packet memory goes through one test on the address
(`RamWrite`), and PROM addresses lie below every address it lets through.
`UploadIsWhatIsSent`: `SendInv` says that the transmit buffer holds what was uploaded from
the upload's end to the transmission's. It needs that CURR never leaves the ring (in the
set-up too, where the driver has not yet written it) and that the ring lies above the buffer.

`NoPageIsLost` and `CardIsAChannel`: `RingInv` says that once CURR is written the unread
frames form a chain: the places of their first pages, counted from the oldest, strictly
increase, start at 0 and end at CURR; each header points to the page after the frame; all
lie below the ring size less the page that a driver one behind holds back; and the driver,
in the middle of reading, stands in the first. `Unread`, a recursive walk over the headers
in packet memory, is shown to find that chain by induction on how many frames are left. The
step lemma says that a step leaves the chain, appends one frame or drops the first; from it
follow the conservation of pages and, frame by frame, the refinement of `FrameChannel`. The
arithmetic of the wrap (a frame's next page, reading across the end of the ring, the free
space from two cursors) is in lemmas of its own.

### Dpmi_proof

`EachSideKeepsItsOwn`: for each level of nesting, where the side that is not in memory is
kept, and that the levels' copies and stacks are distinct. `SelectorsStayTrue`: `ServicesInv`
adds to the agreement of the tables that the copies of the segment register saved by
exceptions in progress agree as well, for each restores its own.

`TypeCorrect`, `NoMemoryHasTwoOwners`, `ImplementsAllocator`, of the memory that XMS and DPMI
clients are given. The invariant is that every
live block ends at or below the place where the next one goes: for XMS the highest end is
that by definition unless something grew, for the DPMI host it is the cursor, which no call
but a mode switch takes back; handles are below the counter for the same reason. `Free` and
`Resize` name the first entry with a handle, and distinct handles make it the only one.

### ProtectedMode_proof

`PrivilegeIsKept`, `EveryFaultIsRestartable`, `EveryReturnRestores`. That a return restores
what was left is far from inductive: it has to be known of every frame of every task that it
is still there, whole, on the right stack, and that what it names can be loaded again. `IsGood`
says, of each task's transfers that are still to be returned from (`IsHistory`):

- the state left could be gone on from: its code and stack are of one ring and present, its data
  segment not of an inner one (`IsContext`, `Fit`);
- the frame is as large as its kind of entry makes it and lies at the entry's place on its stack
  (`IsTransfer`), and it holds what was left as long as nothing was popped below it (`Live`,
  `Frame`). A change of rings begins the ring-0 stack anew: later entries are never in an outer
  ring, so that no frame that is still needed lies there;
- IF, VM and NT are, between entry and return, as the return relies on (`KeepsFlags`): IRET at a
  level above IOPL does not load IF, RETF loads no flag, and IRET with NT set is a task return.

Of the tasks it says that the busy ones are a chain of callers that ends in the current one
(`IsChain`), and that the state saved of a caller is the one its callee's entry names
(`IsLinked`). The first half of the proof is about what becomes of all this when a task goes on,
enters something, returns (`Stays`, `EntersIs`, `ReturnsIs`), or when another one runs
(`TaskCalled`, `TaskReturned`). The second half shows of each instruction, faults and double
faults included, that it does one of these things. Restarting a fault and the agreement of levels
are read off from it.

### Devices_proof

`WholeSequences`: an invariant for each chip of how far it is in which sequence
(`ChipInv`); no chip's steps touch another's state. `CommandsStayInStep` and `BlocksArePlayed`:
`CardInv` says how far the DSP is with what the driver is sending (`InStep`), that the
channel stands where the fetches of the current block have taken it (`Ready`), and what is
counted as played. That a render call of any length crosses any number of block ends is by
induction on the calls of `Sample`; reading at a rate by that on `Cross`.

`HostBytesStayInOrder`: the contents of the abstract queue are the host's bytes in the FIFO
followed by the host's queue (`OfHost` leaves out what the guest looped back to itself). A
poll moves a batch from one to the other and changes nothing; a read or a clear of the FIFO
takes from the front. `OfHost` is shown by induction to split over concatenation; that the
bound is kept needs a count of the bytes on their way, and that the FIFO holds `FifoCap` at most.

`DrawingIsShown`: every byte of every pixel on the canvas is at the place its mode gives it
(`VesaDrawn`, `Drawn13`). A pixel that is drawn leaves the others alone because two pixels
within a line of `stride` bytes share no byte (`PixelsApart`), two of mode 13h no place in
the memory and no place in the planes (`Places13`). The bytes of a pixel, of which any may be
in another bank, are stored one after the other: `Drawn`, by induction. `StartFits` is the
arithmetic of the display start: what fits the lines that the services report fits the memory,
and the start is read back by division.

`CallsMoveWhatTheySay`: the sector of a place is, in the property, how many places come before
it. `Number` has the order of the places (`NumbersInOrder`) and takes every value below the
size of the geometry (`EveryNumber`), so as many places come before one as its number says
(`PlacesBefore`), and that number is the block the code computes (`SectorOfPlace`). Head and
cylinder limits of `BiosDiskAssumption` are what makes the last place fit the registers
(`LastPlace`). `DiskInv` is that images are sequences and keep their lengths; the rest is
which half sectors a copy touches.

The audio ring: `TypeCorrect`, `RingNeverOverfull`, `UnreadIsSafe`, `NothingRenderedIsClipped`. That
the ring is not overfull is not inductive by itself, because a `push` decides how much
to write from an old load of `rpos`. `PendingFits` says that the frames a push has
still to publish fit in the space there is now, since the consumer only ever adds to
it; symmetrically for `pop`. `DistinctSlots` shows that two cursors less than a ring
apart have different slots, even across the wrap, because the ring size divides the
modulus.

`RingIsAFifo`: the contents of the abstract queue are a function of the two cursors
and the slots between them, so a store of a cursor adds or removes a batch at once and
no other access changes anything. `Taken` says what a pop has copied is still the
beginning of the contents; it needs `PendingFits`, for a push could otherwise overwrite
it. Each of the six accesses then maps to one abstract operation or a stutter.

### TextScreen_proof

`TextIsShown`: a scroll moves the rows of its window one after the other. After k of them
(`AfterRows`) the rows moved hold what was in their sources, for no row is overwritten before
it is read; so a scroll is, cell by cell, one move of the window (`Scrolled`). A character then
puts its cell down and either moves the cursor or takes one row off the top (`Rolled`,
`OneCharacter`): CR, LF, BS, BEL and the end of a line are the same on the screen as on the
paper, whose position is `OnPage` of the screen below `Over` lines. `ShowsPaper` is the
invariant of a call, character by character: each cell shows the last character written at its
place of the paper, or what was there before, or is blank (`PaperStep`). What comes onto the
screen with a new row was never written, for positions are never behind the row of a later one
(`LatestRow`). `RunShown` says the same of a run. Between calls `ScreenInv` is all that is
needed: memory holds the pages of every mode, and cursors are positions. They may be off the
screen, where `SetCursor` puts them; the property then speaks of no text.

### Induction

The library's induction theorems take an operator as a parameter and cannot be used here.
Induction over the natural numbers is derived instead (`LEMMA Induction` of `TextScreen_proof`) from the
well-foundedness of strict inclusion on finite sets, for a set of numbers in place of a
predicate; with it the recursive functions above are shown to exist and to satisfy their
equations. RECURSIVE operators stay out of reach.

### Only model-checked

- Liveness: `KeyIsRead`, `EveryoneIsServed`, `EveryEndingEnds`, `WaitsEnd`, `FramesAreRead`,
  `BytesGetAcross`, `Completes`.
- `RoundsCorrectly`, `IntegersAreRight`, `RestartsAreTransparent`, `StackFaultsAreIndefinite`,
  `SavedStateComesBack`: comparisons of two definitions over bounded inputs, whose operators
  on bits are recursive.

## Where the code disagrees with what is said of it

Three runs show a disagreement; `PROJECT.json` quotes the lines.

1. `DosBoxSaves`, `DOSEmulator.mm:179`: after a DOSBox session that ended by itself the
   copy read at its start is written over the image.
2. `DiskLibraryOwn`, `EmulatorViewModel.swift:934`: a new catalog version deletes every image
   in the directory, the user's own with them.
3. `MCFaultingPush`, `emu88.cc:481`: `push_word` moves SP before the store that may fault.

### Others met

By reading or in a model, and not made a run. Where a passing run excludes one by a
restriction, the restriction is named.

Sessions and keyboard:

- `dos_machine.cc:805`: an unhooked hardware interrupt delivered while `waiting_for_key` is
  set takes IP back as if it were the INT that waits (`Hooked`).
- `dos_bios.cc:1128`: `queue_key` on the main thread clears `waiting_for_key` between the
  service and the test for it, and INT 16h AH=00h returns no key.
- `dos_machine.cc:1477-1481`: with one slot left a press is queued and its release dropped.
  `:1466`: a full BIOS ring drops the scancode as well. `:1325`: an IRQ 1 raised again while
  it cannot be taken is forgotten.
- `EmulatorViewModel.swift:229`: cancelling and starting again while disks load installs both
  emulators (`Patient`).
- `Emu88Emulator.mm:663` and `:846`: an emulator whose guest halted can be destroyed on its
  own queue, where `-stop` waits for that queue. `:839`: `-stop` clears the delegate first, so
  the exit that `Emu88Emulator.h:62` announces is not reported. `:823`: a boot that fails
  leaves the view model "running".
- DOSBox: `dosbox_init` never clears the shutdown request, though `docs/restart-static-state.md`
  says so; a failed `dosbox_init` leaves the view model "running"; a start after a cancelled one
  may find an emulator with no disks.
- `EmulatorViewModel.swift:1179-1201`: a temporary file is used in a main-queue block although
  the comment at `:994` says that it does not survive one. A new catalog, or a second download,
  deletes an image that a running session has mapped (against `:780`). Of two drives that wait
  for one image only the last gets it.

Interrupts and devices:

- `dos_machine.cc:645`: a guest in HLT with INT 08h hooked meets the network poll only with
  interrupts off (`Hooked`). `:664`: later sources overwrite a timer request, which the comment
  at `:737` takes care to avoid for the coprocessor only.
- `sound_blaster.cc:578-619`: a terminal count reached by the last fetch of a render call is
  forgotten by the next one. `:235`: the diagnostic F2h stops a single-cycle transfer.
- `uart16550.cc:81`: no character timeout, so at a trigger level above 1 the last bytes of a
  burst raise no interrupt; hence the condition in `BytesGetAcross`.
- `ne2000.cc:422`: a driver that starts the card before it writes CURR has frames received at
  page 0, which the PROM survives (`PromIsReadOnly`). `Emu88SlirpNet.mm:179`: the host's queue
  drops the oldest of 256.
- Chips: a control word does not clear a pending latch; ICW1 does not clear the mask; OCW1
  after an unfinished ICW sequence is swallowed.
- Disks: AH=43h to a CD, whose image is mapped read-only, ends the application; a CD is read in
  512-byte sectors although `get_geometry` says 2048; a partial last sector is written yet
  reported as not written.
- Screen: `video_scroll` always moves page 0, AH=13h's control characters go to the active page,
  the frame shown is page 0 with the active page's cursor. `herc_gfx_on` outlives mode sets and
  the aperture outlives the SVGA mode; `mask_addr` wraps an address beyond memory into it.

Memory and DPMI:

- `dos_bios.cc:1800`: AH=0Fh makes an XMS block larger where it is and looks only at the end of
  memory (`grown` in `OneOwner`). `:1808`: what is reported free may not be allocatable.
- `dos_dpmi.cc:168`: an XMS block that ends above 2 MB is overlapped by the first DPMI block
  (`OneOwner`). `:1262`: the end of a block is computed in 32 bits (`NoWrap`). `:1294`: 0502h
  frees a table entry and never the memory.
- `dos_dpmi.cc:625` and `:1751`: a nested loop ends at the first halt, though `dos_machine.h:258`
  says otherwise. The canary looks at INT 21h only and raw switches never exchange, against
  `:1571`. `dpmi_terminate` restores the vectors but not the BIOS data area. The host's tick and
  keyboard write that area while the client's memory is there. More than eight reflections deep
  two share a stack (`Stacks`).
- 0100h without a free descriptor returns success with DX=0; 0008h caches the exact limit against
  the rounded one of the descriptor; 0001h frees descriptors that are loaded.
- Protected mode: RETF ignores its roll-back (`emu88.cc:3482`, comment at `:3440`); an IRQ right
  after a fault through a trap gate finds no frame (`emu88.h:142`); a jump through a call gate
  changes CPL without a stack switch, and a call gate into an outer ring is not refused
  (`emu88_pmode.cc:934`); IRET to a task that was itself called clears its NT (`:1124`); a
  conforming segment (`:179`) and a gate on the same level (`:932`) keep the selector's RPL in CS,
  which may then differ from CPL (`TableAssumption`).

Instructions:

- `emu88.cc:419-433`: a faulting store writes at physical address 0; a near CALL and Jcc assign
  IP after a faulted push; a word across a page end translates only its first page; INS reads the
  port before a store that faults. LSS, LFS and LGS go on after a fault of their first fetch
  (`:4994`). PUSHA, ENTER and CALL in protected mode go on pushing on the handler's stack. POPA
  moves SP as it pops. ADC, SBB and RCL use the changed carry when restarted. ARPL runs in V86
  mode. These are what `resident` programs leave out.
- `emu88.cc:1563`: IDIV of the most negative number by -1 overflows in C++: the comment promises
  a divide error, on x86-64 it is a signal (modelled as either).
- `emu88_f80.h:330`: FSCALE with overflow unmasked wraps its exponent. `emu88_fpu.cc:679`: FPREM
  delivers a larger NaN than the indefinite on a masked stack fault.

## Not modelled

- **CPU decoding and the remaining instructions.** Prefixes, addressing modes, register moves:
  pure functions of the instruction's bytes, tested against recorded hardware
  (`tests/sst386.cc`, `tests/fpu_test.cc`). C0-C3, FIP and FDP, the transcendental functions'
  polynomials.
- **OPL synthesiser.** Signal processing.
- **Input snapshots** (mouse, joystick). Groups of atomics stored one at a time: a reader can see
  half an update, which the next update mends. Listed as a hazard.
- **DOS file services, printers, CMOS, speaker.** Sequential data movement.
- **Views, touch controls, settings.** Layout.
- **libslirp, iir1, stubs.** Third-party. The DOSBox engine is a submodule that is not in the
  repository; `DosBox` models what the bridge does with it.
- **DOS utilities, scripts, images.** Guest programs and tooling.

Each component's section above says what is left out of it.

## Plan

1. Drop `TwoTasks` from `EveryReturnRestores` for programs that set NT again before their IRET.
2. Widen the models: mode 7 and planar memory, DPMI callbacks, the second and third counters, the
   CMOS ports, DOS file handles, FPU condition codes.
