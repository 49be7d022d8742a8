# Verification of the Pugputer 6309 system software and its simulator

TLA+ models of the parts of the Pugputer 6309 in which interrupts, power cuts
and failing devices meet state that must stay consistent; TLC configurations
that check them on small instances; TLAPS proofs of the results that hold for
every size. `PROJECT.json` lists the components, runs, source lines behind each
definition, hazards, findings and theorems.

## The system

The repository is a home computer around an HD6309 CPU and a simulator of it.

- **BIOS** (`src/bios/`, 6309 assembly): reset and vectors, a serial driver fed
  by interrupts, an SD block driver, a tick clock on the NMI, RAM pages and
  banks, a table of devices, all behind the `SWI2` call interface.
- **DOS** (`src/dos/dos.asm`): a FAT16 file system with a one-sector FAT cache
  and an order of writes meant to survive power cuts, and a program loader.
- **Programs**: shell, editor, assembler and linker, BASIC, game tools.
- **Simulator** (`src/simulator/`, C++): the CPU core, a system bus that steps
  the CPU and ticks the devices, and the devices: R65C51 serial chip, SD card,
  OPL3, video card, ROM; bridges to the host's serial port, screen and sound.

How the parts interact: programs call the BIOS with `SWI2`; the BIOS calls DOS
through a table DOS fills in at boot; DOS reads and writes blocks with BIOS
calls; the BIOS drives devices through their registers. Devices interrupt the
CPU: the serial chip on IRQ (maskable, shared with other devices), the video
card on IRQ too, the tick oscillator on NMI (not maskable). The emulator program
runs the CPU in turns with passing on what was typed and done in its window,
which is another program behind two pipes; a bridge connects the serial chip to
a port of the host. Inside the machine one program runs at a time, so
concurrency there is between that program, the interrupt handlers, the devices,
and power or card failures; outside it is between the emulator, the two threads
of the window program, the user and the port.

### Inventory

| Component | State | Operations | What is hard | What makes it correct |
|---|---|---|---|---|
| Ring buffers | head, tail, count, storage | init, put, get | three counters that must agree over wraps | a bounded FIFO |
| Serial chip | registers, shift registers, flags, host queues | register accesses, tick, host calls | flags cleared by reads; a write replaces a character | as the driver needs it |
| Serial driver | two rings, STXIE, SERR, mask | ISR, write, read, ioctl | lost wakeups, masks, read-and-clear races | bytes once and in order, no hang, losses reported |
| SD card device | block number, buffer, cursor, status, image | register accesses, commands | errors at any command, latched high word | as the driver needs it |
| SD block driver | registers during a call | read, write a block | retries, a busy or missing card, resets | the right block moves, nothing else, calls end |
| FAT16 volume | two FATs, entries, FAT cache, hint, open files | open, write, flush, close, kill, mkdir, rmdir, chdir, exit | power cut between any two writes, failing writes | no cluster shared or named while free; flushed data stays |
| Tick clock | public and private count, two flags | NMI, read, set | a 64-bit value handled 16 bits at a time | no torn read, no lost tick or set |
| File byte stream | position, size, sector buffer | read, write, seek | gaps, tails of sectors, failing flush | a byte array |
| Pages and banks | page map, count, bank registers and shadows | probe, alloc, free, set, copy | NMI while a bank is remapped; 256 in 8 bits | map, count and registers agree |
| Device table, SWI2 dispatch | table of drivers, caller's frame | register, open, read, write | handlers answer through the stack frame | results in the right frame |
| CPU core, instruction set | registers, flags, pending lines, CWAI and SYNC state | reset, step | interrupts at any point, nested frames of three lengths, interruptible TFM, flags at the ends of ranges | programs compute what they mean; RTI gives back what was interrupted; requests are served |
| System bus | RAM, bank registers, device windows, NMI edge | read, write, step, reset | overlapping windows, an edge made of a level | the right byte; each edge one NMI |
| Video card | memory, ports, target and color, flags, mouse, key queue, beam | registers, drawing commands, input, lines | flags cleared while others come, four-byte reads, full queue, overlaps and clipping, frames begun late | no event lost, input as it was, whole frames, exact pictures |
| Emulator and window program | frame and bytes under way, pipes, buttons and keys held | turns of the machine, polls, reads, sends | two pipes that fill, records cut into pieces, a window that ends | input arrives once and in order; nobody waits for ever |
| Host serial bridge | bytes to write, stall flag, chip's queues | poll | host slower or faster than the machine, a dead port | order kept; loss only by the stated rule |
| S-record loader | memory, lowest and highest address | one line | a bad line after good ones | what is reported is what was written |
| OPL3 | timers, registers | register accesses | timer flags, host lock | flags and interrupts agree |
| Disk images, tools, programs | - | sequential | - | tested by comparison of outputs |

## Modules

Line numbers are in `PROJECT.json`; names follow the source.

- **BoundedQueue**: the abstract FIFO, a sequence of at most `Capacity` bytes.
- **CircBuf**: `helpers.asm`'s ring. Each of CBUF_INIT, CBUF_PUT and CBUF_GET
  is one action (callers mask interrupts around them). `Contents` maps the
  ring to a sequence; `IsBoundedQueue` says that it implements BoundedQueue.
- **UartR65C51**: the serial chip, one action per register access, host call
  and `tick`. When a character ends is left open: any later tick. Reading
  status clears the interrupt; reading data clears RDRF and the overrun flag;
  writing data replaces a character still being sent.
- **Serio**: `serio.asm` on that chip. One step per instruction that touches
  the chip or something the handler shares; the chip may tick between any two.
  A program instruction runs only when no interrupt is due (`At`), as the CPU
  takes a pending interrupt first. The rings are sequences, which is what
  CircBuf is proved to be. Bytes are numbered, so order and loss show.
- **MCSerio**: the three loads that the driver is checked under.
- **SdCardDevice**: the SD device. A command's parameter says which failure
  outside the model it meets.
- **SdBlock**: the BIOS block driver on it, one step per device access, with
  cards swapped or hanging, and the machine reset, between any two.
- **RtcTicks**: `time.asm`. The handler is one step because nothing interrupts
  it; the oscillator fires between any two accesses of the program. The steps
  that set the clock are marked external: the file describes them, no code in
  the repository performs them.
- **DosVolume**: what DOS does to the volume. A call is a sequence of steps
  with at most one block write each; `op` holds where it is. `fat` is the FAT
  as DOS sees it, `fat1` the first copy on disk, `stale` the sectors whose
  second copy differs. `FatWanted` is which FAT entries a step looks at: if one
  is in another sector than the changed one in FATBUF, `LOAD_FAT_ENTRY` commits
  first (`CommitDue`). Directory entries are known by place, files by their
  clusters. A write far past the end of a file is one `FILE_WRITE` per cluster
  it adds. "." and ".." belong to the zeroed cluster of `MkdirZero`. `Walk`
  follows a chain link by link, as NEXT_CLUSTER does.
- **MCDos**: the three setups that the volume is checked in, and the one in
  which a comment of the source fails.
- **Hd6309Alu**, **Hd6309**: the processor. Every operator takes the machine as
  a record and returns the next one, with what was read or computed in `op`.
  The opcode pages are decoded by row and column (`Page0`, `Page10`, `Page11`)
  into an operation, a register and an addressing mode, instead of one case for
  each of the several hundred opcodes; a wrong entry shows as a wrong result or
  a wrong length. Flags are sets of names. The one operation the C++ leaves
  undefined, DIVQ of -2^31 by -1, ends the emulator (`dead`).
- **SystemBus**: device windows (the last that covers an address answers), RAM
  behind bank registers, interrupt lines from the devices' outputs.
- **Machine**: `SystemBus::step` as one action each for an interrupt taken, an
  instruction, and a wait; reset; and `frames`, which remembers what each frame
  on the stack has to bring back.
- **MCMachine**: programs as bytes in memory and what they have to compute.
- **VcDraw**: the video card's memory, its sixteen commands and the picture.
  Memory is what was written since the reset, laid over the reset's contents.
- **VideoCard**: registers, flags, input and beam on top of it, and the device
  that makes frames of lines.
- **MCVideo**: a program, a user and the beam on one card; a drawing command on
  a small target, or on bytes where memory begins, ends and wraps; pictures of
  three layers and three sprites.
- **SrecLoader**: the loader, a record being a kind, its bytes and a checksum.
  Addresses and the sums of addresses are taken modulo `Word`, the number of
  values of a `uint32_t`. What the loader writes behind the memory it was given
  is undefined in C++; the model keeps those bytes beside the others.
- **Host**: the emulator's main loop with its console, VideoOut, the window
  program's two threads, the pipes, the bridge and the port, as built on Linux.
  It uses VideoCard for the card and SrecLoader for the start.
- **MCHost**: what a user does to window, port and terminal, and image files.
- **CircBufProofs**, **SerioProofs** (transmit side, then receive side and
  masks), **RtcProofs**, **SdBlockProofs**, **DosProofs**, **VideoProofs**,
  **HostProofs**: the proofs. **Counting** has induction over numbers in a form the provers can use.

Operators that take a value several times name it as a parameter of a local
operator (`LET To(n) == ... IN To(fetch8(m))`): in the model of a processor
that is how one access follows another.

## Runs

| Run | Shows |
|---|---|
| circbuf | counters agree; the ring is a FIFO |
| serio | 712,000 states, three loads: bytes leave once, in order, also through a full ring; no lost wakeup; baud changes are safe; every received byte is delivered in order, dropped and counted, or on its way; a full ring is reported; masks are kept; calls return |
| serio_overrun | *violated*: an overrun between the two register reads of UT_ISR is never reported |
| cpu | 337,000 states: decimal, word and signed arithmetic, branches, divisions, stacks, exchanges and banks come out as arithmetic says; a block move survives an interrupt at any byte; RTI restores the interrupted state through nested IRQ, FIRQ, NMI, SWI2 and CWAI in all four modes of MD; a request on IRQ is served |
| video_card | 1,637,000 states: events between the read and the clear of ISR survive; keys and mouse positions are whole and in order; frames are whole; commands draw exactly their figure inside the target, copies and fills go over the end of the address space (but for the copy described below); layers and sprites show in their order |
| host | 627,000 states: what is typed and done arrives once and in order however reads cut it; the bridge keeps order and waits for a stalled port once; damaged images are refused, and what a file taken or refused leaves in memory is what its lines before the first bad one say; no thread waits for ever, frames are shown, the window ends with the emulator |
| srec_wrap | *violated*: a record at the end of the 32-bit addresses is taken and written outside the memory |
| dos_volume | 3,760,000 states, three setups: power cuts anywhere with failing entry and data writes; failing FAT writes too, with no file open for writing; two open files on a volume that fills up and no faults. No shared cluster, none named while free, directories readable, flushed data durable; files apart, no leak, FAT copies agree |
| dos_lost_alloc | *violated*: a failing FAT write makes another file's flush name a free cluster |
| sd_block | what succeeds moved the right block; no other block changes; transfers stay below the ROM; calls return |
| rtc | reads whole, no tick lost, sets take effect |
| rtc_lost_set | *violated*: a read before the next tick cancels a set |

The violated runs check what a comment of the source says; `PROJECT.json`
quotes it under "findings". Three of these are small (an error flag, a protocol
no program here uses, a file no tool here writes). srec_wrap is `address +
data_len`, added in 32 bits before it is compared with the size of the memory:
an S3 record at $FFFFFFFF with two bytes sums to 1. dos_lost_alloc is a fault
of the file system: FAT_COMMIT clears FATDIRTY before it writes and on failure
forgets the cached sector, whose changes may belong to other open files.
FREE_CHAIN's promise ("a leak, never a corruption") is about its own chain and
holds.

DrawsExactly leaves out one case of COPY, in which the code is at odds with
`vidcard/README.md:213` ("bytes, anywhere in the address space, overlapping or
not"): vc.c:245 chooses the direction by comparing the addresses as they are, so
a destination that begins inside the source behind its wrap is copied upwards
over what is still to be read. 3 bytes from $FFFFFE to 0 are one: `CopyMoved`
without its exclusion is violated by that scene. All other copies of the run,
also over the end of the address space, arrive as they were.

### Bounds, and why they are enough

- circbuf: 3 bytes of storage, two byte values: full, empty and every wrap of
  both indices against each other. The proof covers every size.
- serio: rings of 2 bytes; 4 bytes written in any grouping (the ring is full,
  the program waits, the handler drains it), one or four received, one foreign
  interrupt. Both sides are proved for every size. Receiving needs 4 bytes
  so that the data register, the ring and the shift register are full at once.
  The loads of MCSerio do not combine four bytes each way, which is what the
  proofs are for; they limit only what nobody has to do (calls begun, bytes the
  host sends, the other device), never a step that fairness is about.
- DosVolume: 3 or 4 clusters with 2 FAT entries to a sector, so chains and
  links cross sectors; 1 entry to a directory cluster, so that directories
  grow; 2 root entries; one or two slots. A third cluster in a chain, or a
  third file, repeats what the second does: every rule of the code is about a
  cluster and its neighbour, or an entry and its first cluster. The proofs
  cover every size and any number of slots.
- cpu: operands where a sign, carry or digit turns (6 bytes, 10 words, 12
  decimal pairs); every opcode of every page with 7 following bytes; every
  indexed postbyte on two instructions; block moves of up to 3 bytes with every
  overlap and every place of an interrupt; on the bus one request of each
  device, at any time, and one reset.
- video_card: a picture of 16 by 2 with one blank line, 2 sprites on a line and
  a queue of 2 keys, so that limits are met; 4 user events, 7 lines, 3 writes;
  a target of 5 by 4 with a spare byte in each row, and figures that begin and
  end on every side of it, in 1, 2, 4 and 8 bits a pixel; copies of up to 4
  bytes with every overlap and over the end of the address space, fills where
  the registers begin and end and where memory wraps.
- host: a pipe of 8 bytes for records of up to 7, read 5 at a time; a pipe of
  one piece of a frame; 3 bytes and queues of 2 at the port; 3 user events and
  2 frames. Files of up to five lines into a memory of 8 bytes, every field of
  two of them changed or damaged, records that end at the memory's last byte, one behind it,
  and at the last addresses. `Word` is 2^30, as TLC's numbers are of 32 bits;
  the code's is 2^32. What counts is a sum below, at and over the word, and all
  three are there; the proofs are for every `Word`.
- SdBlock: blocks of 2 bytes, 2 values of a word (so 4 blocks, of which 3
  exist: reads past the end, writes that grow the image), 2 tries, 2 polls, an
  address space of 4 in which a buffer can fit, reach into the ROM, or wrap.
  The safety properties are proved for every size.
- RtcTicks: 2 words of 3 values: carry, wrap and a torn read are all there. The
  proofs cover every number and size of words.

### Fairness

- Serio: the CPU goes on executing (weak fairness of handler and driver steps)
  and characters end (weak fairness of a tick that ends one); `SystemBus::step`
  does both forever. Strong fairness of `ProgramUnmask`: a program that masks
  interrupts between calls unmasks them some time. Inside a call nothing is
  assumed of the program.
- SdBlock: the CPU executes the driver. Nothing is assumed of the card.
- RtcTicks: the oscillator keeps ticking.
- cpu: the host goes on calling `step`. Nothing is assumed of the devices but
  that one holds its request until the handler reads it.
- host: each of the three threads, when it can go on, does; that is the
  operating system's scheduler. A thread blocked on a pipe is not assumed to
  get further, nor a user or a port to do anything.

## Proofs

Assumptions are the named ASSUMEs of the modules: sizes are positive, bounds
are natural numbers, a volume that comes with a file has an entry for it. TLC
evaluates them in the runs. Each theorem below is for every value of the
constants; those of the clock and four of the volume have a hypothesis on the
constants, stated in the theorem and explained below.

- **Ring**: `RingTypes`, `RingIndicesAgree`, `RingIsBoundedQueue`. The inductive
  invariant is `TypeOK /\ HeadAgrees`: without HeadAgrees a put might write over
  the oldest byte. Refinement: `PutRefines` shows that a put appends to
  `Contents`, and `GetRefines` that a get takes its head, by a case split on
  whether the index wraps.
- **Serial driver, sending**: `SerioTypes`, `SerioTxInOrder`, `SerioTxArmed`. The
  invariant `TxInv` is the conjunction of TypeOK, TxInOrder, TxArmed and `TxAux`.
  TxAux says where the interrupt mask must be set (in the handler, between
  UT_PUTC1's put and its return), that the transmit flag and the chip's TDRE
  agree, and that a handler that has seen TDRE finds the transmitter still idle.
  TxInOrder alone is not inductive: that HANDL_TX finds the chip idle follows
  from TxArmed and TxAux. `SerioNeverOverwritten` and `SerioBaudChangeSafe` are
  action properties from the same invariant.
- **Serial driver, receiving**: `SerioRxAccounted`, `SerioRxFullReported`,
  `SerioMaskKept` (of UT_READ and UT_IOC_GETERR under a masked caller, and of
  the mask at the return of every call; UT_PUTC1 on a full ring and
  UT_IOC_SETCTL unmask on purpose while they wait). The invariant `RxInv` adds
  to TxInv who has set the mask and whose mask is saved (`MaskAux`), that
  UT_IOC_GETERR clears exactly what it has loaded (`RxAux`), and `PipeKept`:
  the bytes under way are five queues one behind the other (host, shift
  register, data register, ring, register A), their concatenation is in the
  order sent, and its length accounts for what is neither delivered nor
  dropped. Each step moves a byte from one queue to the next, which leaves the
  concatenation as it was, or takes one off an end.
- **Tick clock**: `RtcClockKept`, `RtcReadWhole`, for a program that lets the next
  tick come after it has set the clock before it touches it again (`Careful`).
  Without that both are false: the run rtc_lost_set shows a set that is lost,
  and the tick that answers the set takes the mutex away from a read. The
  invariant `RtcInv` says who holds the mutex, that the words read so far are
  those of the count the read began with, and that the private count is the
  number it should be. That adding 1 word by word adds 1 to the number, or wraps
  to 0, is shown by induction over the words (`PlusOne` against `Value`).
- **Block driver**: `SdTransfersRight`, `SdBelowRom`, `SdOnlyItsBlock`. The
  invariant `SdInv` ties the driver's place to the block number the device has
  been given, to its cursor, and to the bytes moved so far. Cards swapped or
  hanging and resets are steps like the others.
- **Volume**: `DosDiskSound`, `DosDurable`, `DosOpenFilesApart`, `DosTypes`,
  `DosNoLeak`, `DosCopiesAgree`. None of the first five is inductive, as they
  speak of chains, and a step that changes one link changes chains at a
  distance. The invariant `DosInv` says that the clusters can be labelled, each
  with the entry it belongs to (`own`) and its place in the chain (`pos`), so
  that everything is local: both the FAT on disk and the FAT as DOS sees it link
  only to the next place of the same owner (`Linked`); entries and open files
  name place 0 of their own (`EntriesKept`, `SlotsKept`); owned clusters are in
  use and reached (`OwnedKept`); the two FATs differ only in the sector in FATBUF
  (`CacheKept`), and only FREE_CHAIN is ahead of the disk with freed clusters
  (`OrderKept`); directories are linked on disk (`DirsKept`); and what each
  point of a call has established (`Doing`). Each step has its way with the
  labels: a link gives the new cluster the next place, deleting or truncating
  an entry takes its labels away, a crash those that only memory knew, every
  other step leaves them. The lemmas at its beginning go from labels back to chains:
  the chain of a headed entry is the set of clusters it owns (`ChainIs`). For
  DosDurable, `SyncKeepsAll` says that where a SYNC_SLOT writes its entry, FAT
  and disk are the same, so that all of the file's links are on disk whether or
  not the entry changes, and `SyncNamesAll` that the entry then has the chain of
  the open file.
  `Guarded` is a hypothesis of DosTypes, DosDiskSound, DosOpenFilesApart and
  DosDurable: FAT writes may fail only on volumes without open files. The run
  dos_lost_alloc shows what happens otherwise. DosNoLeak and DosCopiesAgree
  need no hypothesis.

- **Video card**: `VideoWholeFrames`, `VideoEventSeen`, `VideoInputFaithful`, for a
  picture and a key queue of any size and any number of user events, lines and
  resets, from `CardConstants` alone. None of the three is inductive. `FrameInv`
  says that while a frame is drawn, each row begun since is that of the line
  counted for it, so the frame that is handed over at the end is whole; when a
  tick begins many lines (`tick`, a recursive function) it holds after each.
  `FlagInv` says that of what happened since the handler's last clear nothing is
  missing in ISR, and that a command waiting for its second byte can only be the
  one the handler's program sends. `RingInv` says that the ring from its head on
  is what was typed, as it was typed, around the end of the array; `ModsInv`
  that the modifiers are the keys held, a full queue or not; `MouseInv` that the
  bytes read of a position are of the snapshot, and the snapshot a place where
  the mouse was. Most of the work is that each of the sixteen commands and
  registers leaves alone what it should (`SameInput`, `SameKeys`).
- **Host programs**: `HostBridgeOrdered`, `HostImageLoaded`, `FileLoaded`, for
  pipes, reads, queues and a memory of any size (`HostConstants`,
  `MemAssumption`). For the bridge, `BridgeInv` puts what is on its way behind
  what has arrived: each way that is one sequence (`Inward`, `Outward`), which
  a step leaves as it was, puts the next byte behind, or takes bytes out of;
  bytes are held only while they are written, and the stall flag is set exactly
  when a wait has been in vain (`BridgePlaces`). For the loader, `FileLoaded`
  says of every file of lines, by induction over them (`LoadInv`), that it is
  taken if and only if the code's checks refuse none of them, and that, taken
  or refused, memory has exactly what the lines before the first bad one say,
  the last of them with the last word, inside the memory and with the range
  reported. The second part needs a hypothesis, that no line which takes effect
  ends over the word (`Wraps`); the run srec_wrap shows what happens otherwise.
  `HostImageLoaded` adds that in a file with one byte changed, or one that is
  no byte, a line fails its checksum, and that the machine runs only after a
  result reported as right (`BootInv`).

Induction: the provers cannot instantiate the library's induction theorems, so
Counting takes the property as a set of numbers and derives induction from its
having no least counterexample. Recursive functions (`Leading`, `Walk`,
`tick`, `Sent`, `InBase`, `load_srec_file`) are shown to exist the same way.

Only model-checked: liveness (AllSent, CallsReturn, SetAnswered, IrqServed,
HostLives), which is out of the prover's reach; everything about the processor
(TypeOK, ComputesRight, BlockMoved, ReturnsIntact), as Hd6309Alu takes its bit
operations from Bitwise, which is recursive and so out of the prover's reach
too; DrawsExactly and PictureOrdered, which compare what loops over pixels and
sprites leave with a figure, scene by scene, so that a proof would be an
induction over each command's loops; and, of the host programs, InputArrives,
which follows what is typed through foldings over bytes and escape sequences.

## Plan

1. Banks: page probe, allocation, banks and shadows, PAGE_COPY against the NMI.
2. FileStream: positions, sizes and sector buffers against an abstract byte
   array; then the rest of DOS on the volume: rename, directory handles.
3. Device table and SWI2 frame; OPL3 timers; resets of the serial chip.
4. The disk image builder against DosVolume's idea of a sound volume.
5. Proofs: the input of the host programs (InputArrives); Banks' map and count.

## Not modelled, and why

Sound synthesis is vendored signal processing. Of the host programs, pugrun,
the sound output, command lines, terminal modes and the Windows builds are left
out: front ends without shared state, or the same control through another
interface. The shell, editor, assembler, linker, BASIC and tools are sequential
programs over the services modelled here. Cycle counts, run()'s budgets and the
debugger's register access are left out of the processor: no property is about
time in cycles. An NMI before the first load of S is left out. The lengths
of characters in cycles, names, dates and sizes of files are abstracted; no
property here depends on them. Failing reads are not in DosVolume yet. After a
power cut between the two writes of FAT_COMMIT the second copy of the FAT stays
behind until its sector changes again; DOS reads only the first, so CopiesAgree
is checked without crashes.
