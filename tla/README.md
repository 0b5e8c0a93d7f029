# A TLA+ model of the Rust/WASM SNES emulator

The repository is a Super Nintendo emulator: a Rust crate (`src/src`) that emulates the
console, compiled to WebAssembly, and two web pages (`src/web`) that run it, one on the main
thread ("Phase A", `index.html`) and one in a worker ("Phase B", `index-phase-b.html`).
This directory holds TLA+ modules of its parts, the TLC runs that check them on small
instances, and TLAPS proofs of what matters most for every instance.

Paths below are relative to the repository (`src/`). `PROJECT.json` ties every definition to
the lines it stands for and every property to a plausible fault (a definition named `Bad...`)
that it notices; the `Bad...` definitions are not part of the models.

## 1. Inventory

| Component | Files | State | Operations | Interacts with | Hard about it |
|---|---|---|---|---|---|
| APU synchronisation | `src/spc700/mod.rs`, `timers.rs` | absolute master-cycle total, SPC target, SPC cycles, timers, mailbox ports, DSP sample clock | `catch_up`, `run_cycles`, `cpu_write`, `cpu_read` | called by the bus at every port access, DMA chunk and scanline end | the SPC700 runs late, in whole instructions, in chunks somebody else chooses |
| Frame loop and interrupts | `src/lib.rs`, `src/cpu/mod.rs`, `src/bus.rs` | CPU clock, bus clock, last sync, DMA debt, NMI/IRQ flags, auto-joypad timer | `run_frame_inner`, `Cpu::step`, writes of `$4200`-`$4211` | everything | four clocks are reconciled by hand; level-sensitive comparator; flags acknowledged in any order |
| General DMA | `src/dma.rs`, `src/bus.rs` | channel registers, guard flag, booked cycles | `execute_general_dma`, write of `$420B` | takes the registers out of the bus, writes to any register, syncs the APU | re-entrant; books time in two places |
| HDMA | `src/dma.rs` | per channel: table cursor, line counter, terminated, do-transfer | `hdma_init_frame`, `hdma_run_scanline` | frame loop; shares registers with general DMA | a cursor advanced by every read and checked by nobody |
| Audio ring (Phase B) | `web/emulator-worker.js`, `web/audio-worklet-processor.js`, `web/index-phase-b.html` | ring in shared memory, two atomic positions | `writeAudioToRing`, `process`, reset on resume | worker, audio thread, main thread | three threads, no lock |
| Framebuffer slot (Phase B) | the same | pixels and a frame number in shared memory | `tick`, `paint`, reset on load | worker, main thread | overlapping copies |
| Phase A life cycle | `web/index.html` | emulator, game loop handle and generation, audio context, guard | `startEmulator`, `gameLoop`, `stopEmulator` | browser events | events run while a start awaits |
| Phase B life cycle | `web/index-phase-b.html`, `web/emulator-worker.js` | contexts, worklet nodes, paint handle; the worker's emulator and loop | starts, stops, message handlers | two message queues | awaits on both sides; messages overtake loads |
| PPU ports | `src/ppu/mod.rs` | VRAM, OAM, CGRAM, write-twice latches, address counters | `write_register`, `read_register` | bus, DMA, HDMA | shared latches; an odd number of accesses shifts all later ones |
| 65816 CPU | `src/cpu` | registers, status, mode | 256 opcodes, interrupt entry, reset | bus | register widths that change at run time; an emulation mode with restrictions of its own; decimal arithmetic; block moves that interrupts cut |
| DSP | `src/spc700/dsp.rs` | 8 voices, envelopes, BRR decoder, echo buffer | register writes, `generate_sample` | shares 64 KB with the SPC700 | key-on delay, end and loop blocks, a directory that changes, echo writes into program memory |
| Joypad | `src/joypad.rs` | buttons, latch, bit counter, strobe | strobe, serial read | bus, frame loop | protocol of edges; the host presses buttons between the bits |
| Bus map, cartridge | `src/bus.rs`, `src/rom.rs` | WRAM port, multiply/divide unit | `read`, `write` | everything | mirrors |
| SPC700 CPU | `src/spc700/cpu.rs` | registers, status | 256 opcodes | APU bus | MUL, DIV, decimal adjust |
| PPU rendering | `src/ppu/render.rs` | none of its own | `render_scanline` | frame loop | pure functions of the registers: windows, priorities, colour math |
| Snapshot | `src/snapshot.rs`, `snapshot_*` methods | none | save, restore | everything | failure half way |
| SPC player, event trace, native front end, benchmarks | `src/spc.rs`, `src/spc700/events.rs`, `src/main.rs`, `src/bin`, `bench` | — | — | — | sequential drivers |

What makes each modelled component correct:

* **APU**: an instruction runs at the SPC cycle it would have run at if both CPUs ran in
  lockstep, no cycle or sample is lost, and the result does not depend on how the time was cut
  into calls.
* **Frame loop**: every master cycle is credited to the APU exactly once, never early and never
  backwards; one prompt NMI per frame; the auto-joypad read takes its time; every frame ends.
* **General DMA**: the bytes the registers asked for, in order, whatever the transfer writes;
  registers as the hardware leaves them; every byte booked once.
* **HDMA**: the units the table asks for on the lines it asks for; nothing from channels that
  were not started, in a frame in which any was (otherwise the code lets them go on, section 3).
* **Audio ring**: a bounded first-in first-out queue, as long as it is not upset by an underrun or
  by the reset of its positions, and again from then on. **Framebuffer slot**: tears forwards only,
  and converges.
* **Pages**: one loop, with an emulator, without leaks; page and worker agree.
* **65816**: an interrupt handler that saves what it uses is invisible, wherever it comes; no
  instruction sequence breaks the restrictions of emulation mode; ADC and SBC are the arithmetic
  of their radix and width; a block move moves each byte once, however it is interrupted.
* **Idle skip**: it changes nothing a program or a frame can see.
* **Ports**: a block written behind an address lands where it should and nowhere else; what is
  read back is what was there when the address was set, the counter latched or the pad strobed;
  two halves make the value they are halves of.
* **DSP**: a voice plays its sample from its start through its loop, group after group, by the
  directory and the headers as they are when it gets there; a voice that is keyed off ends; the echo buffer is a delay line of the length the registers ask for.

The hazards, each at its line, with the properties that would notice, are in `PROJECT.json`.

## 2. The modules

```
LazyClock <---refines--- Apu <--two instances-- ApuChunking        ApuProofs
FrameLoop                                                          FrameLoopProofs
Dma      Hdma        (general DMA and HDMA, beside the loop)       TransfersProofs
SampleQueue <--refines-- AudioRing                                 AudioRingProofs
FrameSlot   PhaseA   (with AudioRing: the parts of MCWeb)          WebProofs
PhaseB               (life cycle of the second page)               WebProofs
Dsp                                                                DspProofs
Cpu65816             IdleSkip (its fast path)                      CpuProofs
Ports                                                              PortsProofs

MCApu = Apu, ApuChunking       MCTransfers = Dma, Hdma       MCCpu65816 = Cpu65816, IdleSkip
MCWeb = PhaseB, AudioRing, FrameSlot, PhaseA       MCFrameLoop
MCDevices = MCPorts (Ports), MCDsp (Dsp)
```

The modules are cut where the code is cut: `FrameLoop` abstracts what an instruction, a DMA
byte or an HDMA line does to memory and keeps what it does to time and flags; `Cpu65816` keeps
what an instruction does to registers and memory and leaves out its time; `Apu`, `Dma`, `Hdma`
and `Ports` take the calls and accesses the frame loop and the CPU make as actions that may come
at any time; `AudioRing` and `FrameSlot` are what happens inside one tick and one quantum,
`PhaseB` what happens between them.

Some `MC` modules hold several components. These do not interact: a variable `focus`, chosen at
the start, says which one moves, and the others stay in one initial state. Each run is then the
union of the runs of its components; nothing is composed or multiplied by it. Fairness is stated
of the steps that `focus` lets happen.

### Apu, LazyClock, ApuChunking

`Apu` is `src/spc700/mod.rs:275-530` with the timers. `catch_up` is the action `CatchUp` (the new
absolute total and target), then one `SpcInstruction` (or `HaltedCycle`) per turn of the outer
`while` loop and one `TickCycle` per turn of the inner `for` loop; `Busy` holds until the call
has returned, and the main CPU cannot act meanwhile. The SPC700's program is arbitrary: every
length and every bus access that matters to ports and timers. `lastStart` is a history variable.

`LazyClock` is what such a follower promises its driver. `Apu!IsLazyClock` shows the refinement
(`now` is the floor of the master time, `done` what has been executed).

`ApuChunking` instantiates `Apu` twice with one deterministic program and cuts the same time in
two ways; the law the repository calls distributive (`tests/async_contracts/catch_up_algebra.rs`)
is `Distributivity`.

### FrameLoop

`Emulator::run_frame_inner`, `Cpu::step` up to the choice of what to do, `sync_apu`, and what a
CPU-register access does to the loop. One action per control point: `RunFrame`, `StartScanline`,
`Stall`/`TakeNmi`/`TakeIrq`/`Execute`/`StartDma` (one turn of the instruction loop, with the
H-blank and H/V-IRQ checks at its head), `DmaByte`, `EndDma`, `AfterStep`, `EndScanline`,
`HdmaLine`. The program is arbitrary within a set of effects (`Programs` is a set of such sets,
one of which a behaviour keeps to): one that watches the APU while DMA and HDMA move time, or one
that plays with the interrupt registers.

### IdleSkip

The fast path `try_idle_skip` (a Cargo feature that is off by default) as a question: two CPUs run
the same polling loop through the same scanlines, one with the fast path and one without, and are
compared at the end of each scanline. `Turn` is one turn of the frame loop for either of them.

### Dma and Hdma

`Dma` keeps the calls of `execute_general_dma` in progress on a stack, because a transfer may
write MDMAEN. The registers are taken out of the bus (`Enter`) and put back (`Return`).
It models the release build: the debug assertion on re-entry is not part of it.

`Hdma` keeps per channel what the code keeps. `FollowsTable` compares what was sent with what
the table asks for (`Asked`, which has no cursor). A table is a record of entries, each with the
number of lines and units before it, so that the place of a unit is arithmetic and not a fold over
the entries; `HdmaAssumption` says that `Memory` holds the tables (`InMemory`: each header, and in
indirect mode each pointer, where the format puts them, and the empty header at the end), and
nothing of the rest of the bank. `MCTransfers` lays its tables out byte by byte; that they are
where `InMemory` says is evaluated by TLC.

### AudioRing, SampleQueue, FrameSlot

One action per access to shared memory. Positions count stereo frames (all counts in the code
are even). In `AudioRing` a frame is its number, so a lost, repeated or torn frame is visible;
`SampleQueue` is the abstract queue. The atomics are sequentially consistent; frames and pixels
are plain memory that is written before, and read after, the atomic that publishes it, which is
why a plain access is one step.

Nothing in the code keeps the audio thread from consuming more than there is, nor the resumption from
meeting a worker or a worklet between its loads and its store. Both are actions of the model
(`Underrun`; `ResetWritePos` and `ResetReadPos` at any moment). What a ring still promises then is said
with two notions. It is `Calm` while the decisions that worker and worklet have taken, on positions they
loaded earlier, still fit the positions: the room, and the frames, are there. It is *upset* by an
underrun, by either reset, and by every step that finds it not calm; frames accepted before (`since`)
no longer count, whatever is in the ring. `CalmUntilUpset` says that nothing but an underrun or the
resumption ends the calm, `HearsInOrder` that in the calm each frame accepted since is heard in its turn,
`IsQueue` that the ring is the queue `SampleQueue`, which may lose all it holds and does so only when the
ring is upset. That a ring once upset becomes calm again is not promised: the store of an old position
may meet another quantum, and so on.

`FrameSlot` splits a picture into parts copied in any order.

### PhaseA, PhaseB

The event handlers of the pages, cut at their awaits. The browser is external: animation frames
by handle, audio contexts, worklet nodes. `PhaseB` has both message queues, and whatever may fail
there fails: the file (`Unread`), the audio context (`StartSilent`), its module (`AudioSettled`), the
emulator's module and the ROM (`LoadFails`).

### Cpu65816

The registers, the stack, every instruction and every addressing mode of `src/cpu`, with reset,
WAI, STP, and the entry of and return from interrupts, at their real widths. A program is a
function from addresses to *decoded* instructions, so that fetching an opcode is a lookup; the
lengths of instructions, which depend on M and X, and all data, stack and vector accesses are those
of the code. Instructions that differ in a register, flag or condition only are one definition with
an argument, as they are one shape of code repeated 256 times there. `Decoded` is what the 256
opcodes decode to, and `CpuAssumption` that programs consist of that. Bitwise operations are composed
of bits, and decimal arithmetic of digits, as the code's are of nibbles. Memory is all RAM, and access
costs are left out. `entered` remembers the machine before each handler in progress.

### Ports

`write_register` and `read_register` of the PPU for OAM, CGRAM, VRAM, scroll and Mode 7 registers
and the V counter, the WRAM port of the bus, and the joypad; one action per register, grouped by
unit in `Next`. Memories are sparse: a function of the bytes written, and for all others what an
earlier program `Left` there. A program says which values it writes to which registers; the n-th
access to a data register writes `Datum(n)`. Masks and shifts of the code are quotients and remainders
(`& 0xFF00 | val` keeps a high byte, `& 0x1FE` is `Even`), and the joypad's words are sets of bit
positions. `run` and `pairs` remember the accesses since an address was set, and the latest two
writes through each shared latch; the properties compute from them where the bytes belong, without
any latch or flip-flop.

### Dsp

`generate_sample` and the register writes that act on voices, envelopes and the echo buffer. What is
decoded is named by where it was decoded from; what a voice puts out, before its envelope, is any
of `Outputs`; a frame of the echo buffer is known by its age. Envelopes are computed in their real
widths, with the code's rate table. The directory at DIR and the headers of the blocks are in RAM, which
the program may rewrite at any time: a layout is what they say, `WriteLayout` puts another one there, and
every definition reads the layout when the code reads RAM. Addresses of blocks and of the echo buffer
wrap at the end of RAM. What echo writes do to directory and headers is a change of layout like any
other; it is not derived from where they land. Noise, volumes and the FIR filter, functions of sample values,
are left out.

## 3. The runs

| Run | Question | Bounds, and why they are enough |
|---|---|---|
| `apu` | Does the catch-up loop keep time over every program, and does chunking matter? | *One APU*: 3 master clocks per SPC cycle, instructions of 2 and 3 cycles, credits of 0, 1, 2 and 7 up to 20: every remainder, calls that dispatch nothing, one instruction and several. *Two APUs*: two timers, one of each period; programs with every kind of access; credits 1, 2, 8 |
| `frame` | Do the clocks agree? Interrupts, WAI, STP? | 4 scanlines of 7 cycles, steps of 3 (overshoots), DMA of 5 bytes in chunks of 2 (a rest), HDMA of 0 or 3; programs that enable, disable, acknowledge and mask in any order; two frames, so that a leftover of one meets the next |
| `transfers` | Are tables followed, are transfers exact? | *HDMA*: 8 lines, 2-bit line counts, a table that crosses the end of the bank, one with a header for a whole counter's length, an indirect one; three writes of the program anywhere. *DMA*: 6 bytes at most, patterns of 1, 2 and 4 registers, both directions, fixed, size zero, transfers that hit MDMAEN and a register; two transfers |
| `web` | Is the ring a queue between its upsets, and what upsets it? Does the picture converge? One loop, no leaks, agreement of page and worker? | *Ring*: 4 slots, batches of 1 and of 4 (more than fit), quanta of 1 and 2; up to 6 frames, once round and further; underruns at any time, and a resumption that meets worker and worklet anywhere. *Slot*: two parts, four frames, two ROM loads. *Page A*: four starts among two good ROMs and a bad one. *Page B*: two starts (the page's auto-load and a file), two stops, all messages in flight, any failure; `patient` remembers whether every start and stop has waited for the page to settle |
| `cpu` | Interrupts, widths, modes, arithmetic, block moves; is the idle skip invisible? | Four tours that between them use every instruction and every addressing mode in both widths and modes, with one or two interrupt requests at any instruction, and handlers that use every register; ADC and SBC of operands with digits 0, 1, 4, 5, 9 in every place (the digits at which a correction begins or carries) in decimal, and the edges of the ranges in binary, both widths, both carries; a block move across the end of a bank and one downwards over itself. *Idle loop*: real timing; 3 scanlines, entered anywhere of 5 points, with the H-IRQ and the end of the joypad read before and after the skipped part |
| `devices` | Do blocks land, read back, pair up? Are samples decoded in order, do voices end, is the echo a delay line? | *Ports*: one unit per behaviour, and one program that alternates between two (the proofs show that the others do not interfere either); 6 accesses, addresses next to the ends of the memories: the high table of OAM and its mirror, the last colour, the last word of VRAM and one that the rotations move, the last byte of WRAM; 18 serial reads after a strobe (two more than bits). *Sound*: one voice (voices interact by PMON only), 64 bytes of RAM, two samples of two blocks, one that loops and one over the end of RAM that ends, and a second layout in which the loop points, the starts and the flags are others; the fast envelope rates, from every GAIN mode; echo buffers of 0, 2 and 4 frames, one over the end of RAM; 4 register writes between any two samples |

`CHECK_DEADLOCK FALSE` appears where the bound on frames, starts, transfers, accesses or
instructions ends the run; `apu` and `pmon` cannot stop (credits of zero and samples go on) and
are checked for deadlock.

Six runs end in a violation: they compare a statement of the repository with what the code
does, and are findings in `PROJECT.json`, with the quotation.

| Run | What TLC shows |
|---|---|
| `irq_fires_once` | an H-IRQ acknowledged early in the line fires again on the same line: the comparator is `>=` and the guard is the flag the program clears |
| `guard_means_starting` | a failed start leaves the guard set for good |
| `narrow_indexes` | RTI to a program with 8-bit indexes does not clear the high bytes of X and Y, as PLP and SEP do; they are visible again after `REP #$10` |
| `pmon` | a voice with PMON is modulated by its own output, which has just been stored, and not by that of the voice before |
| `stale_flushed` | the main thread resets the ring's positions while the worker is between its load and its store; the worker stores the old position back, and the stale frames are in the ring again when the audio starts |
| `skip_invisible` | with the Cargo feature `idle-skip`, an H-IRQ at dot 100, which the plain CPU takes at cycle 414, is taken at cycle 1242 |

Other disagreements were met while modelling. They have no run of their own; the properties of
the passing runs are stated so as to exclude them:

* An access to an APU port syncs to the start of the instruction, as `master_clock` is refreshed
  after it (`lib.rs:309`); `bus.rs:250-251` says "up to the exact cycle of the access". In
  `FrameLoop` the action `Execute` credits `masterClock`, which equals `cycles` there.
* A read of `$4211` clears `irq_flag` and leaves the CPU's `irq_pending` (`bus.rs:493`), so that an
  IRQ acknowledged while masked is taken after `CLI`; `lib.rs:251` says "cleared by $4211 read".
* DMA time does not count for the auto-joypad timer (`lib.rs:316` precedes `lib.rs:326`): a DMA in
  the window prolongs it. `JoyNotEarly` states the side that holds.
* A transfer that writes MDMAEN runs a transfer inside it, whose end clears `dma_active` while the
  outer one still holds the registers (`bus.rs:549`; the comment at 19-20 says otherwise).
* An underrun moves `read_pos` past `write_pos` (`audio-worklet-processor.js:120`); the ring then looks
  almost full, and old frames are heard again. No line says they are not; `HearsInOrder` and `IsQueue`
  speak of what is accepted afterwards.
* With no channel enabled at the first scanline HDMA is not initialised (`dma.rs:243`), and a channel
  enabled later in the frame goes on with the cursor of an earlier one. `LateChannelSilent` speaks of
  frames in which some channel was started, `FollowsTable` of channels that were.
* `initAudio` uses `audioCtx` after its await (`index-phase-b.html:174`): of two overlapping starts
  (the auto-load and a picked file) the second may get both worklet nodes. And a Stop that overtakes a
  load is followed by `ready` and `start` (209), so that the emulator runs on behind the drop zone.
  `Agreement` excludes both by asking for a patient user.
* The idle skip jumps over a byte that is not zero as well, whose loop would have been left at the
  first turn (`cpu/mod.rs:203`).
* With PMON and a small pitch the position of a voice can fall below zero (`dsp.rs:551`), a bent pitch
  being added without a lower bound; and the comment at `dsp.rs:557`, that a step "can cross
  multiple groups", is excluded by the clamp above it.
* A KOFF between a KON and the next sample is lost, and a KOFF of a voice that has ended revives its
  envelope phase (`dsp.rs:322-331`). `KeyOffEnds` speaks of voices in release, however they got there.
* VRAM words from $8000 on are dropped and not mirrored (`ppu/mod.rs:235-264`); block moves with 8-bit
  indexes carry into the high bytes (`instructions.rs:940-976`); an interrupt in emulation mode runs
  its handler in the program bank it interrupted (`cpu/mod.rs:388-434`). No document says otherwise;
  the models follow the code.

## 4. Fairness

* `Apu`: weak fairness of `SpcInstruction`, `HaltedCycle` and `TickCycle`. They are the body of a
  loop in straight-line code; nothing can come between its turns.
* `FrameLoop`: weak fairness of the whole next-state relation while a frame is in progress, for
  the same reason. The host may never ask for another frame.
* `FrameSlot`: a tick and an animation frame that have begun end; messages are delivered; the
  browser keeps asking for animation frames. Nothing makes the worker tick.
* `Dsp`: weak fairness of `Sample`. The APU generates a sample every 32 of its cycles, whatever the
  SPC700 does, stopped included.

No other module assumes fairness, and none states liveness.

## 5. What is proved

For every value of the constants that the named assumptions allow.

`ApuProofs`. From `ApuAssumption`: type correctness, `Causality`, `SampleClock`, `ExactTarget` and
the refinement of `LazyClock`'s safety part. The inductive invariant is the types, `ExactTarget`,
`SampleClock` and `lastStart < target` in place of `Causality`: the latest instruction began before
the target, and a target never shrinks, since the total it is the quotient of only grows
(`DivMonotone`). `Causality` follows from it together with `ExactTarget`.

Also `Distributivity` of the two APUs of `MCApu` (from `PairAssumption`), for every program, every way
of cutting the time and every sequence of port writes. What an SPC700 does next is a function of its
state in which its credit does not occur (`After`; `StepAIs` and `StepBIs` show that every step is of
this kind). So the states of the two sides are two places of one trace (`Together`): a step of one
side moves its place along it or continues it (`Follow`), and a port write, which finds the sides
equal, begins a new one. Two idle sides credited the same are at the same place (`Meet`): if one
were ahead, it would have begun an instruction at or after the cycle at which the other is idle,
which is past the target they share.

`FrameLoopProofs` (from `FrameAssumption`): `TypeOK`, `CreditExact`, `ApuNotAhead`,
`NoClockInversion`, `NmiPrompt`, `OneNmiPerFrame`, `JoyNotEarly`. The inductive invariant `IInv`
has three parts beside the types:

* `ClockInv`: the APU's credit is `lastApuSync`; the bus clock is not behind it; the bus clock,
  with what a DMA in progress has not synced, is never ahead of the CPU clock, the debt and the
  bytes that have moved and are not booked yet (the debt grows after the last of them, `dma.rs:239`,
  while the APU has been synced after every chunk, 226); and at each control point which of the clocks agree. Type correctness needs it: that
  the credit is a natural number means that no sync goes backwards.
* `NmiInv`: a CPU that has not stopped has an NMI pending only on the V-blank scanline before
  its first step, and no NMI has been taken before that step.
* `JoyInv`: the time passed since the read began and what the timer has left make up at least its
  length.

`AudioRingProofs` (from `RingAssumption` alone): `CalmUntilUpset`, `HearsInOrder` and the refinement of
`SampleQueue`, for every size of ring, batch and quantum, with any underruns and a resumption at any
moment. Positions are numbers modulo the size of the ring; `ModOnce`, `MovedIs`, `UsedIs` and `Moves` are
the arithmetic. The inductive invariant says that what is between the positions are the frames
`popped + 1` to `accepted` (`Positions`), that those of them accepted since the ring was upset are in
their places (`Content`), as are those of the batch being copied (`Batch`), and that while the ring is
not calm nothing accepted so far counts (`Since`). In the calm, the space the worker found and the frames
the worklet found are no more than there are, which the other thread can only improve; hence the stores
append to the queue (`FramesGrow`) or remove from it (`FramesShrink`), and an upset empties it.

`WebProofs` (from `WebAssumption`) carries these three over to the ring as `MCWeb` runs it, beside the
other parts, and proves of those parts:

* `NeverOlder`. Parts yet to be written hold the frame before the one that is being written
  (`CopiedInv`); what has been read is at least as new as what was due at the look (`PictureInv`).
* `OneGameLoop` and `NoLeakedAudio`. `OneGameLoop` is not inductive: it needs that there is one request
  at most (`LoopInv`) and that a start under way holds the guard, is alone, and has cancelled the
  loop (`GuardInv`).

The same module proves of the second page (from `PageAssumption`): `WiredBeforeTick` and `Agreement`.
Each ROM in the queue comes after both buffers, or they have been received (`QueueInv`); a ROM that is
loading or loaded was received after them (`WiredInv`). `Agreement` speaks of settled states only, so
that its invariant has to say what is on its way between them: while the user is patient, the page is
in one of ten stages of a start or a stop (`Stage`), from `Idle` by way of the messages in flight, one
by one, to `Playing` or `Failed` and back. Each event is shown to lead from stages to stages, or to end
the patience.

`DspProofs` (from `DspAssumption` and `ByteAssumption`): `GroupsInOrder` and `EchoDelay`, for any
buffer and program, and any directories and block headers, also while the program replaces them. That the groups in the ring follow each other is
preserved because the next one is decoded behind the newest: the voice's address, offset and
header are those of the place behind it (`Behind`), also in the four samples of the key-on pipeline
(`Keyed`). The echo buffer's frames, as far as they have been passed since the registers were left
alone, are as old as the way from them to the position, around the end of the buffer (`EchoInv`); as a
buffer is not longer than RAM, no two frames of one share a place, also where it goes around the end of
RAM (`Apart`).

`CpuProofs` (from `CpuAssumption`, `IdleConstants` and `MovesAreSetUp`): `TypeOK`, `EmulationConfined`
and `ArithmeticExact`, for every program, at any place in memory, with interrupts at any instruction;
`SkipAligned`, for any timing of the bus; `InterruptTransparent` and `BlockMoveExact`, for programs that
save what they use.

* `Good` is the inductive invariant of the first two: every register in its width, every address
  written in 24 bits, and in emulation mode (`Confined`) the stack in page 1 and both widths 8 bits.
  Neither holds without the other: what a pull leaves in a register has its width because
  memory holds bytes, and `Confined` needs every way of writing the status (SEP, REP, PLP, RTI, XCE,
  the entry of a handler) and of writing SP (pushes, pulls, TXS, TCS) to respect the mode. There is
  one lemma for each operator of the model.
* `ArithmeticExact` is an action property: what ADC and SBC leave, against the sum or the difference of
  the numbers that the digits stand for. In binary, `OverflowExact` and `Complement` (SBC is the ADC of
  the complement). In decimal, `DigitAdded` and `DigitTaken` are one digit with its carry; four of them
  are put together once with weights of sixteen, which gives what is stored, and once with weights of
  ten, which gives what it means (`DecimalSumExact`, `DecimalDifferenceExact`). The operands have decimal
  digits: what the code does to others is modelled, and nothing is said of it.
* `SkipAligned`: for any access times, length of the scanline and margin, wherever the loop is
  entered, however far the joypad read has got, whatever the byte becomes. `IdleSkip` lets the plain
  CPU run through the line first, and the two are compared at its end only. The invariant (`IdleInv`)
  therefore says where the skipping CPU is meanwhile: there is a trace of turns from it to where the
  plain one has got (`Reach`). A plain turn lengthens the trace, a turn of the other shortens it, and a
  skip cuts off whole iterations of two turns each (`Iterations`), the joypad timer included. If the
  byte is not zero, the plain CPU has left the loop by the margin (`Gone`), and the comparison no
  longer asks anything. A late H-IRQ is not due before the margin (`NotDue`).
* `InterruptTransparent`, for any program whose handlers put back the registers they use and leave alone
  what their entry has pushed (`HandlersSave`); nested to any depth, at any instruction, in any mode. The
  way in is described once (`Framed`): the program counter, the status and in native mode the bank are
  on the stack, above a pointer that may have gone around the end of page 1 or of the bank. `UpAgain` and
  `OneUp` say that the pulls of RTI find them there. The status byte is read as the status it was
  made from (`StatusAgain`), also where emulation mode has put the B flag in the place of X. RTI is the
  only instruction that leaves a handler (`OnlyReturns`).
* `BlockMoveExact`, for any move that does not overwrite what it has still to move (`MovesAreSetUp`, which
  TLC evaluates on the run's moves), of 1 to 65536 bytes, upwards or downwards, across the end of a bank;
  if its handlers save what they use, and nothing else writes to its bytes (`MovesLeftAlone`).
  The invariant `MoveInv` speaks of the program itself, which is the oldest interrupted machine while a
  handler runs (`Main`): it is at one of nine places, knows there how many bytes it has moved (`PlaceIn`),
  and those have arrived while the others are untouched (`Arrived`). A step of the move puts a byte where
  no other byte arrives (`ApartFrom`) and where none waits; a handler returns to the same place (`Returned`).

`HandlersSave` and `MovesLeftAlone` are about the programs, not about the CPU: they are stated in
`MCCpu65816`, where TLC finds both true of the run's programs when they are added to its PROPERTIES. The
service call of `narrow_indexes`, whose handler returns a result in X, does not satisfy the first.

`TransfersProofs` (from `DmaAssumption` and `HdmaAssumption`): all five properties of `transfers`.

* `TransferExact`, `RegistersAfter` and `BookedOnce`, for any registers and any number of transfers
  that start one another. The inductive invariant `DmaInv` says where the outermost call is: which
  channels are done, how many bytes of the current one are booked, and that a byte has moved and is
  not booked yet while another call is inside it (`Progress`). What the calls have spent and have
  not synced makes up the bytes moved (`Books`); as a sum over the stack would be recursive, it
  states that there are partial sums, one for each call, from the outermost to the innermost.
* `FollowsTable`. The invariant `FollowInv` says that a steady channel's cursor, counter and flags are
  those of a line of an entry of its table, or that the table is at its end (`PlacedAt`). `LoadIs` takes
  it past a header, `RunIs` over one line; `OneAsked`, that an entry's lines are its own (`LinesGrow`),
  that the table asks that line for the unit that is sent and for no other.
* `LateChannelSilent`: a channel that was not started is switched off, if any was (`LateInv`).

`PortsProofs` (from `PortsAssumption`): `BlockLands`, `ReadsBack` and `PairExact`, for any program of
accesses to all units in any order, any data, any buttons, and any number of accesses.

* The properties speak of what has come of the accesses since an address was set, and not of the
  address, the latch and the flip-flop that the next one will use, so they are not inductive. The
  inductive invariant `PortsInv` has one part per unit. It says where the address is after that many
  accesses, around the end of the unit (`OamPos`, `CgramAddr`, `VWord`); that a byte waits in the latch
  exactly when a pair is half written, and is the last one written; and that the memory holds what
  the writes so far have made of it (`Holds`), which `HoldsMore` extends by one write.
* OAM needs that an address a program sets is even (`OamStart`): the parity of the position is then
  that of the number of accesses, also where pairs give way to the high table and where the high
  table gives way to pairs again. VRAM needs that the buffer holds the word one move behind the address
  (before the first move: at it), for every step, rotation and choice of the half that moves.
* The scroll part says of each of the three latches that it holds the latest byte that went through
  it. The fine bits of a horizontal offset come from a latch of their own, which is the shared one's
  value if the two writes were to the same register (`Joined`).
* An access belongs to one unit: `OamStepped` and its like prove that it keeps the part of that unit,
  `OamKept` and its like that an access to another unit does.

The tables of `Hdma`, the stack of `Dma`, the ring of `AudioRing` and the blocks of `Ports` grow without
bound. The proofs go
through numbers instead of induction over them: a fact about all entries follows from the least
entry that would break it (`MinIs`, from the well-foundedness of the naturals).

Only model-checked:

* liveness (`CatchUpReturns`, `FrameEnds`, `Converges`, `KeyOffEnds`), which needs fairness.

## 6. What is not modelled

* The SPC700's instructions: sequential, without interrupts or modes; its timing and its accesses
  are in `Apu`, over every program.
* Rendering: a pure function of registers and memories.
* The address decoder and the multiply and divide unit: pure functions of their operands.
* Snapshots: save and restore copy field after field in one order, and stop at the first error. A
  restore that fails leaves a mixture by construction, and the repository promises nothing about it.
  That no field is missing is a matter of lists, not of behaviour.
* In `Cpu65816`: the bus map and the cost of accesses (in `FrameLoop`, abstractly); debug counters.
* In `Ports`: registers that are stored and nothing else; the H counter, which is read like the V
  counter; the multiplier's result.
* In `Dsp`: sample values, and with them noise, volumes and the FIR filter; the order of the two
  accesses within one echo frame.
* In `PhaseA`: the page's own audio ring, which one thread fills and empties.
* Host I/O, the ROM catalogue, argument parsing, tracing, benchmarks: no protocol of their own.
* Run-ahead: the frame loop without rendering.
* `src/apu.rs`: no longer part of the crate.

## 7. What is left

1. Algorithms against reference definitions: SPC700 MUL, DIV, DAA and DAS; window and priority logic,
   colour math; the address decoder with its mirrors.
2. Whether an upset ring recovers: under which timing of ticks and quanta it becomes calm again.
