----------------------------- MODULE FrameLoop -----------------------------
(***************************************************************************)
(* The scheduler of the emulated console: Emulator::run_frame_inner of     *)
(* src/src/lib.rs with the parts of Cpu::step and Bus it drives.           *)
(*                                                                         *)
(* There is one host thread.  The main CPU owns time (cycles); the bus     *)
(* carries a copy of it (masterClock) that is refreshed after every        *)
(* instruction, and the APU is credited with the time since lastApuSync    *)
(* only when somebody looks at it: a port access, a chunk of general DMA,  *)
(* the end of a scanline, HDMA.  DMA spends time too, but books it when    *)
(* the transfer ends, in pendingDma, which the frame loop adds to cycles   *)
(* afterwards.                                                             *)
(*                                                                         *)
(* Control points (pc):                                                    *)
(*   idle  the host has control, between two frames                        *)
(*   line  the head of the scanline loop                                   *)
(*   cpu   the head of the instruction loop of a scanline                  *)
(*   dma   inside an instruction that wrote MDMAEN: bytes are moving       *)
(*   post  the instruction has returned its elapsed cycles                 *)
(*   hdma  the scanline is flushed; HDMA runs before rendering             *)
(*                                                                         *)
(* Definitions named Bad... are plausible faults in the definition after   *)
(* them, not part of the model: they show that a property would notice.    *)
(***************************************************************************)
EXTENDS Integers

CONSTANTS
  ScanlineCycles,    \* MASTER_CYCLES_PER_SCANLINE (1364)
  HblankCycles,      \* length of H-blank (68 * 4)
  Scanlines,         \* SCANLINES_PER_FRAME (262)
  VisibleScanlines,  \* VISIBLE_SCANLINES (224)
  VBlankStart,       \* VBLANK_START (225)
  Dots,              \* dots per scanline (340)
  JoyBusyCycles,     \* length of the auto-joypad read (4224)
  StallCycles,       \* cycles of a stopped or waiting CPU's step (6)
  InstCycles,        \* master cycles an instruction may take
  DmaByteCycles,     \* master cycles per DMA byte (8)
  DmaChunk,          \* cycles of DMA between two syncs of the APU (128)
  DmaLengths,        \* bytes a write of MDMAEN moves
  HdmaCosts,         \* cycles HDMA may take on a line, or to set up a frame
  Programs,          \* the programs: each the set of what its instructions may do
  NoMatch,           \* HTIME and VTIME at power-on (0x1FF): no dot, no scanline
  MaxFrames          \* bound on the frames the host asks for

VARIABLES
  program,      \* the program in the cartridge
  pc, scanline, frames,
  cycles, deadline, elapsed,
  masterClock, lastApuSync, apuTotal, pendingDma,
  dmaLeft, dmaMoved, sinceSync,
  vblank, hblank, nmiFlag, irqFlag,
  nmitimen, irqMode, htime, vtime, hdmaen,
  nmiPending, irqPending, iFlag, cpuMode,
  joyBusy, joyTimer,
  \* history
  nmisTaken,    \* NMIs the CPU has entered in this frame
  irqsRaised,   \* IRQs raised on this scanline
  joyStart      \* cycles when the current auto-joypad read began

clockVars == <<cycles, deadline, masterClock, lastApuSync, apuTotal, pendingDma>>
dmaVars   == <<dmaLeft, dmaMoved, sinceSync>>
regVars   == <<nmitimen, htime, vtime, hdmaen>>
cpuVars   == <<nmiPending, irqPending, iFlag, cpuMode>>
joyVars   == <<joyBusy, joyTimer, joyStart>>
histVars  == <<nmisTaken, irqsRaised>>

vars == <<program, pc, scanline, frames, elapsed, clockVars, dmaVars, vblank, hblank,
          nmiFlag, irqFlag, irqMode, regVars, cpuVars, joyVars, histVars>>

\* $4200: NMI enable, H/V-IRQ mode, auto-joypad enable.
Nmitimen == [nmi : BOOLEAN, irq : 0..3, joy : BOOLEAN]

Kinds == {"none", "port", "nmitimen", "rdnmi", "timeup", "mdmaen", "hdmaen",
          "htime", "vtime", "wai", "stp", "sei", "cli"}

\* Everything some program does.
Effects == UNION Programs

ASSUME FrameAssumption ==
  /\ ScanlineCycles \in Nat \ {0} /\ HblankCycles \in 1..ScanlineCycles
  /\ Scanlines \in Nat \ {0} /\ VBlankStart \in 1..Scanlines-1
  /\ VisibleScanlines \in 1..VBlankStart-1
  /\ Dots \in Nat \ {0} /\ JoyBusyCycles \in Nat \ {0}
  /\ StallCycles \in Nat \ {0} /\ InstCycles \subseteq Nat \ {0}
  /\ DmaByteCycles \in Nat \ {0} /\ DmaChunk \in Nat \ {0}
  /\ DmaLengths \subseteq Nat \ {0} /\ HdmaCosts \subseteq Nat
  /\ \A e \in Effects : /\ e.kind \in Kinds
                        /\ e.kind = "nmitimen" => e.val \in Nmitimen
                        /\ e.kind \in {"htime", "vtime"} => e.val \in Nat
                        /\ e.kind = "hdmaen" => e.val \in BOOLEAN
  /\ NoMatch \in Nat /\ NoMatch >= Dots /\ NoMatch >= Scanlines
  /\ MaxFrames \in Nat

TimeTypes ==
  /\ frames \in Nat
  /\ cycles \in Nat /\ deadline \in Nat /\ elapsed \in Nat
  /\ masterClock \in Nat /\ lastApuSync \in Nat /\ apuTotal \in Nat
  /\ pendingDma \in Nat /\ dmaLeft \in Nat /\ dmaMoved \in Nat /\ sinceSync \in Nat
  /\ nmisTaken \in Nat /\ irqsRaised \in Nat /\ joyStart \in Nat

FlagTypes ==
  /\ vblank \in BOOLEAN /\ hblank \in BOOLEAN /\ nmiFlag \in BOOLEAN
  /\ irqFlag \in BOOLEAN /\ hdmaen \in BOOLEAN /\ nmiPending \in BOOLEAN
  /\ irqPending \in BOOLEAN /\ iFlag \in BOOLEAN /\ joyBusy \in BOOLEAN

RangeTypes ==
  /\ program \subseteq Effects
  /\ pc \in {"idle", "line", "cpu", "dma", "post", "hdma"}
  /\ cpuMode \in {"run", "wai", "stp"}
  /\ scanline \in 0..Scanlines-1
  /\ joyTimer \in 0..JoyBusyCycles
  /\ nmitimen \in Nmitimen /\ irqMode \in 0..3 /\ htime \in Nat /\ vtime \in Nat

TypeOK == TimeTypes /\ FlagTypes /\ RangeTypes

Init ==
  /\ program \in Programs
  /\ pc = "idle" /\ scanline = 0 /\ frames = 0
  /\ cycles = 0 /\ deadline = 0 /\ elapsed = 0
  /\ masterClock = 0 /\ lastApuSync = 0 /\ apuTotal = 0 /\ pendingDma = 0
  /\ dmaLeft = 0 /\ dmaMoved = 0 /\ sinceSync = 0
  /\ vblank = FALSE /\ hblank = FALSE /\ nmiFlag = FALSE /\ irqFlag = FALSE
  /\ nmitimen = [nmi |-> FALSE, irq |-> 0, joy |-> FALSE] /\ irqMode = 0
  /\ htime = NoMatch /\ vtime = NoMatch /\ hdmaen = FALSE
  /\ nmiPending = FALSE /\ irqPending = FALSE /\ iFlag = TRUE /\ cpuMode = "run"
  /\ joyBusy = FALSE /\ joyTimer = 0 /\ joyStart = 0
  /\ nmisTaken = 0 /\ irqsRaised = 0

-----------------------------------------------------------------------------
(* Bus::sync_apu at bus clock mc: the APU is credited with the difference. *)

SyncApu(mc) ==
  /\ apuTotal' = apuTotal + (mc - lastApuSync)
  /\ lastApuSync' = mc

-----------------------------------------------------------------------------
(* The scanline loop.                                                      *)

\* The host asks for a frame: run_frame, or one tick of the worker.
RunFrame ==
  /\ pc = "idle" /\ frames < MaxFrames
  /\ pc' = "line"
  /\ scanline' = 0
  /\ nmisTaken' = 0
  /\ UNCHANGED <<frames, elapsed, clockVars, dmaVars, vblank, hblank, nmiFlag,
                 irqFlag, irqMode, regVars, cpuVars, joyVars, irqsRaised>>

\* V-blank begins again on every one of its lines.
BadVBlankBegins == scanline >= VBlankStart

VBlankBegins == scanline = VBlankStart

\* V-blank, NMI and the auto-joypad read, at the head of scanline VBlankStart.
EnterVBlank ==
  /\ vblank' = TRUE /\ nmiFlag' = TRUE
  /\ nmiPending' = (nmiPending \/ nmitimen.nmi)
  /\ joyBusy' = nmitimen.joy
  /\ joyTimer' = IF nmitimen.joy THEN JoyBusyCycles ELSE joyTimer
  /\ joyStart' = IF nmitimen.joy THEN cycles ELSE joyStart
  /\ UNCHANGED pendingDma

\* Scanline 0 ends V-blank and sets HDMA up; its cost is booked, not yet spent.
LeaveVBlank ==
  /\ vblank' = FALSE /\ nmiFlag' = FALSE
  /\ IF hdmaen THEN \E c \in HdmaCosts : pendingDma' = pendingDma + c
               ELSE UNCHANGED pendingDma
  /\ UNCHANGED <<nmiPending, joyVars>>

StartScanline ==
  /\ pc = "line"
  /\ IF VBlankBegins THEN EnterVBlank
     ELSE IF scanline = 0 THEN LeaveVBlank
     ELSE UNCHANGED <<vblank, nmiFlag, nmiPending, joyVars, pendingDma>>
  /\ irqMode' = nmitimen.irq
  /\ deadline' = cycles + ScanlineCycles
  /\ hblank' = FALSE
  /\ masterClock' = cycles /\ lastApuSync' = cycles
  /\ irqsRaised' = 0
  /\ pc' = "cpu"
  /\ UNCHANGED <<scanline, frames, elapsed, cycles, apuTotal, dmaVars, irqFlag,
                 regVars, irqPending, iFlag, cpuMode, nmisTaken>>

NextScanline ==
  IF scanline = Scanlines - 1
    THEN pc' = "idle" /\ frames' = frames + 1 /\ UNCHANGED scanline
    ELSE pc' = "line" /\ scanline' = scanline + 1 /\ UNCHANGED frames

\* The instruction loop has reached its deadline: the APU is flushed.
EndScanline ==
  /\ pc = "cpu" /\ cycles >= deadline
  /\ masterClock' = cycles
  /\ SyncApu(cycles)
  /\ IF scanline \in 1..VisibleScanlines
       THEN pc' = "hdma" /\ UNCHANGED <<scanline, frames>>
       ELSE NextScanline
  /\ UNCHANGED <<cycles, deadline, pendingDma, elapsed, dmaVars, vblank, hblank,
                 nmiFlag, irqFlag, irqMode, regVars, cpuVars, joyVars, histVars>>

\* The CPU is charged for HDMA and the APU is not credited.
BadHdmaLine ==
  /\ pc = "hdma"
  /\ \E c \in IF hdmaen THEN HdmaCosts ELSE {0} : cycles' = cycles + pendingDma + c
  /\ pendingDma' = 0
  /\ NextScanline
  /\ UNCHANGED <<deadline, masterClock, lastApuSync, apuTotal, elapsed, dmaVars,
                 vblank, hblank, nmiFlag, irqFlag, irqMode, regVars, cpuVars,
                 joyVars, histVars>>

\* HDMA moves its bytes and its cost is spent at once, before the next line.
\* (Its own sync finds the APU already flushed; so does one its bytes cause.)
HdmaLine ==
  /\ pc = "hdma"
  /\ \E c \in IF hdmaen THEN HdmaCosts ELSE {0} :
       LET cost == pendingDma + c
       IN  IF cost > 0
             THEN /\ cycles' = cycles + cost
                  /\ masterClock' = cycles + cost
                  /\ SyncApu(cycles + cost)
             ELSE UNCHANGED <<cycles, masterClock, lastApuSync, apuTotal>>
  /\ pendingDma' = 0
  /\ NextScanline
  /\ UNCHANGED <<deadline, elapsed, dmaVars, vblank, hblank, nmiFlag, irqFlag,
                 irqMode, regVars, cpuVars, joyVars, histVars>>

-----------------------------------------------------------------------------
(* One turn of the instruction loop: H-blank, the H/V-IRQ comparator, then *)
(* Cpu::step.                                                              *)

Dot == ((cycles - (deadline - ScanlineCycles)) * Dots) \div ScanlineCycles

IrqMatches ==
  \/ irqMode = 1 /\ Dot >= htime
  \/ irqMode = 2 /\ scanline = vtime
  \/ irqMode = 3 /\ scanline = vtime /\ Dot >= htime

IrqFires == IrqMatches /\ ~irqFlag

IrqAsserted == irqPending \/ IrqFires
IrqAccepted == IrqAsserted /\ ~iFlag

\* What the loop does before every step, whatever the step then is.
BeforeStep ==
  /\ pc = "cpu" /\ cycles < deadline
  /\ hblank' = (hblank \/ cycles >= deadline - HblankCycles)
  /\ irqsRaised' = irqsRaised + (IF IrqFires THEN 1 ELSE 0)
  /\ UNCHANGED <<scanline, frames, cycles, deadline, vblank, irqMode, joyVars>>

\* Waiting, only an interrupt request is a reason to wake.
BadMustStall ==
  \/ cpuMode = "stp"
  \/ cpuMode = "wai" /\ ~IrqAccepted

MustStall ==
  \/ cpuMode = "stp"
  \/ cpuMode = "wai" /\ ~nmiPending /\ ~IrqAccepted

\* Stalling takes no time.
BadStallElapsed == 0

StallElapsed == StallCycles

\* A stopped CPU, and a waiting one without a reason to wake, burn time.
Stall ==
  /\ BeforeStep
  /\ MustStall
  /\ irqFlag' = (irqFlag \/ IrqFires)
  /\ irqPending' = IrqAsserted
  /\ elapsed' = StallElapsed
  /\ pc' = "post"
  /\ UNCHANGED <<masterClock, lastApuSync, apuTotal, pendingDma, dmaVars, nmiFlag,
                 regVars, nmiPending, iFlag, cpuMode, nmisTaken>>

\* Interrupt entry: the status register is pushed, interrupts are masked.
EnterHandler ==
  /\ cpuMode' = "run" /\ iFlag' = TRUE
  /\ irqFlag' = (irqFlag \/ IrqFires)
  /\ elapsed' \in InstCycles
  /\ pc' = "post"
  /\ UNCHANGED <<masterClock, lastApuSync, apuTotal, pendingDma, dmaVars, nmiFlag,
                 regVars>>

TakeNmi ==
  /\ BeforeStep
  /\ cpuMode # "stp" /\ nmiPending
  /\ nmiPending' = FALSE
  /\ irqPending' = IrqAsserted
  /\ nmisTaken' = nmisTaken + 1
  /\ EnterHandler

TakeIrq ==
  /\ BeforeStep
  /\ cpuMode # "stp" /\ ~nmiPending /\ IrqAccepted
  /\ irqPending' = FALSE
  /\ UNCHANGED <<nmiPending, nmisTaken>>
  /\ EnterHandler

\* An instruction that stays clear of DMA.  An access to an APU port syncs to the
\* bus clock, which still says when the instruction began.
Execute(e) ==
  /\ BeforeStep
  /\ cpuMode = "run" /\ ~nmiPending /\ ~IrqAccepted
  /\ irqPending' = IrqAsserted
  /\ elapsed' \in InstCycles
  /\ e.kind # "mdmaen"
  /\ IF e.kind = "port" THEN SyncApu(masterClock) ELSE UNCHANGED <<lastApuSync, apuTotal>>
  /\ nmiFlag' = (nmiFlag /\ e.kind # "rdnmi")
  /\ irqFlag' = ((irqFlag \/ IrqFires) /\ e.kind # "timeup")
  /\ nmitimen' = IF e.kind = "nmitimen" THEN e.val ELSE nmitimen
  /\ htime' = IF e.kind = "htime" THEN e.val ELSE htime
  /\ vtime' = IF e.kind = "vtime" THEN e.val ELSE vtime
  /\ hdmaen' = IF e.kind = "hdmaen" THEN e.val ELSE hdmaen
  /\ iFlag' = IF e.kind \in {"sei", "cli"} THEN e.kind = "sei" ELSE iFlag
  /\ cpuMode' = IF e.kind \in {"wai", "stp"} THEN e.kind ELSE "run"
  /\ pc' = "post"
  /\ UNCHANGED <<masterClock, pendingDma, dmaVars, nmiPending, nmisTaken>>

-----------------------------------------------------------------------------
(* General DMA: an instruction writes MDMAEN and does not return until all *)
(* bytes have moved.                                                       *)

StartDma(e) ==
  /\ BeforeStep
  /\ cpuMode = "run" /\ ~nmiPending /\ ~IrqAccepted
  /\ e.kind = "mdmaen"
  /\ irqFlag' = (irqFlag \/ IrqFires) /\ irqPending' = IrqAsserted
  /\ elapsed' \in InstCycles
  /\ dmaLeft' \in DmaLengths /\ dmaMoved' = 0 /\ sinceSync' = 0
  /\ pc' = "dma"
  /\ UNCHANGED <<masterClock, lastApuSync, apuTotal, pendingDma, nmiFlag, regVars,
                 nmiPending, iFlag, cpuMode, nmisTaken>>

\* One byte; if it is addressed to an APU port the access syncs first, at a bus
\* clock that lags by the bytes since the last sync.
DmaByte(toPort) ==
  /\ pc = "dma" /\ dmaLeft > 0
  /\ dmaLeft' = dmaLeft - 1
  /\ dmaMoved' = dmaMoved + DmaByteCycles
  /\ IF sinceSync + DmaByteCycles >= DmaChunk
       THEN /\ masterClock' = masterClock + sinceSync + DmaByteCycles
            /\ SyncApu(masterClock')
            /\ sinceSync' = 0
       ELSE /\ UNCHANGED masterClock
            /\ IF toPort THEN SyncApu(masterClock) ELSE UNCHANGED <<lastApuSync, apuTotal>>
            /\ sinceSync' = sinceSync + DmaByteCycles
  /\ UNCHANGED <<pc, scanline, frames, elapsed, cycles, deadline, pendingDma, vblank,
                 hblank, nmiFlag, irqFlag, irqMode, regVars, cpuVars, joyVars, histVars>>

\* The rest is synced, and only then is the whole transfer booked.
EndDma ==
  /\ pc = "dma" /\ dmaLeft = 0
  /\ IF sinceSync > 0
       THEN masterClock' = masterClock + sinceSync /\ SyncApu(masterClock')
       ELSE UNCHANGED <<masterClock, lastApuSync, apuTotal>>
  /\ pendingDma' = pendingDma + dmaMoved
  /\ sinceSync' = 0 /\ dmaMoved' = 0
  /\ pc' = "post"
  /\ UNCHANGED <<scanline, frames, elapsed, cycles, deadline, dmaLeft, vblank, hblank,
                 nmiFlag, irqFlag, irqMode, regVars, cpuVars, joyVars, histVars>>

-----------------------------------------------------------------------------
(* The rest of the turn: CPU time, then the auto-joypad timer, then the    *)
(* DMA debt.                                                               *)

\* The timer is not saturated at zero.
BadJoyCountdown ==
  IF joyBusy THEN joyBusy' = (elapsed < joyTimer) /\ joyTimer' = joyTimer - elapsed
             ELSE UNCHANGED <<joyBusy, joyTimer>>

\* The read ends one cycle early.
BadJoyCountdownEarly ==
  IF joyBusy THEN joyBusy' = (elapsed + 1 < joyTimer)
                  /\ joyTimer' = IF elapsed < joyTimer THEN joyTimer - elapsed ELSE 0
             ELSE UNCHANGED <<joyBusy, joyTimer>>

JoyCountdown ==
  IF joyBusy THEN joyBusy' = (elapsed < joyTimer)
                  /\ joyTimer' = IF elapsed < joyTimer THEN joyTimer - elapsed ELSE 0
             ELSE UNCHANGED <<joyBusy, joyTimer>>

\* The APU is synced to the time before the DMA debt, which it has already passed.
BadSpend(now) ==
  /\ cycles' = now + pendingDma
  /\ masterClock' = now
  /\ IF pendingDma > 0 THEN SyncApu(now) ELSE UNCHANGED <<lastApuSync, apuTotal>>
  /\ pendingDma' = 0

\* now: the CPU's time after the instruction.
Spend(now) ==
  IF pendingDma > 0
    THEN /\ cycles' = now + pendingDma
         /\ masterClock' = now + pendingDma
         /\ SyncApu(now + pendingDma)
         /\ pendingDma' = 0
    ELSE /\ cycles' = now /\ masterClock' = now
         /\ UNCHANGED <<lastApuSync, apuTotal, pendingDma>>

AfterStep ==
  /\ pc = "post"
  /\ Spend(cycles + elapsed)
  /\ JoyCountdown
  /\ pc' = "cpu"
  /\ UNCHANGED <<scanline, frames, elapsed, deadline, dmaVars, vblank, hblank,
                 nmiFlag, irqFlag, irqMode, regVars, cpuVars, joyStart, histVars>>

Next ==
  /\ \/ RunFrame \/ StartScanline \/ EndScanline \/ HdmaLine
     \/ Stall \/ TakeNmi \/ TakeIrq
     \/ \E e \in program : Execute(e) \/ StartDma(e)
     \/ \E toPort \in BOOLEAN : DmaByte(toPort)
     \/ EndDma \/ AfterStep
  /\ UNCHANGED program

\* The frame loop is sequential code: once a frame has begun it runs on.
Fairness == WF_vars(pc # "idle" /\ Next)

Spec == Init /\ [][Next]_vars /\ Fairness

-----------------------------------------------------------------------------
(* Properties.                                                             *)

\* Every master cycle the CPU, DMA and HDMA spend is credited to the APU exactly
\* once: nothing is lost when a scanline resets lastApuSync (lib.rs:279-280) and
\* nothing is counted both by DMA's own syncs and by the frame loop's.
CreditExact ==
  pc \in {"idle", "line"} => apuTotal = cycles /\ lastApuSync = cycles /\ pendingDma = 0

\* Bus::sync_apu never runs the APU backwards: its debug assertion
\* (bus.rs:259-261) holds at every call, although the bus clock itself goes back
\* after a DMA (lib.rs:309 forgets what dma.rs:226 added until lib.rs:330).
NoClockInversion == [][apuTotal' >= apuTotal]_vars

\* The APU is ahead of the CPU's clock by DMA only: by what has been booked and
\* not yet spent and, while a transfer is on its way, by the bytes it has moved,
\* which are booked after the last of its syncs (dma.rs:225-239, lib.rs:326-331).
ApuNotAhead ==
  /\ apuTotal <= cycles + pendingDma + dmaMoved
  /\ pc # "dma" => apuTotal <= cycles + pendingDma

\* A CPU that is not stopped enters the NMI handler on the V-blank scanline
\* itself, even from WAI and with interrupts masked (lib.rs:218-223,
\* cpu/mod.rs:305-323).
NmiPrompt == nmiPending /\ cpuMode # "stp" => scanline = VBlankStart

\* The handler is entered at most once per frame, whatever the program does to
\* $4200 and $4210.
OneNmiPerFrame == nmisTaken <= 1

\* The auto-joypad read is never reported finished early: when the timer clears
\* the busy flag, JoyBusyCycles have passed (lib.rs:224-239, 316-323).
JoyNotEarly ==
  [][joyBusy /\ ~joyBusy' /\ pc = "post" => cycles' - joyStart >= JoyBusyCycles]_vars

\* A frame the host asked for ends, whether the CPU runs, waits or has stopped.
FrameEnds == pc = "line" ~> pc = "idle"

-----------------------------------------------------------------------------
(* A statement of the source that the code does not keep.                  *)

\* "fires once when position matches, cleared by $4211 read" (lib.rs:251).
IrqFiresOnce == irqsRaised <= 1
=============================================================================
