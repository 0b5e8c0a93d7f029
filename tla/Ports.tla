------------------------------- MODULE Ports -------------------------------
(***************************************************************************)
(* The serial ports of the console: memories behind an address register    *)
(* that moves by itself (OAM, CGRAM, VRAM of src/src/ppu/mod.rs, the WRAM  *)
(* port of src/src/bus.rs), registers written or read in two halves        *)
(* (scroll, Mode 7, H/V counters) and the joypad (src/src/joypad.rs).      *)
(* Every access moves a latch, a flip-flop or an address on which the      *)
(* meaning of all later accesses depends; some latches are shared by       *)
(* several registers.                                                      *)
(*                                                                         *)
(* A memory is a function of the bytes written since the behaviour began;  *)
(* the others hold what an earlier program left there (Left).              *)
(*                                                                         *)
(* Definitions named Bad... are plausible faults, not part of the model.   *)
(***************************************************************************)
EXTENDS Integers, FiniteSets, Sequences

CONSTANTS
  Programs,     \* a program: the registers it uses, and the values it writes to them
  Datum(_),     \* the data: the byte that the n-th access writes to a memory
  Buttons,      \* the buttons the host may press and release, as bits of the pad's word
  MaxAccesses,  \* bound on the accesses to memory ports, scroll registers and counters
  MaxReads      \* bound on the serial reads of the joypad after a strobe

Below(n) == 0..n-1
Uint8    == Below(256)
Uint16   == Below(65536)

\* "scanline" is not a register: the beam gets to these lines.
PortsAssumption ==
  /\ \A p \in Programs : \A reg \in DOMAIN p :
       p[reg] \subseteq IF reg = "scanline" THEN Uint16 ELSE Uint8
  /\ \A n \in Below(MaxAccesses) : Datum(n) \in Uint8
  /\ Buttons \subseteq Below(16) /\ MaxAccesses \in Nat /\ MaxReads \in Nat
ASSUME PortsAssumption

VARIABLES
  program,   \* register -> values
  oam,       \* [mem, addr, internal, latch, flipflop]
  cgram,     \* [mem, addr, latch, flipflop]
  vram,      \* [mem, addr, vmain, remap, prefetch]
  wram,      \* [mem, addr]
  scroll,    \* [regs, latch, hofsLatch, m7Latch]
  counter,   \* [scanline, opvct, flipflop]
  pad,       \* [current, latched, index, strobe]; the first two are sets of buttons
  accesses,  \* accesses so far
  \* history
  run,       \* accesses to one unit since its address was set: [unit, clean, start, before, items]
  pairs      \* the latest two writes, as [reg, val], that went through each shared latch

vars == <<program, oam, cgram, vram, wram, scroll, counter, pad, accesses, run, pairs>>

Left(a) == (3 * a + a \div 256) % 128
Byte(mem, a) == IF a \in DOMAIN mem THEN mem[a] ELSE Left(a)
Word(mem, w) == Byte(mem, 2 * w) + 256 * Byte(mem, 2 * w + 1)
Set(mem, a, v) == [k \in DOMAIN mem \cup {a} |-> IF k = a THEN v ELSE mem[k]]
Untouched == [a \in {} |-> 0]

ScrollRegs == {"BG1HOFS", "BG1VOFS", "BG2HOFS", "BG2VOFS", "BG3HOFS", "BG3VOFS",
               "BG4HOFS", "BG4VOFS"}
Mode7Regs  == {"M7A", "M7B", "M7C", "M7D", "M7X", "M7Y", "M7HOFS", "M7VOFS"}

Init ==
  /\ program \in Programs
  /\ oam = [mem |-> Untouched, addr |-> 0, internal |-> 0, latch |-> 0, flipflop |-> FALSE]
  /\ cgram = [mem |-> Untouched, addr |-> 0, latch |-> 0, flipflop |-> FALSE]
  /\ vram = [mem |-> Untouched, addr |-> 0, vmain |-> 1, remap |-> 0, prefetch |-> 0]
  /\ wram = [mem |-> Untouched, addr |-> 0]
  /\ scroll = [regs |-> [r \in ScrollRegs \cup Mode7Regs |-> 0],
               latch |-> 0, hofsLatch |-> 0, m7Latch |-> 0]
  /\ counter = [scanline |-> 0, opvct |-> 0, flipflop |-> FALSE]
  /\ pad = [current |-> {}, latched |-> {}, index |-> 0, strobe |-> FALSE]
  /\ accesses = 0
  /\ run = [unit |-> "none", clean |-> FALSE, start |-> 0, before |-> Untouched, items |-> <<>>]
  /\ pairs = [l \in {"scroll", "m7"} |-> <<>>]

-----------------------------------------------------------------------------
(* Bookkeeping of accesses and of the history.                             *)

\* The program accesses a register; Written are the values it may write there.
Access(reg) ==
  /\ accesses < MaxAccesses /\ accesses' = accesses + 1
  /\ reg \in DOMAIN program

Written(reg) == IF reg \in DOMAIN program THEN program[reg] ELSE {}

\* Accesses to other units do not disturb a run.
Begin(unit, start, mem) ==
  run' = [unit |-> unit, clean |-> TRUE, start |-> start, before |-> mem, items |-> <<>>]
Broken(unit) == run' = IF run.unit = unit THEN [run EXCEPT !.clean = FALSE] ELSE run
Note(unit, op, half, val) ==
  run' = IF run.unit = unit
         THEN [run EXCEPT !.items = Append(@, [op |-> op, half |-> half, val |-> val])]
         ELSE run

-----------------------------------------------------------------------------
(* OAM: 512 bytes written in pairs, and a high table of 32 written singly. *)

Even(a) == a - (a % 2)

\* A pair that is half written stays so.
BadAddressed(a) == [oam EXCEPT !.addr = a, !.internal = a]

\* A new address ends a pair that is half written.
Addressed(a) == [oam EXCEPT !.addr = a, !.internal = a, !.flipflop = FALSE]

WriteOamaddl(v) ==
  /\ Access("OAMADDL")
  /\ oam' = Addressed(512 * (oam.addr \div 512) + 2 * v)
  /\ Begin("oam", oam'.internal, oam.mem)
  /\ UNCHANGED <<program, cgram, vram, wram, scroll, counter, pad, pairs>>

WriteOamaddh(v) ==
  /\ Access("OAMADDH")
  /\ oam' = Addressed(Even(oam.addr % 512) + 512 * (v % 2))
  /\ Begin("oam", oam'.internal, oam.mem)
  /\ UNCHANGED <<program, cgram, vram, wram, scroll, counter, pad, pairs>>

\* The high table and its mirrors.
HighTable(a) == 512 + (a % 32)

WriteOamdata ==
  LET idx == Even(oam.internal)
      val == Datum(accesses)
  IN  /\ Access("OAMDATA")
      /\ oam' =
           IF oam.internal >= 512
           THEN [oam EXCEPT !.mem = Set(@, HighTable(oam.internal), val),
                            !.internal = (@ + 1) % 1024]
           ELSE IF ~oam.flipflop
           THEN [oam EXCEPT !.latch = val, !.flipflop = TRUE]
           ELSE [oam EXCEPT !.mem = Set(Set(@, idx, oam.latch), idx + 1, val),
                            !.internal = (@ + 2) % 1024, !.flipflop = FALSE]
      /\ Note("oam", "w", 0, val)
      /\ UNCHANGED <<program, cgram, vram, wram, scroll, counter, pad, pairs>>

\* A read does not see the high table's mirrors and leaves the flip-flop alone.
ReadOamdata ==
  /\ Access("OAMDATAREAD")
  /\ oam' = [oam EXCEPT !.internal = (@ + 1) % 1024]
  /\ Note("oam", "r", 0, IF oam.internal < 544 THEN Byte(oam.mem, oam.internal) ELSE 0)
  /\ UNCHANGED <<program, cgram, vram, wram, scroll, counter, pad, pairs>>

-----------------------------------------------------------------------------
(* CGRAM: 256 colours of 15 bits; one flip-flop for reads and writes.      *)

WriteCgadd(v) ==
  /\ Access("CGADD")
  /\ cgram' = [cgram EXCEPT !.addr = v, !.flipflop = FALSE]
  /\ Begin("cgram", v, cgram.mem)
  /\ UNCHANGED <<program, oam, vram, wram, scroll, counter, pad, pairs>>

WriteCgdata ==
  LET idx == 2 * cgram.addr
      val == Datum(accesses)
  IN  /\ Access("CGDATA")
      /\ cgram' =
           IF ~cgram.flipflop
           THEN [cgram EXCEPT !.latch = val, !.flipflop = TRUE]
           ELSE [cgram EXCEPT !.mem = Set(Set(@, idx, cgram.latch), idx + 1, val % 128),
                              !.addr = (@ + 1) % 256, !.flipflop = FALSE]
      /\ Note("cgram", "w", 0, val)
      /\ UNCHANGED <<program, oam, vram, wram, scroll, counter, pad, pairs>>

ReadCgdata ==
  /\ Access("CGDATAREAD")
  /\ cgram' = [cgram EXCEPT !.flipflop = ~@, !.addr = IF cgram.flipflop THEN (@ + 1) % 256 ELSE @]
  /\ Note("cgram", "r", 0, Byte(cgram.mem, 2 * cgram.addr + IF cgram.flipflop THEN 1 ELSE 0))
  /\ UNCHANGED <<program, oam, vram, wram, scroll, counter, pad, pairs>>

-----------------------------------------------------------------------------
(* VRAM: 32K words; the address may be rotated on its way (remap) and moves *)
(* after the low or the high half, as VMAIN says.                          *)

VramWords == 32768

\* vram_step and translate_vram_addr.
VramStep == CASE vram.vmain % 4 = 0 -> 1 [] vram.vmain % 4 = 1 -> 32 [] OTHER -> 128

\* In a block of 8 * n words the upper three bits of the address become its lowest.
Rotated(addr, n) == (addr - (addr % (8 * n))) + 8 * (addr % n) + ((addr \div n) % 8)

Translated(remap, addr) ==
  CASE remap = 0 -> addr [] remap = 1 -> Rotated(addr, 32) [] remap = 2 -> Rotated(addr, 64)
    [] remap = 3 -> Rotated(addr, 128)

\* The half, 0 for the low one, after which the address moves.
MovingHalf == vram.vmain \div 128

\* Addresses past the end are not mirrored: the buffer keeps its value.
Fetched(v) ==
  LET w == Translated(v.remap, v.addr)
  IN  [v EXCEPT !.prefetch = IF w < VramWords THEN Word(v.mem, w) ELSE @]

Moved(v) == [v EXCEPT !.addr = (@ + VramStep) % 65536]

WriteVmain(v) ==
  /\ Access("VMAIN")
  /\ vram' = [vram EXCEPT !.vmain = 128 * (v \div 128) + (v % 4), !.remap = (v \div 4) % 4]
  /\ Broken("vram")
  /\ UNCHANGED <<program, oam, cgram, wram, scroll, counter, pad, pairs>>

VmaddReg == <<"VMADDL", "VMADDH">>

WriteVmadd(half, v) ==
  /\ Access(VmaddReg[half + 1])
  /\ vram' = Fetched([vram EXCEPT !.addr = IF half = 0 THEN (@ - (@ % 256)) + v ELSE (@ % 256) + 256 * v])
  /\ Begin("vram", vram'.addr, vram.mem)
  /\ UNCHANGED <<program, oam, cgram, wram, scroll, counter, pad, pairs>>

WriteVmdata(half) ==
  /\ Access(<<"VMDATAL", "VMDATAH">>[half + 1])
  /\ LET w == Translated(vram.remap, vram.addr)
         v == [vram EXCEPT !.mem = IF w < VramWords THEN Set(@, 2 * w + half, Datum(accesses)) ELSE @]
     IN  vram' = IF half = MovingHalf THEN Moved(v) ELSE v
  /\ Note("vram", "w", half, Datum(accesses))
  /\ UNCHANGED <<program, oam, cgram, wram, scroll, counter, pad, pairs>>

\* The address moves before the buffer is filled.
BadRefilled(v) == Fetched(Moved(v))

Refilled(v) == Moved(Fetched(v))

ReadVmdata(half) ==
  /\ Access(<<"VMDATALREAD", "VMDATAHREAD">>[half + 1])
  /\ vram' = IF half = MovingHalf THEN Refilled(vram) ELSE vram
  /\ Note("vram", "r", half, IF half = 0 THEN vram.prefetch % 256 ELSE vram.prefetch \div 256)
  /\ UNCHANGED <<program, oam, cgram, wram, scroll, counter, pad, pairs>>

-----------------------------------------------------------------------------
(* The WRAM port: 17 address bits, written in three pieces.                *)

WmaddReg == <<"WMADDL", "WMADDM", "WMADDH">>

WriteWmadd(part, v) ==
  /\ Access(WmaddReg[part + 1])
  /\ wram' = [wram EXCEPT !.addr =
       CASE part = 0 -> (@ - (@ % 256)) + v
         [] part = 1 -> 65536 * (@ \div 65536) + 256 * v + (@ % 256)
         [] part = 2 -> 65536 * (v % 2) + (@ % 65536)]
  /\ Begin("wram", wram'.addr, wram.mem)
  /\ UNCHANGED <<program, oam, cgram, vram, scroll, counter, pad, pairs>>

WriteWmdata ==
  /\ Access("WMDATA")
  /\ wram' = [wram EXCEPT !.mem = Set(@, wram.addr, Datum(accesses)), !.addr = (@ + 1) % 131072]
  /\ Note("wram", "w", 0, Datum(accesses))
  /\ UNCHANGED <<program, oam, cgram, vram, scroll, counter, pad, pairs>>

ReadWmdata ==
  /\ Access("WMDATAREAD")
  /\ wram' = [wram EXCEPT !.addr = (@ + 1) % 131072]
  /\ Note("wram", "r", 0, Byte(wram.mem, wram.addr))
  /\ UNCHANGED <<program, oam, cgram, vram, scroll, counter, pad, pairs>>

-----------------------------------------------------------------------------
(* Scroll and Mode 7 registers, written in two halves.  All scroll         *)
(* registers share one latch, the horizontal ones a second one, and all    *)
(* Mode 7 registers a third.  $210D and $210E are both.                    *)

Signed13(raw) == LET r == raw % 8192 IN IF r >= 4096 THEN r - 8192 ELSE r
Signed16(raw) == IF raw >= 32768 THEN raw - 65536 ELSE raw

Horizontal == {"BG1HOFS", "BG2HOFS", "BG3HOFS", "BG4HOFS"}
Wide == {"M7A", "M7B", "M7C", "M7D"}

Scrolled(reg, v) ==
  IF reg \in Horizontal
  THEN 256 * v + (scroll.latch - (scroll.latch % 8)) + (scroll.hofsLatch % 8)
  ELSE 256 * v + scroll.latch

Mode7Value(reg, v) ==
  LET raw == 256 * v + scroll.m7Latch IN IF reg \in Wide THEN Signed16(raw) ELSE Signed13(raw)

\* The horizontal registers' own latch is forgotten.
BadAfterScroll(s, reg, v) == [s EXCEPT !.regs[reg] = Scrolled(reg, v), !.latch = v]

AfterScroll(s, reg, v) ==
  [s EXCEPT !.regs[reg] = Scrolled(reg, v), !.latch = v,
            !.hofsLatch = IF reg \in Horizontal THEN v ELSE @]
AfterMode7(s, reg, v) == [s EXCEPT !.regs[reg] = Mode7Value(reg, v), !.m7Latch = v]

Pair(l, reg, v) == Append(IF Len(l) < 2 THEN l ELSE Tail(l), [reg |-> reg, val |-> v])

\* BG1's registers are Mode 7's too.
Mode7Twin == [BG1HOFS |-> "M7HOFS", BG1VOFS |-> "M7VOFS"]

WriteScroll(reg, v) ==
  /\ Access(reg)
  /\ IF reg \in DOMAIN Mode7Twin
       THEN /\ scroll' = AfterMode7(AfterScroll(scroll, reg, v), Mode7Twin[reg], v)
            /\ pairs' = [scroll |-> Pair(pairs.scroll, reg, v),
                         m7 |-> Pair(pairs.m7, Mode7Twin[reg], v)]
       ELSE /\ scroll' = AfterScroll(scroll, reg, v)
            /\ pairs' = [pairs EXCEPT !.scroll = Pair(@, reg, v)]
  /\ UNCHANGED <<program, oam, cgram, vram, wram, counter, pad, run>>

WriteMode7(reg, v) ==
  /\ Access(reg)
  /\ scroll' = AfterMode7(scroll, reg, v)
  /\ pairs' = [pairs EXCEPT !.m7 = Pair(@, reg, v)]
  /\ UNCHANGED <<program, oam, cgram, vram, wram, counter, pad, run>>

-----------------------------------------------------------------------------
(* The V counter: latched by a read of SLHV, read in two halves.  (The H   *)
(* counter works alike, and is always latched as zero.)                    *)

SetScanline(line) ==
  /\ Access("scanline")
  /\ counter' = [counter EXCEPT !.scanline = line]
  /\ UNCHANGED <<program, oam, cgram, vram, wram, scroll, pad, run, pairs>>

ReadSlhv ==
  /\ Access("SLHV")
  /\ counter' = [counter EXCEPT !.opvct = counter.scanline, !.flipflop = FALSE]
  /\ Begin("counter", counter.scanline, Untouched)
  /\ UNCHANGED <<program, oam, cgram, vram, wram, scroll, pad, pairs>>

ReadOpvct ==
  /\ Access("OPVCT")
  /\ counter' = [counter EXCEPT !.flipflop = ~@]
  /\ Note("counter", "r", 0, IF counter.flipflop THEN counter.opvct \div 256 ELSE counter.opvct % 256)
  /\ UNCHANGED <<program, oam, cgram, vram, wram, scroll, pad, pairs>>

ReadStat78 ==
  /\ Access("STAT78")
  /\ counter' = [counter EXCEPT !.flipflop = FALSE]
  /\ Begin("counter", counter.opvct, Untouched)
  /\ UNCHANGED <<program, oam, cgram, vram, wram, scroll, pad, pairs>>

-----------------------------------------------------------------------------
(* The joypad: the host sets buttons at any time, the program strobes and  *)
(* reads bit by bit.                                                       *)

SetButton(b, pressed) ==
  /\ "JOYSER" \in DOMAIN program
  /\ pad' = [pad EXCEPT !.current = IF pressed THEN @ \cup {b} ELSE @ \ {b}]
  /\ UNCHANGED <<program, oam, cgram, vram, wram, scroll, counter, accesses, run, pairs>>

WriteStrobe(new) ==
  /\ "JOYSER" \in DOMAIN program
  /\ IF pad.strobe /\ ~new
       THEN /\ pad' = [pad EXCEPT !.latched = pad.current, !.index = 0, !.strobe = new]
            /\ Begin("pad", pad.current, Untouched)
       ELSE /\ pad' = [pad EXCEPT !.strobe = new]
            /\ IF new THEN Broken("pad") ELSE UNCHANGED run
  /\ UNCHANGED <<program, oam, cgram, vram, wram, scroll, counter, accesses, pairs>>

\* While the strobe is high a read shows button B and moves nothing.
ReadSerial ==
  /\ "JOYSER" \in DOMAIN program
  /\ ~pad.strobe /\ Len(run.items) < MaxReads
  /\ pad' = [pad EXCEPT !.index = IF @ < 16 THEN @ + 1 ELSE @]
  /\ Note("pad", "r", 0, IF pad.index >= 16 \/ 15 - pad.index \in pad.latched THEN 1 ELSE 0)
  /\ UNCHANGED <<program, oam, cgram, vram, wram, scroll, counter, accesses, pairs>>

-----------------------------------------------------------------------------
OamPort ==
  \/ \E v \in Written("OAMADDL") : WriteOamaddl(v)
  \/ \E v \in Written("OAMADDH") : WriteOamaddh(v)
  \/ WriteOamdata \/ ReadOamdata

CgramPort == (\E v \in Written("CGADD") : WriteCgadd(v)) \/ WriteCgdata \/ ReadCgdata

VramPort ==
  \/ \E v \in Written("VMAIN") : WriteVmain(v)
  \/ \E half \in 0..1 :
       (\E v \in Written(VmaddReg[half + 1]) : WriteVmadd(half, v)) \/ WriteVmdata(half) \/ ReadVmdata(half)

WramPort ==
  \/ \E part \in 0..2 : \E v \in Written(WmaddReg[part + 1]) : WriteWmadd(part, v)
  \/ WriteWmdata \/ ReadWmdata

ScrollPort ==
  \/ \E reg \in ScrollRegs : \E v \in Written(reg) : WriteScroll(reg, v)
  \/ \E reg \in Mode7Regs \ {"M7HOFS", "M7VOFS"} : \E v \in Written(reg) : WriteMode7(reg, v)

CounterPort ==
  (\E line \in Written("scanline") : SetScanline(line)) \/ ReadSlhv \/ ReadOpvct \/ ReadStat78

PadPort ==
  \/ \E b \in Buttons, pressed \in BOOLEAN : SetButton(b, pressed)
  \/ \E new \in BOOLEAN : WriteStrobe(new)
  \/ ReadSerial

Next == OamPort \/ CgramPort \/ VramPort \/ WramPort \/ ScrollPort \/ CounterPort \/ PadPort

Spec == Init /\ [][Next]_vars

-----------------------------------------------------------------------------
(* What the ports promise: the i-th access after an address was set is to  *)
(* the i-th byte from there.                                               *)

Only(op) == \A i \in DOMAIN run.items : run.items[i].op = op

\* Accesses before the i-th that moved the address of VRAM.
Moves(i) == Cardinality({j \in 1..i-1 : run.items[j].half = MovingHalf})

VramWord(n) == Translated(vram.remap, (run.start + VramStep * n) % 65536)

OamAt(i)   == (run.start + i - 1) % 1024
CgramAt(i) == (2 * run.start + i - 1) % 512
WramAt(i)  == (run.start + i - 1) % 131072

\* The writes so far that should have changed a byte: a byte waits in its latch until
\* its pair is complete, and is lost past the end of VRAM.
Landed ==
  LET n == Len(run.items)
      paired(i) == i < n \/ n % 2 = 0
  IN  {i \in 1..n : CASE run.unit = "oam"   -> OamAt(i) >= 512 \/ paired(i)
                      [] run.unit = "cgram" -> paired(i)
                      [] run.unit = "vram"  -> VramWord(Moves(i)) < VramWords
                      [] run.unit = "wram"  -> run.items[i].op = "w"}

\* Where the i-th access belongs, and what becomes of its value there.
Place(i) ==
  CASE run.unit = "oam"   -> IF OamAt(i) >= 512 THEN HighTable(OamAt(i)) ELSE OamAt(i)
    [] run.unit = "cgram" -> CgramAt(i)
    [] run.unit = "vram"  -> 2 * VramWord(Moves(i)) + run.items[i].half
    [] run.unit = "wram"  -> WramAt(i)
Value(i) == IF run.unit = "cgram" /\ i % 2 = 0 THEN run.items[i].val % 128 ELSE run.items[i].val

Memory == CASE run.unit = "oam" -> oam.mem [] run.unit = "cgram" -> cgram.mem
            [] run.unit = "vram" -> vram.mem [] run.unit = "wram" -> wram.mem

\* A block written after its address lands byte by byte where it should, the last
\* write to a byte remains, and nothing else changes: pairs, the high table behind OAM,
\* the wrap of every address, the rotation of VRAM addresses and the half that moves
\* them included (ppu/mod.rs:235-264, 379-468; bus.rs:417-429).
BlockLands ==
  run.clean /\ run.unit \in {"oam", "cgram", "vram", "wram"}
  /\ (run.unit = "wram" \/ Only("w")) =>
    /\ \A i \in Landed : (\A j \in Landed : j > i => Place(j) # Place(i)) =>
         Byte(Memory, Place(i)) = Value(i)
    /\ \A a \in DOMAIN Memory \cup DOMAIN run.before :
         (\A i \in Landed : Place(i) # a) => Byte(Memory, a) = Byte(run.before, a)

\* The word the VRAM port shows: it runs one behind the address.
Shown(i) == VramWord(IF Moves(i) = 0 THEN 0 ELSE Moves(i) - 1)

Expected(i) ==
  CASE run.unit = "oam"     -> IF OamAt(i) < 544 THEN Byte(oam.mem, OamAt(i)) ELSE 0
    [] run.unit = "cgram"   -> Byte(cgram.mem, CgramAt(i))
    [] run.unit = "vram"    -> Byte(vram.mem, 2 * Shown(i) + run.items[i].half)
    [] run.unit = "counter" -> IF i % 2 = 1 THEN run.start % 256 ELSE run.start \div 256
    [] run.unit = "pad"     -> IF i > 16 \/ 16 - i \in run.start THEN 1 ELSE 0

\* What is read after an address was set, the counters latched or the joypad
\* strobed is what was there at that moment, in order, whatever the program, the
\* host or the beam have changed in between (ppu/mod.rs:699-777, joypad.rs:48-79).
ReadsBack ==
  run.clean /\ run.unit \in {"oam", "cgram", "vram", "counter", "pad"} /\ Only("r") =>
    \A i \in DOMAIN run.items :
      (run.unit = "vram" => Shown(i) < VramWords) => run.items[i].val = Expected(i)

\* Two writes to one register, with none to a register that shares its latch in
\* between, leave exactly the value they were halves of, whatever was written
\* before and to registers of other latches meanwhile (ppu/mod.rs:304-378).
PairExact ==
  \A l \in {"scroll", "m7"} :
    LET p == pairs[l] IN
    Len(p) = 2 /\ p[1].reg = p[2].reg =>
      scroll.regs[p[2].reg] =
        LET raw == 256 * p[2].val + p[1].val
        IN  IF l = "scroll" THEN raw
            ELSE IF p[2].reg \in Wide THEN Signed16(raw) ELSE Signed13(raw)
=============================================================================
