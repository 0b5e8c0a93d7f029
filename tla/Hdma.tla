-------------------------------- MODULE Hdma --------------------------------
(***************************************************************************)
(* HDMA of src/src/dma.rs: on every visible scanline each enabled channel  *)
(* may send one transfer unit to a PPU register, as a table in memory      *)
(* prescribes.  A table entry is a header, whose bit 7 (Repeat) asks for a *)
(* unit on every one of its lines and whose low bits count the lines, and  *)
(* the unit data: inline in direct mode, behind a pointer in indirect mode.*)
(* A zero header ends the table.                                           *)
(* Definitions named Bad... are plausible faults, not part of the model.   *)
(*                                                                         *)
(* The channels are walked by a cursor (addr) that is advanced by every    *)
(* read and never checked: after one misstep headers and data swap roles.  *)
(* The program may rewrite HDMAEN and the channel registers at any line,   *)
(* and may run general DMA on a channel that HDMA is using, with which it  *)
(* shares src and size.                                                    *)
(***************************************************************************)
EXTENDS Integers, Sequences, FiniteSetsExt

CONSTANTS
  Channel,     \* the DMA channels, 0..7
  Indirect,    \* channels whose control register has bit 6 set
  UnitSize,    \* bytes per transfer unit, by channel (DMA_TRANSFER_SIZES)
  Repeat,      \* the repeat bit of a header (0x80)
  Base,        \* values of a byte (256); a bank has Base * Base addresses
  Memory,      \* the bytes of the bank the tables and their data are in
  Lines,       \* VISIBLE_SCANLINES (224)
  Tables,      \* the tables in Memory: [at, data, indirect, unit, entries]; an entry is
               \* [lines, repeat, first, units]: with the lines and units before it
  FirstTable,  \* $43x2 when the program starts HDMA, by channel
  DmaEnds,     \* where a general DMA may leave a channel's source address
  MaxWrites,   \* bound on the program's writes
  Cursors      \* values the program may write to $43x8-$43xA: [addr, counter]

BankSize == Base * Base
Addr == 0..BankSize-1

Plus(a, n) == (a + n) % BankSize

UnitsOf(e) == IF e.repeat THEN e.lines ELSE 1

LinesBefore(t, k) ==
  IF k = 1 THEN 0 ELSE t.entries[k - 1].first + t.entries[k - 1].lines
UnitsBefore(t, k) ==
  IF k = 1 THEN 0 ELSE t.entries[k - 1].units + UnitsOf(t.entries[k - 1])

\* The address of unit u (from 0) of entry k: in direct mode k headers and all
\* earlier units lie between the start of the table and it.
UnitAddr(t, k, u) ==
  LET data == t.unit * (UnitsBefore(t, k) + u)
  IN  Plus(IF t.indirect THEN t.data ELSE t.at + k, data)

\* The address of entry k's header: each has a pointer of two bytes after it, or
\* the units of the entry.
HeaderAddr(t, k) ==
  IF t.indirect THEN Plus(t.at, 3 * (k - 1))
  ELSE Plus(t.at + (k - 1), t.unit * UnitsBefore(t, k))

Header(e) == (IF e.repeat THEN Repeat ELSE 0) + (e.lines % Repeat)

\* Memory holds the table t, an empty header behind its last entry.
InMemory(t) ==
  /\ \A k \in 1..Len(t.entries) :
       /\ Memory[HeaderAddr(t, k)] = Header(t.entries[k])
       /\ t.indirect => LET p == Plus(HeaderAddr(t, k), 1)
                        IN  Memory[p] + Base * Memory[Plus(p, 1)] = UnitAddr(t, k, 0)
  /\ Memory[HeaderAddr(t, Len(t.entries) + 1)] = 0

\* An entry of Repeat lines needs the bit, or its header is the table's end.
Table(t) ==
  /\ t.at \in Addr /\ t.data \in Addr /\ t.indirect \in BOOLEAN /\ t.unit \in 1..4
  /\ t.entries \in Seq([lines : 1..Repeat, repeat : BOOLEAN, first : Nat, units : Nat])
  /\ \A k \in 1..Len(t.entries) :
       LET e == t.entries[k]
       IN  /\ e.repeat \/ e.lines < Repeat
           /\ e.first = LinesBefore(t, k) /\ e.units = UnitsBefore(t, k)
  /\ InMemory(t)

HdmaAssumption ==
  /\ Indirect \subseteq Channel
  /\ Repeat \in Nat \ {0} /\ Base \in Nat \ {0} /\ 2 * Repeat <= Base
  /\ UnitSize \in [Channel -> 1..4]
  /\ Memory \in [Addr -> 0..Base-1]
  /\ Lines \in Nat \ {0}
  /\ \A t \in Tables : Table(t)
  /\ FirstTable \in [Channel -> Addr]
  /\ DmaEnds \subseteq Addr /\ MaxWrites \in Nat
  /\ \A u \in Cursors : u.addr \in Addr /\ u.counter \in 0..2*Repeat-1

VARIABLES
  line,     \* 0 at the head of a frame, then the scanline HDMA runs on next
  hdmaen,   \* $420C
  chan,     \* Channel -> [src, addr, counter, size, terminated, doTransfer]
  writes,   \* writes of the program so far
  pending,  \* pending_dma_cycles that the latest step booked
  \* history
  sent,     \* Channel -> units sent this frame, as [line, at]
  started,  \* channels initialised in this frame
  began,    \* Channel -> where its table began when it was last started
  steady    \* those started on a table and not tampered with since

histVars == <<sent, started, began>>

vars == <<line, hdmaen, chan, writes, pending, histVars, steady>>

Init ==
  /\ line = 0 /\ hdmaen = {} /\ pending = 0 /\ writes = 0
  /\ chan = [c \in Channel |->
               [src |-> FirstTable[c], addr |-> 0, counter |-> 0, size |-> 0,
                terminated |-> FALSE, doTransfer |-> FALSE]]
  /\ sent = [c \in Channel |-> {}] /\ started = {} /\ steady = {}
  /\ began = FirstTable

-----------------------------------------------------------------------------
\* hdma_load_entry: a header and, in indirect mode, the pointer after it.
LoadEntry(c, ch) ==
  LET header == Memory[ch.addr]
      next   == Plus(ch.addr, 1)
  IN  IF header = 0 THEN [ch EXCEPT !.addr = next, !.terminated = TRUE]
      ELSE IF c \in Indirect
      THEN [ch EXCEPT !.counter = header, !.doTransfer = TRUE,
                      !.size = Memory[next] + Base * Memory[Plus(next, 1)],
                      !.addr = Plus(next, 2)]
      ELSE [ch EXCEPT !.counter = header, !.doTransfer = TRUE, !.addr = next]

LoadCost(c, ch) == IF c \in Indirect /\ Memory[ch.addr] # 0 THEN 24 ELSE 8

\* hdma_transfer: the unit at Source is sent and the cursor moves past it.
Source(c, ch) == IF c \in Indirect THEN ch.size ELSE ch.addr

\* The pointer of an indirect entry is used again on every line.
BadTransfer(c, ch) ==
  IF c \in Indirect THEN ch ELSE [ch EXCEPT !.addr = Plus(@, UnitSize[c])]

Transfer(c, ch) ==
  IF c \in Indirect THEN [ch EXCEPT !.size = Plus(@, UnitSize[c])]
                    ELSE [ch EXCEPT !.addr = Plus(@, UnitSize[c])]

Repeats(counter) == counter >= Repeat

\* Only the low bits count; from 0 they wrap, so a header Repeat + 0 lasts for
\* Repeat lines.
CountDown(counter) ==
  (IF Repeats(counter) THEN Repeat ELSE 0) + (((counter % Repeat) - 1) % Repeat)

\* One channel on one scanline.
Moved(c, ch) == IF ch.doTransfer THEN Transfer(c, ch) ELSE ch

Counted(c, ch) == [Moved(c, ch) EXCEPT !.counter = CountDown(@)]

EntryDone(c, ch) == Counted(c, ch).counter % Repeat = 0

RunChannel(c, ch) ==
  IF EntryDone(c, ch) THEN LoadEntry(c, Counted(c, ch))
  ELSE [Counted(c, ch) EXCEPT !.doTransfer = Repeats(ch.counter)]

RunCost(c, ch) ==
  8 + (IF ch.doTransfer THEN 8 * UnitSize[c] ELSE 0)
    + (IF EntryDone(c, ch) THEN LoadCost(c, Counted(c, ch)) ELSE 0)

-----------------------------------------------------------------------------
Restarted(ch) == [ch EXCEPT !.addr = ch.src, !.terminated = FALSE, !.doTransfer = TRUE]

OnTable(c, ch) ==
  \E t \in Tables : t.at = ch.src /\ t.unit = UnitSize[c]
                    /\ t.indirect = (c \in Indirect)

\* Channels that are not enabled keep whatever state they had.
BadInitChannel(c) == IF c \in hdmaen THEN LoadEntry(c, Restarted(chan[c])) ELSE chan[c]

InitChannel(c) ==
  IF c \in hdmaen THEN LoadEntry(c, Restarted(chan[c]))
                  ELSE [chan[c] EXCEPT !.terminated = TRUE]

\* hdma_init_frame, on scanline 0.
InitFrame ==
  /\ line = 0
  /\ line' = 1
  /\ IF hdmaen = {} THEN chan' = chan /\ pending' = 0
     ELSE /\ chan' = [c \in Channel |-> InitChannel(c)]
          /\ pending' = MapThenSumSet(LAMBDA c : 8 + LoadCost(c, Restarted(chan[c])), hdmaen)
  /\ sent' = [c \in Channel |-> {}]
  /\ started' = hdmaen
  /\ began' = [c \in Channel |-> IF c \in hdmaen THEN chan[c].src ELSE began[c]]
  /\ steady' = {c \in hdmaen : OnTable(c, chan[c])}
  /\ UNCHANGED <<hdmaen, writes>>

Active == {c \in hdmaen : ~chan[c].terminated}

\* hdma_run_scanline.
RunLine ==
  /\ line > 0
  /\ line' = (line + 1) % (Lines + 1)
  /\ chan' = [c \in Channel |-> IF c \in Active THEN RunChannel(c, chan[c]) ELSE chan[c]]
  /\ pending' = MapThenSumSet(LAMBDA c : RunCost(c, chan[c]), Active)
  /\ sent' = [c \in Channel |->
                IF c \in Active /\ chan[c].doTransfer
                THEN sent[c] \cup {[line |-> line, at |-> Source(c, chan[c])]}
                ELSE sent[c]]
  /\ UNCHANGED <<hdmaen, writes, started, began, steady>>

-----------------------------------------------------------------------------
(* The program, between two steps of HDMA.                                 *)

ProgramWrites == writes < MaxWrites /\ writes' = writes + 1

WriteHdmaen(mask) ==
  /\ ProgramWrites
  /\ hdmaen' = mask
  /\ steady' = steady \cap mask
  /\ UNCHANGED <<line, chan, pending, histVars>>

\* Another table for the next frame; this frame's is walked by addr.
WriteSource(c, t) ==
  /\ ProgramWrites
  /\ chan' = [chan EXCEPT ![c].src = t.at]
  /\ UNCHANGED <<line, hdmaen, pending, histVars, steady>>

\* A general DMA on the channel, which leaves src where it ended and size zero.
GeneralDma(c, end) ==
  /\ ProgramWrites
  /\ chan' = [chan EXCEPT ![c].src = end, ![c].size = 0]
  /\ steady' = steady \ ({c} \cap Indirect)
  /\ UNCHANGED <<line, hdmaen, pending, histVars>>

WriteCursor(c, u) ==
  /\ ProgramWrites
  /\ chan' = [chan EXCEPT ![c].addr = u.addr, ![c].counter = u.counter]
  /\ steady' = steady \ {c}
  /\ UNCHANGED <<line, hdmaen, pending, histVars>>

Next ==
  \/ InitFrame \/ RunLine
  \/ \E mask \in SUBSET Channel : WriteHdmaen(mask)
  \/ \E c \in Channel :
       \/ \E t \in Tables : WriteSource(c, t)
       \/ \E end \in DmaEnds : GeneralDma(c, end)
       \/ \E u \in Cursors : WriteCursor(c, u)

Spec == Init /\ [][Next]_vars

-----------------------------------------------------------------------------
(* What a table asks for, without a cursor.                                *)

Asked(t) ==
  UNION {{[line |-> LinesBefore(t, k) + u + 1, at |-> UnitAddr(t, k, u)] :
            u \in 0..UnitsOf(t.entries[k])-1} : k \in 1..Len(t.entries)}

\* The line HDMA has finished.
Done == IF line = 0 THEN Lines ELSE line - 1

\* A channel that was enabled at the start of the frame and left alone since
\* sends exactly what its table asks for, on the lines it asks for, whatever
\* happens on the other channels and whatever table or general DMA the program
\* prepares meanwhile (dma.rs:243-364).
FollowsTable ==
  \A c \in steady : \E t \in Tables :
    /\ t.at = began[c] /\ t.unit = UnitSize[c] /\ t.indirect = (c \in Indirect)
    /\ sent[c] = {s \in Asked(t) : s.line <= Done}

\* A channel switched on in mid-frame stays silent until the next frame, once
\* any channel was started in this one (dma.rs:249-251; without one,
\* hdma_init_frame returns at once and leaves last frame's cursors armed).
LateChannelSilent ==
  started # {} => \A c \in Channel \ started : sent[c] = {}
=============================================================================
