---------------------------- MODULE MCTransfers ----------------------------
(* General DMA and HDMA, one of them at a time (focus, chosen at the start).*)
(* General DMA: transfers of up to 6 bytes on an A-bus of 8 addresses, 3 of *)
(* which is MDMAEN and 6 a register.  HDMA: bytes of 8 values, counters of  *)
(* 2 bits and a bank of 64 bytes; one table crosses the end of the bank.    *)
EXTENDS Dma

CONSTANTS
  Indirect, UnitSize, Repeat, Base, Memory, Lines, Tables, FirstTable, DmaEnds, MaxWrites,
  Cursors                                                            \* Hdma

VARIABLES
  focus,
  line, hdmaen, chan, writes, cost, sent, started, began, steady

hdmaVars == <<line, hdmaen, chan, writes, cost, sent, started, began, steady>>

H == INSTANCE Hdma WITH pending <- cost

ASSUME TransfersAssumption == H!HdmaAssumption

TransfersInit == focus \in {"dma", "hdma"} /\ Init /\ H!Init

TransfersNext ==
  \/ focus = "dma" /\ Next /\ UNCHANGED <<focus, hdmaVars>>
  \/ focus = "hdma" /\ H!Next /\ UNCHANGED <<focus, vars>>

TransfersSpec == TransfersInit /\ [][TransfersNext]_<<focus, vars, hdmaVars>>

\* A channel left alone sends what its table asks for, on the lines it asks for
\* (dma.rs:243-364).
FollowsTable == H!FollowsTable
\* A channel switched on in mid-frame is silent until the next (dma.rs:249-251).
LateChannelSilent == H!LateChannelSilent

-----------------------------------------------------------------------------
Config(mode, toA, fixed, dec, src, size) ==
  [mode |-> mode, toA |-> toA, fixed |-> fixed, dec |-> dec, src |-> src, size |-> size]

MCConfigs == {Config(1, FALSE, FALSE, FALSE, 5, 5),   \* crosses the bank's end
              Config(3, FALSE, FALSE, TRUE, 2, 0),    \* size zero, downwards
              Config(4, FALSE, TRUE, FALSE, 3, 3),    \* reads MDMAEN, fixed
              Config(0, TRUE, TRUE, FALSE, 3, 2),     \* writes MDMAEN twice
              Config(1, TRUE, FALSE, TRUE, 6, 4)}     \* a register, then MDMAEN

-----------------------------------------------------------------------------
MCUnitSize == [c \in Channel |-> IF c = 0 THEN 2 ELSE 1]

Entry(n, r, f, u) == [lines |-> n, repeat |-> r, first |-> f, units |-> u]

\* 58..66, 20..27 and 10..19; the data of the last one is at 30..36, where its
\* pointers point: 4 units, 1 unit, 1 unit.
Wrapping == [at |-> 58, data |-> 0, indirect |-> FALSE, unit |-> 2,
             pointers |-> <<>>, entries |-> <<Entry(2, FALSE, 0, 0), Entry(2, TRUE, 2, 1)>>]
Other    == [at |-> 20, data |-> 0, indirect |-> FALSE, unit |-> 2,
             pointers |-> <<>>, entries |-> <<Entry(1, TRUE, 0, 0), Entry(3, FALSE, 1, 1)>>]
Pointers == [at |-> 10, data |-> 30, indirect |-> TRUE, unit |-> 1,
             pointers |-> <<30, 34, 35>>,
             entries |-> <<Entry(4, TRUE, 0, 0), Entry(1, FALSE, 4, 4), Entry(2, FALSE, 5, 5)>>]
MCTables == {Wrapping, Other, Pointers}
MCFirstTable == [c \in Channel |-> IF c = 0 THEN 58 ELSE 10]

\* The bytes of a table (HdmaAssumption checks them against Table).
HeaderByte(e) == (IF e.repeat THEN Repeat ELSE 0) + (e.lines % Repeat)
EntryBytes(t, k) ==
  <<HeaderByte(t.entries[k])>> \o
  (IF t.indirect THEN <<t.pointers[k] % Base, t.pointers[k] \div Base>>
   ELSE [i \in 1..(t.unit * (IF t.entries[k].repeat THEN t.entries[k].lines ELSE 1)) |-> 5])
TableBytes(t) == FlattenSeq([k \in 1..Len(t.entries) |-> EntryBytes(t, k)]) \o <<0>>

\* Everything that is not a table reads as data that would pass for a header.
MCMemory ==
  [a \in 0..63 |->
     LET in == {t \in MCTables : (a - t.at) % 64 < Len(TableBytes(t))}
     IN  IF in = {} THEN 5 ELSE LET t == CHOOSE t \in in : TRUE
                                IN  TableBytes(t)[1 + ((a - t.at) % 64)]]

MCCursors == {[addr |-> 33, counter |-> 1]}
=============================================================================
