-------------------------------- MODULE Dma --------------------------------
(***************************************************************************)
(* General DMA of src/src/dma.rs and the write of MDMAEN that starts it    *)
(* (src/src/bus.rs).                                                       *)
(*                                                                         *)
(* The write takes the channel registers out of the bus, leaving a zeroed  *)
(* placeholder in their place, moves every byte of every enabled channel   *)
(* with ordinary bus reads and writes, and puts the registers back.  In    *)
(* the direction from the B-bus to the A-bus those writes may hit any      *)
(* register of the CPU, the DMA registers and MDMAEN itself included: the  *)
(* call is then re-entered, on the placeholder.  stack holds the calls in  *)
(* progress, the innermost one first.                                      *)
(*                                                                         *)
(* Definitions named Bad... are plausible faults, not part of the model.   *)
(***************************************************************************)
EXTENDS Integers, FiniteSetsExt, SequencesExt

CONSTANTS
  Channel,     \* the channels, 0..7
  MaxSize,     \* bytes a channel moves when its size is zero (0x10000)
  AddrSize,    \* addresses of an A-bus bank (0x10000)
  ByteCycles,  \* master cycles per byte (8)
  Chunk,       \* cycles after which the APU is synced (128)
  Mdmaen,      \* the A-bus address of MDMAEN
  SizeReg,     \* an A-bus address at which a write sets a channel's size
  Configs,     \* channel settings the program may write
  MaxTransfers \* bound on the transfers the program starts

VARIABLES
  dma,        \* bus.dma: the channel registers, or a placeholder
  dmaActive,  \* dma_active
  stack,      \* execute_general_dma calls in progress: the registers a call holds, the
              \* channels todo, the bytes left of the current one (ch), the position in
              \* its unit, the cycles spent and those of them not synced yet
  pending,    \* pending_dma_cycles booked by the latest transfer
  advance,    \* master_clock's advance during the latest transfer
  \* history
  transfers,  \* transfers started
  asked,      \* [regs, mask] of the latest transfer
  moved,      \* Channel -> its bytes so far, as [a, b]
  bytes       \* bytes moved by it and by the calls inside it

vars == <<dma, dmaActive, stack, pending, advance, transfers, asked, moved, bytes>>

Setting == [mode : 0..7, toA : BOOLEAN, fixed : BOOLEAN, dec : BOOLEAN,
            src : 0..AddrSize-1, size : 0..MaxSize-1]

ASSUME DmaAssumption ==
  /\ Channel \subseteq Nat /\ Channel # {}
  /\ MaxSize \in Nat \ {0} /\ AddrSize \in Nat \ {0}
  /\ ByteCycles \in Nat \ {0} /\ Chunk \in Nat \ {0}
  /\ {Mdmaen, SizeReg} \subseteq 0..AddrSize-1
  /\ Configs \subseteq Setting
  /\ MaxTransfers \in Nat

\* DMA_TRANSFER_PATTERNS and DMA_TRANSFER_SIZES: B-bus offsets of a unit.
Pattern == [m \in 0..7 |->
  CASE m \in {0}    -> <<0>>
    [] m \in {1}    -> <<0, 1>>
    [] m \in {2, 6} -> <<0, 0>>
    [] m \in {3, 7} -> <<0, 0, 1, 1>>
    [] m \in {4}    -> <<0, 1, 2, 3>>
    [] m \in {5}    -> <<0, 1, 0, 1>>]

\* DmaChannel::default.
Zeroed == [mode |-> 0, toA |-> FALSE, fixed |-> FALSE, dec |-> FALSE, src |-> 0, size |-> 0]
Placeholder == [c \in Channel |-> Zeroed]
Nothing == [c \in Channel |-> <<>>]

Init ==
  /\ dma = Placeholder /\ dmaActive = FALSE /\ stack = <<>>
  /\ pending = 0 /\ advance = 0
  /\ transfers = 0 /\ asked = [regs |-> dma, mask |-> {}]
  /\ moved = Nothing /\ bytes = 0

-----------------------------------------------------------------------------
SizeOf(s) == IF s.size = 0 THEN MaxSize ELSE s.size

\* The fixed bit is ignored.
BadStepMoves(s) == IF s.dec THEN (s.src - 1) % AddrSize ELSE (s.src + 1) % AddrSize

\* The source address after a byte.
Step(s) ==
  IF s.fixed THEN s.src
  ELSE IF s.dec THEN (s.src - 1) % AddrSize ELSE (s.src + 1) % AddrSize

\* The write of MDMAEN: the registers leave the bus.  No channel is current yet.
Enter(mask) ==
  /\ stack' = <<[regs |-> dma, todo |-> mask, ch |-> Min(Channel), left |-> 0, unit |-> 0,
                 spent |-> 0, unsynced |-> 0]>> \o stack
  /\ dma' = Placeholder
  /\ dmaActive' = TRUE

Top == stack[1]
SetTop(c) == <<c>> \o Tail(stack)

Current == Top.regs[Top.ch]
BBus(c) == Pattern[c.regs[c.ch].mode][c.unit + 1]

\* The rest of the turn after the byte's bus write, in the call c.
Booked(c) ==
  LET s == c.regs[c.ch]
      due == c.unsynced + ByteCycles >= Chunk
  IN  [c EXCEPT !.regs[c.ch].src = Step(s),
                !.unit = (@ + 1) % Len(Pattern[s.mode]),
                !.left = @ - 1,
                !.spent = @ + ByteCycles,
                !.unsynced = IF due THEN 0 ELSE @ + ByteCycles]

\* What booking the byte adds to the master clock.
Credit(c) == IF c.unsynced + ByteCycles >= Chunk THEN c.unsynced + ByteCycles ELSE 0

Remember ==
  /\ bytes' = bytes + 1
  /\ moved' = IF Len(stack) = 1
                THEN [moved EXCEPT ![Top.ch] = Append(@, [a |-> Current.src, b |-> BBus(Top)])]
                ELSE moved

\* A byte whose write has no effect on the DMA unit.
MoveByte ==
  /\ stack # <<>> /\ Top.left > 0
  /\ ~(Current.toA /\ Current.src \in {Mdmaen, SizeReg})
  /\ stack' = SetTop(Booked(Top))
  /\ advance' = advance + Credit(Top)
  /\ Remember
  /\ UNCHANGED <<dma, dmaActive, pending, transfers, asked>>

\* A byte written to a DMA register: it changes the placeholder.
MoveToRegister(c, size) ==
  /\ stack # <<>> /\ Top.left > 0
  /\ Current.toA /\ Current.src = SizeReg
  /\ dma' = [dma EXCEPT ![c].size = size]
  /\ stack' = SetTop(Booked(Top))
  /\ advance' = advance + Credit(Top)
  /\ Remember
  /\ UNCHANGED <<dmaActive, pending, transfers, asked>>

\* A byte written to MDMAEN: a call inside the call.  The byte is booked when
\* that call returns.
MoveToMdmaen(mask) ==
  /\ stack # <<>> /\ Top.left > 0
  /\ Current.toA /\ Current.src = Mdmaen
  /\ Enter(mask)
  /\ Remember
  /\ UNCHANGED <<pending, advance, transfers, asked>>

\* The last, incomplete chunk is not synced.
BadRestOf(c) == 0

\* What the last sync of a call adds to the master clock.
RestOf(c) == c.unsynced

\* The channel's size register is zero when its bytes have moved.
Finished(c) == IF c.spent = 0 THEN c ELSE [c EXCEPT !.regs[c.ch].size = 0]

\* The next enabled channel, in ascending order.
NextChannel ==
  /\ stack # <<>> /\ Top.left = 0 /\ Top.todo # {}
  /\ LET ch == Min(Top.todo)
     IN  stack' = SetTop([Finished(Top) EXCEPT !.ch = ch, !.todo = @ \ {ch}, !.unit = 0,
                                               !.left = SizeOf(Top.regs[ch])])
  /\ UNCHANGED <<dma, dmaActive, pending, advance, transfers, asked, moved, bytes>>

\* What was written to the registers during the call survives it.
BadRestored(c) == [ch \in Channel |-> IF dma[ch] = Zeroed THEN c.regs[ch] ELSE dma[ch]]

\* The registers put back into the bus after a call.
Restored(c) == c.regs

\* The call returns and the registers go back; a call outside it then books the
\* byte that was the write of MDMAEN.
Return ==
  /\ stack # <<>> /\ Top.left = 0 /\ Top.todo = {}
  /\ LET inner == Finished(Top)
     IN  /\ dma' = Restored(inner)
         /\ pending' = pending + inner.spent
         /\ IF Len(stack) = 1
              THEN /\ stack' = <<>>
                   /\ advance' = advance + RestOf(inner)
              ELSE /\ stack' = <<Booked(stack[2])>> \o Tail(Tail(stack))
                   /\ advance' = advance + RestOf(inner) + Credit(stack[2])
  /\ dmaActive' = FALSE
  /\ UNCHANGED <<transfers, asked, moved, bytes>>

-----------------------------------------------------------------------------
(* The program.                                                            *)

WriteChannel(c, s) ==
  /\ stack = <<>> /\ transfers < MaxTransfers
  /\ dma' = [dma EXCEPT ![c] = s]
  /\ asked' = [asked EXCEPT !.regs = dma', !.mask = {}]
  /\ moved' = Nothing /\ bytes' = 0 /\ pending' = 0 /\ advance' = 0
  /\ UNCHANGED <<dmaActive, stack, transfers>>

\* The frame loop has taken what an earlier transfer booked.
WriteMdmaen(mask) ==
  /\ stack = <<>> /\ transfers < MaxTransfers
  /\ transfers' = transfers + 1
  /\ asked' = [regs |-> dma, mask |-> mask]
  /\ moved' = Nothing /\ bytes' = 0 /\ pending' = 0 /\ advance' = 0
  /\ Enter(mask)

Next ==
  \/ \E c \in Channel, s \in Configs : WriteChannel(c, s)
  \/ \E mask \in SUBSET Channel : WriteMdmaen(mask) \/ MoveToMdmaen(mask)
  \/ MoveByte
  \/ \E c \in Channel, size \in {0, 1} : MoveToRegister(c, size)
  \/ NextChannel \/ Return

Spec == Init /\ [][Next]_vars

-----------------------------------------------------------------------------
(* What the registers ask for, channel by channel.                         *)

SourceAt(s, i) == IF s.fixed THEN s.src
                  ELSE IF s.dec THEN (s.src - i) % AddrSize ELSE (s.src + i) % AddrSize

\* The bytes of a channel with these settings.
Bytes(s) ==
  [i \in 1..SizeOf(s) |->
     [a |-> SourceAt(s, i - 1), b |-> Pattern[s.mode][1 + ((i - 1) % Len(Pattern[s.mode]))]]]

Wanted == [c \in Channel |-> IF c \in asked.mask THEN Bytes(asked.regs[c]) ELSE <<>>]

\* A transfer moves exactly the bytes its registers asked for, in channel order,
\* each to the B-bus register the mode's pattern names, whatever its own writes
\* do to the DMA unit meanwhile (dma.rs:156-240, bus.rs:542-551).
TransferExact ==
  /\ \A c \in Channel : IsPrefix(moved[c], Wanted[c])
  /\ \A c, d \in Channel : d < c /\ moved[c] # <<>> => moved[d] = Wanted[d]
  /\ stack = <<>> => moved = Wanted

\* After it the enabled channels have size zero and point past their last byte,
\* and no register has changed otherwise: what the transfer itself wrote to the
\* DMA registers is gone with the placeholder (bus.rs:432-443).
RegistersAfter ==
  stack = <<>> => dma = [c \in Channel |->
    LET s == asked.regs[c]
    IN  IF c \in asked.mask THEN [s EXCEPT !.size = 0, !.src = SourceAt(s, SizeOf(s))]
                            ELSE s]

\* Every byte of every call is booked once as DMA time and credited once to the
\* bus clock, in chunks or in the rest.
BookedOnce == stack = <<>> => pending = ByteCycles * bytes /\ advance = pending
=============================================================================
