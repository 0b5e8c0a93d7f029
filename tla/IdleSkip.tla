------------------------------ MODULE IdleSkip ------------------------------
(***************************************************************************)
(* The idle-loop fast path of src/src/cpu/mod.rs (the Cargo feature        *)
(* idle-skip, off by default).  A CPU that polls a byte of memory,         *)
(*     loop:  LDA dp                                                       *)
(*            BEQ loop                                                     *)
(* is moved on to shortly before the end of the scanline in one step.      *)
(*                                                                         *)
(* Two CPUs run the same loop through the same scanlines: plain, which     *)
(* executes every instruction, and skip, which has the fast path.  An      *)
(* H-IRQ may be due on the way, and the byte may be set to begin with or   *)
(* by HDMA at the end of a scanline.  A CPU that takes the interrupt or    *)
(* leaves the loop stops there, so that the two can be compared.           *)
(*                                                                         *)
(* Definitions named Bad... are plausible faults, not part of the model.   *)
(***************************************************************************)
EXTENDS Integers

CONSTANTS
  OpSpeed,    \* master cycles per access to the program (8, or 6 in fast ROM)
  DataSpeed,  \* and to the polled byte (8)
  Internal,   \* master cycles of an internal cycle (6)
  Line,       \* MASTER_CYCLES_PER_SCANLINE (1364)
  Dots,       \* dots of a scanline (340)
  Margin,     \* SAFETY_MARGIN (100)
  Starts,     \* where in the scanline the loop may be entered
  HTimes,     \* dots of the H-IRQ; Dots and more: none
  Bytes,      \* values of the polled byte
  JoyTimes,   \* master cycles left of the auto-joypad read, 0 if it is over
  MaxLines    \* bound on the scanlines

IdleAssumption ==
  /\ {OpSpeed, DataSpeed, Line, Dots} \subseteq Nat \ {0}
  /\ {Internal, Margin, MaxLines} \subseteq Nat
  /\ Starts \subseteq 0..Line-1 /\ HTimes \subseteq Nat /\ Bytes \subseteq 0..255
  /\ JoyTimes \subseteq Nat

VARIABLES
  byte,    \* the polled byte
  htime,   \* $4207-$4208
  lines,   \* scanlines so far
  plain,   \* [cycles, start of the scanline, pc, a, joy, state] of the one CPU
  skip     \* and of the other

vars == <<byte, htime, lines, plain, skip>>

Init ==
  /\ byte \in Bytes /\ htime \in HTimes /\ lines = 1
  /\ \E s \in Starts, joy \in JoyTimes, pc \in {"LDA", "BEQ"} :
       plain = [cycles |-> s, start |-> 0, pc |-> pc, a |-> 0, joy |-> joy, state |-> "polls"]
  /\ skip = plain

-----------------------------------------------------------------------------
Lda == 2 * OpSpeed + DataSpeed
Beq(taken) == 2 * OpSpeed + IF taken THEN Internal ELSE 0
Iteration == Lda + Beq(TRUE)

\* n cycles pass, of which the joypad timer is told.
Spend(c, n) == [c EXCEPT !.cycles = @ + n, !.joy = IF n >= @ THEN 0 ELSE @ - n]

InLine(c) == c.state = "polls" /\ c.cycles < c.start + Line

\* The H-IRQ is looked at before every step.
Fires(c) == ((c.cycles - c.start) * Dots) \div Line >= htime

Budget(c) == c.start + Line - c.cycles

\* try_idle_skip: whole iterations, up to Margin before the end of the scanline.
Skipped(c) ==
  IF Budget(c) <= Margin THEN 0 ELSE ((Budget(c) - Margin) \div Iteration) * Iteration

MaySkip(c) == c.pc = "LDA" /\ Skipped(c) > 0

\* The joypad timer does not hear of the cycles that were skipped.
BadSkipOn(c) == [c EXCEPT !.cycles = @ + Skipped(c), !.a = byte]

\* The byte is loaded, and the loop not left whatever it is.
SkipOn(c) == [Spend(c, Skipped(c)) EXCEPT !.a = byte]

Execute(c) ==
  IF c.pc = "LDA" THEN [Spend(c, Lda) EXCEPT !.a = byte, !.pc = "BEQ"]
  ELSE LET taken == c.a = 0
       IN  [Spend(c, Beq(taken)) EXCEPT !.pc = "LDA",
                 !.state = IF taken THEN "polls" ELSE "left"]

\* One turn of the frame loop.
Turn(c, skips) ==
  IF Fires(c) THEN [c EXCEPT !.state = "interrupted"]
  ELSE IF skips /\ MaySkip(c) THEN SkipOn(c) ELSE Execute(c)

RunPlain ==
  /\ InLine(plain)
  /\ plain' = Turn(plain, FALSE)
  /\ UNCHANGED <<byte, htime, lines, skip>>

RunSkip ==
  /\ ~InLine(plain) /\ InLine(skip)
  /\ skip' = Turn(skip, TRUE)
  /\ UNCHANGED <<byte, htime, lines, plain>>

LineOver == ~InLine(plain) /\ ~InLine(skip)

\* The next scanline begins where the CPU is; HDMA may have set the byte.
NextLine ==
  /\ LineOver /\ plain.state = "polls" /\ skip.state = "polls" /\ lines < MaxLines
  /\ lines' = lines + 1
  /\ byte' \in Bytes
  /\ plain' = [plain EXCEPT !.start = plain.cycles] /\ skip' = [skip EXCEPT !.start = skip.cycles]
  /\ UNCHANGED htime

Next == RunPlain \/ RunSkip \/ NextLine

Spec == Init /\ [][Next]_vars

-----------------------------------------------------------------------------
\* As long as the byte is zero and no interrupt is due in the part of a scanline
\* that may be skipped, the skip is invisible: at the end of each scanline both
\* CPUs have executed for the same cycles, are at the same instruction and see the
\* same joypad read (cpu/mod.rs:212-258).
SkipAligned ==
  LineOver /\ byte = 0 /\ (htime * Line) \div Dots >= Line - Margin => plain = skip

\* "Skipping past the interrupt boundary is forbidden"
\* (docs/T10_IDLE_LOOP_DETECTION.md:309), and "Pre-applying the load keeps the
\* visible CPU state identical to what the unskipped path produces"
\* (cpu/mod.rs:208-209).
SkipInvisible == LineOver => plain = skip
=============================================================================
