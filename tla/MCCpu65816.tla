----------------------------- MODULE MCCpu65816 ----------------------------
(* Programs that start at the reset vector, and their interrupt handlers;   *)
(* and the idle-loop fast path, on its own (focus, chosen at the start).    *)
EXTENDS Cpu65816, TLC

\* IdleSkip.  The run takes a loop in slow memory, with the joypad read going on or over,
\* and an H-IRQ that may be due before or after the part of the scanline that is skipped.
CONSTANTS OpSpeed, DataSpeed, Internal, Line, Dots, Margin, Starts, HTimes, Bytes, JoyTimes,
          MaxLines

VARIABLES focus, byte, htime, lines, plain, skip
idleVars == <<byte, htime, lines, plain, skip>>

Idle == INSTANCE IdleSkip

ASSUME IdleConstants == Idle!IdleAssumption

\* What is out of focus starts in one state.
MCInit ==
  \/ /\ focus = "cpu" /\ Init
     /\ byte = 0 /\ htime = 340 /\ lines = 1
     /\ plain = [cycles |-> 0, start |-> 0, pc |-> "LDA", a |-> 0, joy |-> 0, state |-> "polls"]
     /\ skip = plain
  \/ /\ focus = "idle" /\ Idle!Init
     /\ program = (CHOOSE p \in Names : TRUE) /\ cpu = Reset(It.mem)
     /\ raised = 0 /\ entered = <<>>
MCNext ==
  \/ focus = "cpu" /\ Next /\ UNCHANGED <<focus, idleVars>>
  \/ focus = "idle" /\ Idle!Next /\ UNCHANGED <<focus, vars>>
MCSpec == MCInit /\ [][MCNext]_<<focus, vars, idleVars>>

\* Without anything to interrupt the loop the skip is invisible (cpu/mod.rs:212-258).
SkipAligned == Idle!SkipAligned

-----------------------------------------------------------------------------

\* An assembler: an instruction with its length in bytes, and a list of them placed.
Ins(op, arg, mode, n, bank, len) ==
  [ins |-> [op |-> op, arg |-> arg, mode |-> mode, n |-> n, bank |-> bank], len |-> len]
Imp(op, arg)        == Ins(op, arg, "imp", 0, 0, 1)
Imm(op, arg, n, w8) == Ins(op, arg, IF op \in {"load", "compare"} THEN "imm" ELSE "immM",
                           n, 0, IF w8 THEN 2 ELSE 3)
Bits(arg, n)        == Ins("bits", arg, "byte", n, 0, 2)
Dp(op, arg, mode, n)  == Ins(op, arg, mode, n, 0, 2)
Abs(op, arg, mode, n) == Ins(op, arg, mode, n, 0, 3)
Far(op, arg, mode, bank, n) == Ins(op, arg, mode, n, bank, 4)
Rel(flag, val, n)   == Ins("branch", <<flag, val>>, "byte", n, 0, 2)
Flag(f, val)        == Imp("flag", <<f, val>>)
Move(from, to)      == Imp("transfer", <<from, to>>)

Place(base, items) ==
  LET at[k \in 1..Len(items)] == IF k = 1 THEN base ELSE at[k-1] + items[k-1].len
  IN  [a \in {at[k] : k \in 1..Len(items)} |-> items[CHOOSE k \in 1..Len(items) : at[k] = a].ins]

Vector(v, to) == (v :> to % 256) @@ (v + 1 :> to \div 256)
Native == <<Flag("c", FALSE), Imp("xce", "")>>
Stop   == <<Imp("stp", "")>>

\* Interrupt handlers: a long one for native mode that uses every register in both
\* widths, a short one, and one for emulation mode.
LongHandler ==
  <<Bits("rep", 48), Imp("push", "a"), Imp("push", "x"), Imp("push", "y"), Imp("push", "dbr"),
    Imp("push", "dp"), Imm("load", "a", 4660, FALSE), Move("a", "dp"), Move("a", "x"),
    Bits("sep", 48), Imm("load", "a", 126, TRUE), Imp("push", "a"), Imp("pull", "dbr"),
    Abs("incdec", "inc", "a", 16), Bits("rep", 48), Imp("pull", "dp"), Imp("pull", "dbr"),
    Imp("pull", "y"), Imp("pull", "x"), Imp("pull", "a"), Imp("return", "rti")>>
ShortHandler ==
  <<Bits("rep", 32), Imp("push", "a"), Imm("load", "a", 39, FALSE), Imp("pull", "a"),
    Imp("return", "rti")>>
EmulationHandler ==
  <<Imp("push", "a"), Move("x", "a"), Imp("push", "a"), Imm("load", "a", 200, TRUE),
    Move("a", "x"), Imp("pull", "a"), Move("a", "x"), Imp("pull", "a"), Imp("return", "rti")>>

\* In emulation mode the handler runs in the bank that was interrupted.
Handlers == Place(36864, LongHandler) @@ Place(40960, ShortHandler)
            @@ Place(45056, EmulationHandler) @@ Place(65536 + 45056, EmulationHandler)
Vectors == Vector(65532, 32768) @@ Vector(65514, 36864) @@ Vector(65518, 40960)
           @@ Vector(65510, 40960) @@ Vector(65508, 36864)
           @@ Vector(65530, 45056) @@ Vector(65534, 45056) @@ Vector(65524, 45056)

Loaded(code, bytes, requests) ==
  [code |-> code @@ Handlers, mem |-> bytes @@ Vectors, requests |-> requests]

-----------------------------------------------------------------------------
(* ADC and SBC of chosen operands.                                         *)

ArithCode(k) ==
  Native \o (IF k.w8 THEN <<>> ELSE <<Bits("rep", 32)>>)
  \o <<Flag("d", k.d), Flag("c", k.c = 1), Imm("load", "a", k.a, k.w8), Imm("arith", k.op, k.v, k.w8)>>
  \o Stop
ArithProgram(k) ==
  [code |-> Place(32768, ArithCode(k)), mem |-> Vectors, requests |-> 0]

Checks(as, vs, d, w8) ==
  [kind : {"arith"}, a : as, v : vs, c : {0, 1}, op : {"adc", "sbc"}, d : {d}, w8 : {w8}]

Digits8  == {16 * h + l : h \in {0, 1, 4, 5, 9}, l \in {0, 1, 4, 5, 9}}
Digits16 == {0, 1, 153, 2457, 4096, 18841, 20480, 39312, 39321}
Edges8   == {0, 1, 127, 128, 129, 255}
Edges16  == {0, 255, 256, 32767, 32768, 65535}

ArithChecks == Checks(Digits8, Digits8, TRUE, TRUE) \cup Checks(Digits16, Digits16, TRUE, FALSE)
               \cup Checks(Edges8, Edges8, FALSE, TRUE) \cup Checks(Edges16, Edges16, FALSE, FALSE)

-----------------------------------------------------------------------------
(* Block moves: upwards across the end of a bank, downwards over itself.    *)

MoveProgram(k) ==
  Loaded(Place(32768, Native \o
    <<Bits("rep", 48), Imm("load", "x", k.x, FALSE), Imm("load", "y", k.y, FALSE),
      Imm("load", "a", k.n - 1, FALSE),
      Ins("move", IF k.up THEN "mvn" ELSE "mvp", "banks", k.dst, k.src, 3)>> \o Stop),
    [i \in {k.src * 65536 + (a % 65536) : a \in k.x-4..k.x+4} |-> 1 + (i % 7)], 2)
Moves == {[kind |-> "move", up |-> TRUE, src |-> 1, x |-> 65534, dst |-> 2, y |-> 256, n |-> 4],
           [kind |-> "move", up |-> FALSE, src |-> 1, x |-> 515, dst |-> 1, y |-> 517, n |-> 4]}

\* The i-th byte of the source and of the destination of a move.
Along(k, i) == IF k.up THEN i ELSE 0 - i
Source(k, i)      == k.src * 65536 + ((k.x + Along(k, i)) % 65536)
Destination(k, i) == k.dst * 65536 + ((k.y + Along(k, i)) % 65536)

\* A move of n bytes that overwrites none before it has been moved, and its program: the
\* instruction at each address.
Entry == 32768
Has(k, at, ins) == at \in DOMAIN Program(k).code /\ Program(k).code[at] = ins.ins
IsBlock(k) ==
  /\ k.x \in Word16 /\ k.y \in Word16 /\ k.src \in Byte /\ k.dst \in Byte /\ k.up \in BOOLEAN
  /\ k.n \in Nat \ {0} /\ k.n - 1 \in Word16
Forward(k) == \A i, j \in 0..k.n-1 : i < j => Destination(k, i) # Source(k, j)
IsMove(k) ==
  /\ Has(k, Entry, Flag("c", FALSE)) /\ Has(k, Entry + 1, Imp("xce", ""))
  /\ Has(k, Entry + 2, Bits("rep", 48))
  /\ Has(k, Entry + 4, Imm("load", "x", k.x, FALSE)) /\ Has(k, Entry + 7, Imm("load", "y", k.y, FALSE))
  /\ Has(k, Entry + 10, Imm("load", "a", k.n - 1, FALSE))
  /\ Has(k, Entry + 13, Ins("move", IF k.up THEN "mvn" ELSE "mvp", "banks", k.dst, k.src, 3))
  /\ Has(k, Entry + 16, Imp("stp", ""))
  /\ Reset(Program(k).mem).pc = Entry
ASSUME MovesAreSetUp == \A k \in Names : k.kind = "move" => IsBlock(k) /\ Forward(k) /\ IsMove(k)

-----------------------------------------------------------------------------
(* Tours: programs that between them use every instruction and every mode.  *)

Pointers == (32 :> 0) @@ (33 :> 2) @@ (34 :> 255) @@ (512 :> 8) @@ (513 :> 144)
            @@ (514 :> 1) @@ (520 :> 129) @@ (65536 + 528 :> 3)

\* Emulation mode with a wrapping stack, then native mode in bank 1, and back.
Emulation ==
  <<Flag("i", FALSE), Imm("load", "x", 1, TRUE), Move("x", "sp"), Imm("load", "a", 128, TRUE),
    Imp("push", "a"), Imp("push", "p"), Imp("push", "x"), Imp("pull", "y"), Imp("pull", "p"),
    Bits("rep", 48), Ins("shift", "asl", "acc", 0, 0, 1), Move("a", "sp"), Move("sp", "x"),
    Ins("brk", "", "byte", 0, 0, 2), Ins("cop", "", "byte", 0, 0, 2)>> \o Native
  \o <<Far("jump", "", "l", 1, 32768)>>
WidthTour ==
  <<Bits("rep", 48), Imm("load", "a", 36863, FALSE), Move("a", "sp"), Imm("load", "x", 513, FALSE),
    Bits("sep", 16), Move("a", "x"), Move("x", "y"), Bits("sep", 32), Imp("xba", ""),
    Bits("rep", 16), Move("y", "x"), Move("a", "y"), Move("y", "a"), Imp("push", "p"),
    Bits("sep", 48), Move("dp", "a"), Move("sp", "a"), Imp("pull", "p"), Imp("wai", ""),
    Ins("brk", "", "byte", 0, 0, 2), Flag("c", TRUE), Imp("xce", ""), Flag("v", FALSE)>> \o Stop
Code1 == Place(32768, Emulation) @@ Place(98304, WidthTour)

\* Addressing modes and arithmetic, in both widths.
Modes ==
  <<"d", "dx", "a", "ax", "ay", "(dx)", "(d)y", "(d)", "[d]", "[d]y", "l", "lx", "s", "(s)y">>
ModeOf(op, arg, k) ==
  LET m == Modes[k]
  IN  IF m \in {"a", "ax", "ay"} THEN Abs(op, arg, m, 520)
      ELSE IF m \in {"l", "lx"} THEN Far(op, arg, m, 1, 528)
      ELSE Dp(op, arg, m, IF m \in {"s", "(s)y"} THEN 1 ELSE 32)
Everywhere(op, arg) == [k \in 1..Len(Modes) |-> ModeOf(op, arg, k)]
Setup(x, y) == Native \o <<Flag("i", FALSE), Imm("load", "x", x, TRUE), Imm("load", "y", y, TRUE),
                           Abs("effective", "pea", "word", 520)>>
Alu == Everywhere("load", "a") \o Everywhere("logic", "eor") \o Everywhere("arith", "adc")
       \o Everywhere("store", "a") \o Everywhere("compare", "a") \o Everywhere("logic", "ora")
       \o Everywhere("arith", "sbc") \o Everywhere("logic", "and")
InPlace(w8) ==
  <<Imm("load", "a", 33153, w8), Ins("shift", "asl", "acc", 0, 0, 1),
    Abs("shift", "asl", "a", 520), Dp("shift", "rol", "d", 32), Dp("shift", "ror", "dx", 32),
    Abs("shift", "lsr", "ax", 520), Ins("shift", "ror", "acc", 0, 0, 1), Ins("shift", "rol", "acc", 0, 0, 1),
    Dp("incdec", "dec", "d", 33), Ins("incdec", "inc", "acc", 0, 0, 1), Dp("testbits", "tsb", "d", 32),
    Abs("testbits", "trb", "a", 520), Dp("bit", "a", "d", 32), Dp("store", "zero", "dx", 64),
    Dp("store", "x", "dy", 64), Abs("store", "y", "a", 600), Abs("load", "x", "ay", 520),
    Dp("load", "y", "dx", 32), Dp("compare", "x", "d", 32), Abs("compare", "y", "a", 520),
    Imp("index", <<"x", 1>>), Imp("index", <<"x", -1>>), Imp("index", <<"y", 1>>),
    Imp("index", <<"y", -1>>), Move("a", "dp"), Move("dp", "a"),
    Dp("effective", "pei", "d", 32), Abs("effective", "per", "word", 7)>>
Code2 == Place(32768, Setup(0, 2) \o Alu \o InPlace(TRUE) \o Stop)
Code3 == Place(32768, Setup(0, 1) \o <<Bits("rep", 48)>> \o Alu \o InPlace(FALSE) \o Stop)

\* Branches, calls and jumps; a subroutine at $8100 and one in bank 1.
Control ==
  Native \o
  <<Rel("z", FALSE, 1), Imp("nop", ""), Rel("c", TRUE, 1), Imp("nop", ""), Rel("n", FALSE, 0),
    Rel("v", TRUE, 3), Rel("always", TRUE, 0), Ins("branch", <<"always", TRUE>>, "word", 0, 0, 3),
    Abs("call", "", "a", 33024), Far("call", "", "l", 1, 33024), Abs("call", "", "(ax)", 576),
    Ins("wdm", "", "byte", 0, 0, 2), Abs("jump", "", "a", 33040)>>
Indirect == <<Abs("jump", "", "(a)", 578)>>
Indirect2 == <<Abs("jump", "", "(ax)", 580)>>
Indirect3 == <<Abs("jump", "", "[a]", 582)>>
Code4 == Place(32768, Control)
         @@ Place(33024, <<Imm("bit", "a", 1, TRUE), Imp("return", "rts")>>)
         @@ Place(98560, <<Imp("push", "pbr"), Imp("pull", "a"), Imp("return", "rtl")>>)
         @@ Place(33040, Indirect) @@ Place(33056, Indirect2) @@ Place(33072, Indirect3)
         @@ Place(98576, <<Rel("z", TRUE, 0), Rel("always", TRUE, 254)>>)
JumpTable == Vector(576, 33024) @@ Vector(578, 33056) @@ Vector(580, 33072)
             @@ Vector(582, 33040) @@ (584 :> 1)

Tours == {[kind |-> "tour", number |-> i] : i \in 1..4}
\* A system call: BRK from a program with 8-bit indexes, whose handler returns a
\* 16-bit result in X.
Caller == Place(32768, Native \o <<Ins("brk", "", "byte", 0, 0, 2), Bits("rep", 32), Move("x", "a")>> \o Stop)
Service == Place(40960, <<Bits("rep", 16), Imm("load", "x", 4660, FALSE), Imp("return", "rti")>>)
MCService == {[kind |-> "service"]}

MCNames == Tours \cup Moves \cup ArithChecks
MCProgram(k) ==
  CASE k.kind = "arith" -> ArithProgram(k)
    [] k.kind = "move"  -> MoveProgram(k)
    [] k.kind = "service" -> [code |-> Caller @@ Service, mem |-> Vectors, requests |-> 0]
    [] k.kind = "tour" /\ k.number = 1 -> Loaded(Code1, Pointers, 2)
    [] k.kind = "tour" /\ k.number = 2 -> Loaded(Code2, Pointers, 1)
    [] k.kind = "tour" /\ k.number = 3 -> Loaded(Code3, Pointers, 1)
    [] k.kind = "tour" /\ k.number = 4 -> Loaded(Code4, JumpTable, 1)

-----------------------------------------------------------------------------
(* What the proofs assume of interrupted programs; it holds of those here. *)

Held(mem, k) == IF k \in DOMAIN mem THEN mem[k] ELSE 0

\* The entry of a handler, which is one of four, and the bytes it has pushed.
Entries(s) == {Nmi(s), Irq(s), Brk(s), Cop(s)}
Frame(t) == {Page1(t, Plus(t.sp, i)) : i \in 1..IF t.e THEN 3 ELSE 4}

\* The handler that was entered with t leaves the registers as they were, or has restored
\* them, and has not written to its frame.  (Emulation mode saves no program bank: there the
\* handler returns from the bank it was entered in.)
PutBackBy(s, t) ==
  /\ s.e => s.pbr = t.pbr
  /\ \A reg \in {"a", "x", "y", "sp", "dp", "dbr", "e"} : s[reg] = t[reg]
  /\ \A k \in Frame(t) : Read(s, 0, k) = Read(t, 0, k)

Saves == Len(entered') < Len(entered) => \E t \in Entries(entered[1]) : PutBackBy(cpu, t)
HandlersSave == [][Saves]_vars

\* The bytes of a move.
Moved(k) == {Source(k, i) : i \in 0..k.n-1} \cup {Destination(k, i) : i \in 0..k.n-1}

\* Nothing but the move itself writes to its bytes, the entry of handlers included, and no
\* handler stops the CPU.
LeftAlone ==
  program.kind = "move" =>
    /\ \/ entered = <<>> /\ Instruction /\ It.code[Here].op = "move"
       \/ \A b \in Moved(program) : Held(cpu'.mem, b) = Held(cpu.mem, b)
    /\ entered # <<>> => ~cpu'.stopped
MovesLeftAlone == [][LeftAlone]_vars
=============================================================================
