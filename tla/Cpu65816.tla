----------------------------- MODULE Cpu65816 ------------------------------
(***************************************************************************)
(* The main CPU, src/src/cpu: the registers, the addressing modes, every   *)
(* instruction and the entry of interrupts, at their real widths.          *)
(*                                                                         *)
(* The machine is one record (cpu): the registers of struct Cpu, the       *)
(* status register p, and mem, the bytes that have been written (all other *)
(* memory reads zero).  All of it is RAM: the bus map and the cost of an   *)
(* access are left out.  A program maps addresses to decoded instructions: *)
(*   op, arg   what it does, and to which register, flag or condition      *)
(*   mode      how it finds its operand                                    *)
(*   n, bank   the operand: its low 16 bits, and the third byte            *)
(* so that the opcode fetch is a lookup, but PC, the length of an          *)
(* instruction (which depends on M and X) and all data are those of the    *)
(* code.  Interrupt requests come at any instruction.                      *)
(*                                                                         *)
(* Definitions named Bad... are plausible faults in the definition after   *)
(* them, not part of the model: they show that a property would notice.    *)
(***************************************************************************)
EXTENDS Integers, Sequences

CONSTANTS
  Names,        \* the programs: records that say what a program does
  Program(_)    \* the program of a name: [code, mem, requests]

VARIABLES
  program,   \* the name of the program in memory
  cpu,       \* the machine
  raised,    \* interrupt requests raised so far
  \* history
  entered    \* the machine before each handler that has not returned, newest first

vars == <<program, cpu, raised, entered>>

\* code: instructions by address; mem: the bytes loaded with them (the vectors, and
\* data); requests: how many interrupts are raised.
It == Program(program)

Below(n) == 0..n-1
Byte     == Below(256)
Word16   == Below(65536)
Address  == Below(16777216)
Status   == [n : BOOLEAN, v : BOOLEAN, m : BOOLEAN, x : BOOLEAN,
             d : BOOLEAN, i : BOOLEAN, z : BOOLEAN, c : BOOLEAN]

\* The modes of an operand in memory, and those with an operand of one byte.
InMemory == {"d", "dx", "dy", "(d)", "(dx)", "(d)y", "[d]", "[d]y", "s", "(s)y",
             "a", "ax", "ay", "l", "lx"}
OneByte  == {"d", "dx", "dy", "(d)", "(dx)", "(d)y", "[d]", "[d]y", "s", "(s)y",
             "byte", "banks"}

Copies == {<<"a", "x">>, <<"a", "y">>, <<"a", "sp">>, <<"a", "dp">>, <<"x", "a">>, <<"x", "y">>,
           <<"x", "sp">>, <<"y", "a">>, <<"y", "x">>, <<"sp", "a">>, <<"sp", "x">>, <<"dp", "a">>}

\* What the 256 opcodes decode to (and some pairs of operation and mode that none does).
Decoded(ins) ==
  /\ ins.n \in (IF ins.mode \in OneByte THEN Byte ELSE Word16) /\ ins.bank \in Byte
  /\ \/ ins.op \in {"load", "compare"} /\ ins.arg \in {"a", "x", "y"} /\ ins.mode \in InMemory \cup {"imm"}
     \/ ins.op = "store" /\ ins.arg \in {"a", "x", "y", "zero"} /\ ins.mode \in InMemory
     \/ ins.op = "logic" /\ ins.arg \in {"and", "ora", "eor"} /\ ins.mode \in InMemory \cup {"immM"}
     \/ ins.op = "arith" /\ ins.arg \in {"adc", "sbc"} /\ ins.mode \in InMemory \cup {"immM"}
     \/ ins.op = "bit" /\ ins.mode \in InMemory \cup {"immM"}
     \/ ins.op = "shift" /\ ins.arg \in {"asl", "lsr", "rol", "ror"} /\ ins.mode \in InMemory \cup {"acc"}
     \/ ins.op = "incdec" /\ ins.arg \in {"inc", "dec"} /\ ins.mode \in InMemory \cup {"acc"}
     \/ ins.op = "testbits" /\ ins.arg \in {"tsb", "trb"} /\ ins.mode \in InMemory
     \/ ins.op = "index" /\ ins.arg \in {"x", "y"} \X {1, -1} /\ ins.mode = "imp"
     \/ ins.op = "branch" /\ ins.arg \in {"n", "v", "z", "c", "always"} \X BOOLEAN /\ ins.mode \in {"byte", "word"}
     \/ ins.op = "jump" /\ ins.mode \in {"a", "l", "(a)", "[a]", "(ax)"}
     \/ ins.op = "call" /\ ins.mode \in {"a", "l", "(ax)"}
     \/ ins.op = "return" /\ ins.arg \in {"rts", "rtl", "rti"} /\ ins.mode = "imp"
     \/ ins.op = "push" /\ ins.arg \in {"a", "x", "y", "p", "dbr", "pbr", "dp"} /\ ins.mode = "imp"
     \/ ins.op = "pull" /\ ins.arg \in {"a", "x", "y", "p", "dbr", "dp"} /\ ins.mode = "imp"
     \/ ins.op = "effective" /\ <<ins.arg, ins.mode>> \in {<<"pea", "word">>, <<"pei", "d">>, <<"per", "word">>}
     \/ ins.op = "transfer" /\ ins.arg \in Copies /\ ins.mode = "imp"
     \/ ins.op = "flag" /\ ins.arg \in {"c", "d", "i", "v"} \X BOOLEAN /\ ins.mode = "imp"
     \/ ins.op = "bits" /\ ins.arg \in {"rep", "sep"} /\ ins.mode = "byte"
     \/ ins.op = "move" /\ ins.arg \in {"mvn", "mvp"} /\ ins.mode = "banks"
     \/ ins.op \in {"xce", "xba", "nop", "stp", "wai"} /\ ins.mode = "imp"
     \/ ins.op \in {"wdm", "brk", "cop"} /\ ins.mode = "byte"

ASSUME CpuAssumption ==
  \A k \in Names :
    /\ \A at \in DOMAIN Program(k).code : Decoded(Program(k).code[at])
    /\ DOMAIN Program(k).mem \subseteq Address
    /\ Program(k).mem \in [DOMAIN Program(k).mem -> Byte]
    /\ Program(k).requests \in Nat

Mod(w8) == IF w8 THEN 256 ELSE 65536
Trim(v, w8) == v % Mod(w8)
Word(lo, hi) == lo + 256 * hi
Hi(v) == v \div 256
Plus(v, k) == (v + k) % 65536
Num(b) == IF b THEN 1 ELSE 0

\* The bit of weight w.
Bit(v, w) == (v \div w) % 2 = 1

\* AND, ORA and EOR of bits, bytes and words.
LogicBit(f, b, c) == CASE f = "and" -> b /\ c [] f = "ora" -> b \/ c [] f = "eor" -> b # c
LogicByte(f, u, v) ==
  LET r(w) == w * Num(LogicBit(f, Bit(u, w), Bit(v, w)))
  IN  r(128) + r(64) + r(32) + r(16) + r(8) + r(4) + r(2) + r(1)
LogicWord(f, u, v) == Word(LogicByte(f, u % 256, v % 256), LogicByte(f, Hi(u), Hi(v)))

\* An 8-bit result leaves the high byte of a 16-bit register alone.
Keep(r, v, w8) == IF w8 THEN r - (r % 256) + v ELSE v

-----------------------------------------------------------------------------
(* The status register.                                                    *)

ToByte(p, e) ==
  128 * Num(p.n) + 64 * Num(p.v) + 32 * Num(e \/ p.m) + 16 * Num(p.x)
  + 8 * Num(p.d) + 4 * Num(p.i) + 2 * Num(p.z) + Num(p.c)

\* In emulation mode the width flags are taken from the byte as well.
BadFromByte(b, e) ==
  [n |-> Bit(b, 128), v |-> Bit(b, 64), m |-> Bit(b, 32), x |-> Bit(b, 16),
   d |-> Bit(b, 8), i |-> Bit(b, 4), z |-> Bit(b, 2), c |-> Bit(b, 1)]

FromByte(b, e) ==
  [n |-> Bit(b, 128), v |-> Bit(b, 64), m |-> e \/ Bit(b, 32), x |-> e \/ Bit(b, 16),
   d |-> Bit(b, 8), i |-> Bit(b, 4), z |-> Bit(b, 2), c |-> Bit(b, 1)]

M8(s) == s.e \/ s.p.m
X8(s) == s.e \/ s.p.x
Width(s, reg) == IF reg = "a" THEN M8(s) ELSE X8(s)

Negative(v, w8) == v >= Mod(w8) \div 2
\* The status with flags that have been set: N and Z, C, V and C, Z.
WithNZ(p, v, w8) == [p EXCEPT !.z = (v = 0), !.n = Negative(v, w8)]
WithC(p, c) == [p EXCEPT !.c = c]
WithVC(p, v, c) == [p EXCEPT !.v = v, !.c = c]
WithZ(p, v) == [p EXCEPT !.z = (v = 0)]

NZ(s, v, w8) == [s EXCEPT !.p = WithNZ(@, v, w8)]

-----------------------------------------------------------------------------
(* Memory and the stack.                                                   *)

Read(s, bank, addr) ==
  LET k == bank * 65536 + addr IN IF k \in DOMAIN s.mem THEN s.mem[k] ELSE 0
ReadWord(s, bank, addr) == Word(Read(s, bank, addr), Read(s, bank, Plus(addr, 1)))
ReadAt(s, at, w8) == IF w8 THEN Read(s, at.bank, at.addr) ELSE ReadWord(s, at.bank, at.addr)

Put(mem, k, v) == [j \in DOMAIN mem \cup {k} |-> IF j = k THEN v ELSE mem[j]]
Write(s, bank, addr, v) == [s EXCEPT !.mem = Put(@, bank * 65536 + addr, v)]
WriteAt(s, at, v, w8) ==
  LET t == Write(s, at.bank, at.addr, v % 256)
  IN  IF w8 THEN t ELSE Write(t, at.bank, Plus(at.addr, 1), Hi(v))

\* In emulation mode the stack stays in page 1.
Page1(s, v) == IF s.e THEN 256 + (v % 256) ELSE v

PushByte(s, v) == LET t == Write(s, 0, s.sp, v) IN [t EXCEPT !.sp = Page1(s, Plus(@, 65535))]
PushWord(s, v) == PushByte(PushByte(s, Hi(v)), v % 256)
PushWide(s, v, w8) == IF w8 THEN PushByte(s, v % 256) ELSE PushWord(s, v)

\* pull_byte and pull_word in two parts: where SP is afterwards, and the value.
Pull1(s) == [s EXCEPT !.sp = Page1(s, Plus(@, 1))]
Pull2(s) == Pull1(Pull1(s))
Top(s) == Read(s, 0, s.sp)
TopWord(s) == Word(Top(Pull1(s)), Top(Pull2(s)))

-----------------------------------------------------------------------------
(* Operands.                                                               *)

\* Bytes of an instruction; an immediate is as wide as its register.
Size(s, ins) ==
  CASE ins.mode \in {"imp", "acc"} -> 1
    [] ins.mode = "imm" -> IF Width(s, ins.arg) THEN 2 ELSE 3
    [] ins.mode = "immM" -> IF M8(s) THEN 2 ELSE 3
    [] ins.mode \in {"byte", "d", "dx", "dy", "(d)", "(dx)", "(d)y", "[d]", "[d]y",
                     "s", "(s)y"} -> 2
    [] ins.mode \in {"word", "a", "ax", "ay", "(a)", "(ax)", "[a]", "banks"} -> 3
    [] ins.mode \in {"l", "lx"} -> 4

Fetched(s, ins) == [s EXCEPT !.pc = Plus(@, Size(s, ins))]

Index(s, reg) == Trim(s[reg], X8(s))
At(b, v) == [bank |-> b, addr |-> v % 65536]

Direct(s, ins) == CASE ins.mode \in {"d", "(d)", "(d)y", "[d]", "[d]y"} -> Plus(s.dp, ins.n)
                    [] ins.mode \in {"dx", "(dx)"} -> Plus(s.dp, ins.n + Index(s, "x"))
                    [] ins.mode = "dy" -> Plus(s.dp, ins.n + Index(s, "y"))

\* Only [d],Y carries into the bank.
DirectIndirect(s, ins) ==
  LET at  == Direct(s, ins)
      ptr == ReadWord(s, 0, at)
      far == Read(s, 0, Plus(at, 2))
      sum == far * 65536 + ptr + Index(s, "y")
  IN  CASE ins.mode \in {"(d)", "(dx)"} -> At(s.dbr, ptr)
        [] ins.mode = "(d)y" -> At(s.dbr, ptr + Index(s, "y"))
        [] ins.mode = "[d]"  -> At(far, ptr)
        [] ins.mode = "[d]y" -> At((sum \div 65536) % 256, sum)

Absolute(s, ins) == CASE ins.mode = "a"  -> At(s.dbr, ins.n)
                      [] ins.mode = "ax" -> At(s.dbr, ins.n + Index(s, "x"))
                      [] ins.mode = "ay" -> At(s.dbr, ins.n + Index(s, "y"))

Long(s, ins) == At(ins.bank, IF ins.mode = "l" THEN ins.n ELSE ins.n + Index(s, "x"))

StackRelative(s, ins) ==
  LET at == Plus(s.sp, ins.n)
  IN  IF ins.mode = "s" THEN At(0, at) ELSE At(s.dbr, ReadWord(s, 0, at) + Index(s, "y"))

Ea(s, ins) == CASE ins.mode \in {"d", "dx", "dy"} -> At(0, Direct(s, ins))
                [] ins.mode \in {"(d)", "(dx)", "(d)y", "[d]", "[d]y"} -> DirectIndirect(s, ins)
                [] ins.mode \in {"a", "ax", "ay"} -> Absolute(s, ins)
                [] ins.mode \in {"l", "lx"} -> Long(s, ins)
                [] ins.mode \in {"s", "(s)y"} -> StackRelative(s, ins)

Operand(s, ins, w8) ==
  IF ins.mode \in {"imm", "immM"} THEN Trim(ins.n, w8) ELSE ReadAt(s, Ea(s, ins), w8)

\* The targets of the indirect jumps.
Target(s, ins) == CASE ins.mode \in {"a", "l"} -> ins.n
                    [] ins.mode \in {"(a)", "[a]"} -> ReadWord(s, 0, ins.n)
                    [] ins.mode = "(ax)" -> ReadWord(s, s.pbr, Plus(ins.n, Index(s, "x")))

\* A branch is relative to the address after it.
Relative(s, ins) ==
  IF ins.mode = "byte" /\ ins.n >= 128 THEN Plus(s.pc, ins.n + 65280) ELSE Plus(s.pc, ins.n)

-----------------------------------------------------------------------------
(* Loads, stores and arithmetic.  Every operator below maps the machine    *)
(* after the fetch to the machine after the instruction.                   *)

SetA(s, v, w8) == NZ([s EXCEPT !.a = Keep(@, v, w8)], v, w8)

LoadReg(s, reg, v) ==
  IF reg = "a" THEN SetA(s, v, M8(s)) ELSE NZ([s EXCEPT ![reg] = v], v, X8(s))
Load(s, ins) == LoadReg(s, ins.arg, Operand(s, ins, Width(s, ins.arg)))

Stored(s, arg) == IF arg = "zero" THEN 0 ELSE s[arg]
StoreWidth(s, arg) == IF arg = "zero" THEN M8(s) ELSE Width(s, arg)
Store(s, ins) == WriteAt(s, Ea(s, ins), Stored(s, ins.arg), StoreWidth(s, ins.arg))

Logic(s, ins) ==
  SetA(s, LogicWord(ins.arg, Trim(s.a, M8(s)), Operand(s, ins, M8(s))), M8(s))

\* Signed overflow of a binary addition: the operands agree in sign, the sum does not.
Overflow(u, v, sum, w8) ==
  /\ Negative(u, w8) = Negative(v, w8)
  /\ Negative(Trim(sum, w8), w8) # Negative(u, w8)

\* The digit of weight w.
Digit(v, w) == (v \div w) % 16

\* The thresholds forget that the digit below may already have carried.
BadAddDigit(t, u, v, w) ==
  LET sum == t + (Digit(u, w) + Digit(v, w)) * w
  IN  IF sum > 9 * w THEN sum + 6 * w ELSE sum

\* Digit by digit into one accumulator: a digit above 9 is adjusted by 6.
AddDigit(t, u, v, w) ==
  LET sum == t + (Digit(u, w) + Digit(v, w)) * w
  IN  IF sum > 10 * w - 1 THEN sum + 6 * w ELSE sum

DecimalSum(u, v, c, w8) ==
  LET t == AddDigit(AddDigit(c, u, v, 1), u, v, 16)
  IN  IF w8 THEN t ELSE AddDigit(AddDigit(t, u, v, 256), u, v, 4096)

\* adc8 and adc16.
Adc(s, v, w8) ==
  LET u == Trim(s.a, w8)
      c == Num(s.p.c)
      sum == IF s.p.d THEN DecimalSum(u, v, c, w8) ELSE u + v + c
  IN  SetA([s EXCEPT !.p = WithVC(@, Overflow(u, v, u + v + c, w8), sum >= Mod(w8))],
           Trim(sum, w8), w8)

\* The digits of a difference, each with the borrow of the one below.
DecimalDifference(u, v, borrow, w8) ==
  LET minus(w, b) == Digit(u, w) - Digit(v, w) - b
      down(n) == IF n < 0 THEN 1 ELSE 0
      digit(n) == (IF n < 0 THEN n - 6 ELSE n) % 16
      n0 == minus(1, borrow)
      n1 == minus(16, down(n0))
      n2 == minus(256, down(n1))
      n3 == minus(4096, down(n2))
      low == digit(n0) + 16 * digit(n1)
  IN  IF w8 THEN low ELSE low + 256 * digit(n2) + 4096 * digit(n3)

\* sbc8 and sbc16: the decimal carry is that of the binary complement.
Sbc(s, v, w8) ==
  LET u == Trim(s.a, w8)
      w == Mod(w8) - 1 - v
      c == Num(s.p.c)
  IN  IF ~s.p.d THEN Adc(s, w, w8)
      ELSE SetA([s EXCEPT !.p = WithVC(@, Overflow(u, w, u + w + c, w8), u + w + c >= Mod(w8))],
                DecimalDifference(u, v, 1 - c, w8), w8)

Arith(s, ins) == LET v == Operand(s, ins, M8(s))
                 IN  IF ins.arg = "adc" THEN Adc(s, v, M8(s)) ELSE Sbc(s, v, M8(s))

CompareWith(s, u, v, w8) ==
  NZ([s EXCEPT !.p = WithC(@, u >= v)], Trim(u - v, w8), w8)
Compare(s, ins) ==
  LET w8 == Width(s, ins.arg)
  IN  CompareWith(s, Trim(s[ins.arg], w8), Operand(s, ins, w8), w8)

\* BIT; with an immediate operand only Z changes.
BitTest(s, ins) ==
  LET v == Operand(s, ins, M8(s))
      q == WithZ(s.p, LogicWord("and", Trim(s.a, M8(s)), v))
  IN  [s EXCEPT !.p = IF ins.mode = "immM" THEN q
                      ELSE [q EXCEPT !.n = Negative(v, M8(s)),
                                     !.v = Negative(Trim(2 * v, M8(s)), M8(s))]]

-----------------------------------------------------------------------------
(* Read, modify, write.                                                    *)

Carry(f, v, w8) == IF f \in {"asl", "rol"} THEN Negative(v, w8) ELSE v % 2 = 1

\* A bit shifted out on the left is not dropped.
BadShifted(f, v, c, w8) ==
  CASE f = "asl" -> 2 * v
    [] f = "lsr" -> v \div 2
    [] f = "rol" -> 2 * v + Num(c)
    [] f = "ror" -> v \div 2 + Num(c) * (Mod(w8) \div 2)

Shifted(f, v, c, w8) ==
  CASE f = "asl" -> Trim(2 * v, w8)
    [] f = "lsr" -> v \div 2
    [] f = "rol" -> Trim(2 * v, w8) + Num(c)
    [] f = "ror" -> v \div 2 + Num(c) * (Mod(w8) \div 2)

\* The accumulator or a memory operand, and where the result goes.
Subject(s, ins, w8) == IF ins.mode = "acc" THEN Trim(s.a, w8) ELSE ReadAt(s, Ea(s, ins), w8)
PutBack(s, ins, v, w8) ==
  IF ins.mode = "acc" THEN [s EXCEPT !.a = Keep(@, v, w8)] ELSE WriteAt(s, Ea(s, ins), v, w8)

Shift(s, ins) ==
  LET w8 == M8(s)
      v  == Subject(s, ins, w8)
      r  == Shifted(ins.arg, v, s.p.c, w8)
  IN  NZ(PutBack([s EXCEPT !.p = WithC(@, Carry(ins.arg, v, w8))], ins, r, w8), r, w8)

\* INC and DEC of the accumulator or of memory.
StepBy(arg) == IF arg = "inc" THEN 1 ELSE -1
IncDec(s, ins) ==
  LET w8 == M8(s)
      r  == Trim(Subject(s, ins, w8) + StepBy(ins.arg), w8)
  IN  NZ(PutBack(s, ins, r, w8), r, w8)

\* INX, DEX, INY, DEY: arg is the register and the step.
StepIndex(s, ins) ==
  LET reg == ins.arg[1]
      r   == Trim(s[reg] + ins.arg[2], X8(s))
  IN  NZ([s EXCEPT ![reg] = Keep(@, r, X8(s))], r, X8(s))

\* TSB and TRB.
TestBits(s, ins) ==
  LET w8 == M8(s)
      v  == Subject(s, ins, w8)
      u  == Trim(s.a, w8)
  IN  PutBack([s EXCEPT !.p = WithZ(@, LogicWord("and", u, v))], ins,
              IF ins.arg = "tsb" THEN LogicWord("ora", v, u)
              ELSE LogicWord("and", v, Mod(w8) - 1 - u), w8)

-----------------------------------------------------------------------------
(* Control flow.                                                           *)

\* arg: the flag tested and the value that branches; BRA and BRL always do.
Branch(s, ins) ==
  IF ins.arg[1] = "always" \/ s.p[ins.arg[1]] = ins.arg[2]
    THEN [s EXCEPT !.pc = Relative(s, ins)] ELSE s

Bank(s, ins) == CASE ins.mode = "l" -> ins.bank
                  [] ins.mode = "[a]" -> Read(s, 0, Plus(ins.n, 2))
                  [] OTHER -> s.pbr
Jump(s, ins) == [s EXCEPT !.pbr = Bank(s, ins), !.pc = Target(s, ins)]

\* JSR and JSL push the address of their last byte.
Call(s, ins) ==
  LET t == IF ins.mode = "l" THEN PushByte(s, s.pbr) ELSE s
  IN  Jump(PushWord(t, Plus(s.pc, 65535)), ins)

\* RTI does not restore the program bank.
BadReturnInterrupt(s) ==
  LET t == Pull1(s)
  IN  [Pull2(t) EXCEPT !.p = FromByte(Top(t), s.e), !.pc = TopWord(t)]

ReturnInterrupt(s) ==
  LET t == Pull1(s)
      u == [Pull2(t) EXCEPT !.p = FromByte(Top(t), s.e), !.pc = TopWord(t)]
  IN  IF s.e THEN u ELSE [Pull1(u) EXCEPT !.pbr = Top(Pull1(u))]

Return(s, ins) ==
  LET t == [Pull2(s) EXCEPT !.pc = Plus(TopWord(s), 1)]
  IN  CASE ins.arg = "rts" -> t
        [] ins.arg = "rtl" -> [Pull1(t) EXCEPT !.pbr = Top(Pull1(t))]
        [] ins.arg = "rti" -> ReturnInterrupt(s)

-----------------------------------------------------------------------------
(* The stack instructions.                                                 *)

Push(s, ins) ==
  CASE ins.arg \in {"a", "x", "y"} -> PushWide(s, s[ins.arg], Width(s, ins.arg))
    [] ins.arg = "p" -> PushByte(s, ToByte(s.p, s.e))
    [] ins.arg \in {"dbr", "pbr"} -> PushByte(s, s[ins.arg])
    [] ins.arg = "dp" -> PushWord(s, s.dp)

\* New status flags; X going from 0 to 1 zeroes the high bytes of the indexes.
SetStatus(s, b) ==
  LET t == [s EXCEPT !.p = FromByte(b, s.e)]
  IN  IF ~s.p.x /\ t.p.x THEN [t EXCEPT !.x = @ % 256, !.y = @ % 256] ELSE t

Pull(s, ins) ==
  LET w8 == CASE ins.arg \in {"a", "x", "y"} -> Width(s, ins.arg)
              [] ins.arg \in {"p", "dbr"} -> TRUE
              [] ins.arg = "dp" -> FALSE
      t  == IF w8 THEN Pull1(s) ELSE Pull2(s)
      v  == IF w8 THEN Top(t) ELSE TopWord(s)
  IN  CASE ins.arg \in {"a", "x", "y"} -> LoadReg(t, ins.arg, v)
        [] ins.arg = "p" -> SetStatus(t, v)
        [] ins.arg \in {"dbr", "dp"} -> NZ([t EXCEPT ![ins.arg] = v], v, w8)

\* PEA, PEI and PER.
PushEffective(s, ins) ==
  CASE ins.arg = "pea" -> PushWord(s, ins.n)
    [] ins.arg = "pei" -> PushWord(s, ReadWord(s, 0, Direct(s, ins)))
    [] ins.arg = "per" -> PushWord(s, Relative(s, ins))

-----------------------------------------------------------------------------
(* Transfers, flags and modes.                                             *)

\* TCS leaves page 1 in emulation mode.
BadToStack(s, v) == [s EXCEPT !.sp = v]

\* TXS and TCS touch no flag.
ToStack(s, v) == [s EXCEPT !.sp = Page1(s, v)]

\* arg is the source and the destination; TSX clears a narrow X's high byte.
Transfer(s, ins) ==
  LET from == ins.arg[1]
      to   == ins.arg[2]
      w8   == from # "dp" /\ to # "dp" /\ ~(from = "sp" /\ to = "a") /\ Width(s, to)
      v    == Trim(s[from], w8)
  IN  IF to = "sp" THEN ToStack(s, s[from])
      ELSE NZ([s EXCEPT ![to] = IF from = "sp" THEN v ELSE Keep(@, v, w8)], v, w8)

SetFlag(s, ins) == [s EXCEPT !.p = [@ EXCEPT ![ins.arg[1]] = ins.arg[2]]]

\* REP and SEP.
SetBits(s, ins) ==
  LET b == ToByte(s.p, s.e)
  IN  IF ins.arg = "rep" THEN [s EXCEPT !.p = FromByte(LogicByte("and", b, 255 - ins.n), s.e)]
                         ELSE SetStatus(s, LogicByte("ora", b, ins.n))

\* XCE; emulation mode narrows everything.
ExchangeCE(s) ==
  IF s.p.c THEN [s EXCEPT !.p = [@ EXCEPT !.c = s.e, !.m = TRUE, !.x = TRUE], !.e = TRUE,
                          !.x = @ % 256, !.y = @ % 256, !.sp = 256 + (@ % 256)]
           ELSE [s EXCEPT !.p = WithC(@, s.e), !.e = FALSE]

\* XBA; the flags are those of the new low byte.
ExchangeBA(s) == NZ([s EXCEPT !.a = Word(Hi(@), @ % 256)], Hi(s.a), TRUE)

\* The instruction is left when the counter reaches zero, one byte early.
BadBlockMove(s, ins) ==
  LET d == IF ins.arg = "mvn" THEN 1 ELSE 65535
      t == [Write(s, ins.n, s.y, Read(s, ins.bank, s.x)) EXCEPT
              !.dbr = ins.n, !.x = Plus(@, d), !.y = Plus(@, d), !.a = Plus(@, 65535)]
  IN  IF t.a = 0 THEN t ELSE [t EXCEPT !.pc = Plus(@, 65533)]

\* MVN and MVP move one byte per step and are fetched again until A has wrapped.
\* n is the destination's bank, bank the source's.
BlockMove(s, ins) ==
  LET d == IF ins.arg = "mvn" THEN 1 ELSE 65535
      t == [Write(s, ins.n, s.y, Read(s, ins.bank, s.x)) EXCEPT
              !.dbr = ins.n, !.x = Plus(@, d), !.y = Plus(@, d), !.a = Plus(@, 65535)]
  IN  IF t.a = 65535 THEN t ELSE [t EXCEPT !.pc = Plus(@, 65533)]

-----------------------------------------------------------------------------
(* Interrupts.                                                             *)

\* Interrupts masked, and the decimal mode off.
Masked(p) == [p EXCEPT !.i = TRUE, !.d = FALSE]

\* The status register is pushed after interrupts have been masked in it.
BadEnter(s, p, vecE, vecN) ==
  LET t == [s EXCEPT !.p = Masked(@)]
      u == PushByte(PushWord(IF s.e THEN t ELSE PushByte(t, s.pbr), s.pc), ToByte(t.p, s.e))
  IN  [u EXCEPT !.pbr = IF s.e THEN @ ELSE 0, !.pc = ReadWord(u, 0, IF s.e THEN vecE ELSE vecN)]

\* p is the status byte pushed.  Emulation mode saves and changes no program bank.
Enter(s, p, vecE, vecN) ==
  LET t == PushByte(PushWord(IF s.e THEN s ELSE PushByte(s, s.pbr), s.pc), p)
  IN  [t EXCEPT !.p = Masked(@), !.pbr = IF s.e THEN @ ELSE 0,
                !.pc = ReadWord(t, 0, IF s.e THEN vecE ELSE vecN)]

Nmi(s) == Enter([s EXCEPT !.nmi = FALSE], ToByte(s.p, s.e), 65530, 65514)
\* In emulation mode the pushed B flag (where X is) is clear for an IRQ, set for BRK.
Irq(s) == LET p == ToByte(s.p, s.e)
          IN  Enter([s EXCEPT !.irq = FALSE], IF s.e /\ s.p.x THEN p - 16 ELSE p, 65534, 65518)
Brk(s) == LET p == ToByte(s.p, s.e)
          IN  Enter(s, IF s.e /\ ~s.p.x THEN p + 16 ELSE p, 65534, 65510)
Cop(s) == Enter(s, ToByte(s.p, s.e), 65524, 65508)

Executed(s, ins) ==
  CASE ins.op = "load" -> Load(s, ins)          [] ins.op = "store" -> Store(s, ins)
    [] ins.op = "logic" -> Logic(s, ins)        [] ins.op = "arith" -> Arith(s, ins)
    [] ins.op = "compare" -> Compare(s, ins)    [] ins.op = "bit" -> BitTest(s, ins)
    [] ins.op = "shift" -> Shift(s, ins)        [] ins.op = "incdec" -> IncDec(s, ins)
    [] ins.op = "index" -> StepIndex(s, ins)    [] ins.op = "testbits" -> TestBits(s, ins)
    [] ins.op = "branch" -> Branch(s, ins)      [] ins.op = "jump" -> Jump(s, ins)
    [] ins.op = "call" -> Call(s, ins)          [] ins.op = "return" -> Return(s, ins)
    [] ins.op = "push" -> Push(s, ins)          [] ins.op = "pull" -> Pull(s, ins)
    [] ins.op = "effective" -> PushEffective(s, ins)
    [] ins.op = "transfer" -> Transfer(s, ins)  [] ins.op = "flag" -> SetFlag(s, ins)
    [] ins.op = "bits" -> SetBits(s, ins)       [] ins.op = "xce" -> ExchangeCE(s)
    [] ins.op = "xba" -> ExchangeBA(s)          [] ins.op = "move" -> BlockMove(s, ins)
    [] ins.op \in {"nop", "wdm"} -> s           [] ins.op = "stp" -> [s EXCEPT !.stopped = TRUE]
    [] ins.op = "wai" -> [s EXCEPT !.waiting = TRUE]
    [] ins.op = "brk" -> Brk(s)                 [] ins.op = "cop" -> Cop(s)

-----------------------------------------------------------------------------
(* Cpu::step.  A stopped or waiting CPU that stalls changes nothing here.  *)

PowerOnStatus == [n |-> FALSE, v |-> FALSE, m |-> TRUE, x |-> TRUE,
                  d |-> FALSE, i |-> TRUE, z |-> FALSE, c |-> FALSE]

Reset(bytes) ==
  LET s == [a |-> 0, x |-> 0, y |-> 0, sp |-> 511, dp |-> 0, pc |-> 0, pbr |-> 0, dbr |-> 0,
            p |-> PowerOnStatus, e |-> TRUE, nmi |-> FALSE, irq |-> FALSE,
            stopped |-> FALSE, waiting |-> FALSE, mem |-> bytes]
  IN  [s EXCEPT !.pc = ReadWord(s, 0, 65532)]

Init ==
  /\ program \in Names
  /\ cpu = Reset(It.mem)
  /\ raised = 0 /\ entered = <<>>

\* The frame loop asks for an interrupt, between two instructions.
Request ==
  /\ raised < It.requests
  /\ raised' = raised + 1
  /\ \/ ~cpu.nmi /\ cpu' = [cpu EXCEPT !.nmi = TRUE]
     \/ ~cpu.irq /\ cpu' = [cpu EXCEPT !.irq = TRUE]
  /\ UNCHANGED <<program, entered>>

IrqAccepted == cpu.irq /\ ~cpu.p.i

TakeNmi ==
  /\ ~cpu.stopped /\ cpu.nmi
  /\ LET s == [cpu EXCEPT !.waiting = FALSE]
     IN  cpu' = Nmi(s) /\ entered' = <<s>> \o entered
  /\ UNCHANGED <<program, raised>>

TakeIrq ==
  /\ ~cpu.stopped /\ ~cpu.nmi /\ IrqAccepted
  /\ LET s == [cpu EXCEPT !.waiting = FALSE]
     IN  cpu' = Irq(s) /\ entered' = <<s>> \o entered
  /\ UNCHANGED <<program, raised>>

Here == cpu.pbr * 65536 + cpu.pc

Instruction ==
  /\ ~cpu.stopped /\ ~cpu.waiting /\ ~cpu.nmi /\ ~IrqAccepted
  /\ Here \in DOMAIN It.code
  /\ LET ins == It.code[Here]
         s   == Fetched(cpu, ins)
     IN  /\ cpu' = Executed(s, ins)
         /\ entered' = CASE ins.op \in {"brk", "cop"} -> <<s>> \o entered
                         [] ins.op = "return" /\ ins.arg = "rti" /\ entered # <<>> -> Tail(entered)
                         [] OTHER -> entered
  /\ UNCHANGED <<program, raised>>

Next == Request \/ TakeNmi \/ TakeIrq \/ Instruction

Spec == Init /\ [][Next]_vars

-----------------------------------------------------------------------------
(* Properties.                                                             *)

\* Every register keeps its width and every address its 24 bits, whatever is added,
\* pushed, pulled or moved.
TypeOK ==
  /\ program \in Names /\ raised \in 0..It.requests
  /\ \A reg \in {"a", "x", "y", "sp", "dp", "pc"} : cpu[reg] \in Word16
  /\ cpu.pbr \in Byte /\ cpu.dbr \in Byte /\ cpu.p \in Status
  /\ \A reg \in {"e", "nmi", "irq", "stopped", "waiting"} : cpu[reg] \in BOOLEAN
  /\ DOMAIN cpu.mem \subseteq Address /\ \A k \in DOMAIN cpu.mem : cpu.mem[k] \in Byte

Registers(s) == [reg \in {"a", "x", "y", "sp", "dp", "pc", "pbr", "dbr", "p", "e"} |-> s[reg]]

\* A handler that saves what it uses is invisible: whenever one returns, nested or
\* not, at any instruction, in any mode and width, every register is what it was
\* when the interrupt came (cpu/mod.rs:388-434, instructions.rs:640-650).
InterruptTransparent ==
  [][Len(entered') < Len(entered) => Registers(cpu') = Registers(entered[1])]_vars

\* No sequence of SEP, REP, PLP, RTI, XCE, TXS, TCS and stack instructions leaves
\* emulation mode with a stack outside page 1 or a 16-bit register (mod.rs:63-79, 503-528).
EmulationConfined ==
  cpu.e => Hi(cpu.sp) = 1 /\ cpu.p.m /\ cpu.p.x

\* The number that the decimal digits of v stand for, when it has only those.
Value(v, w8) ==
  LET low == Digit(v, 1) + 10 * Digit(v, 16)
  IN  IF w8 THEN low ELSE low + 100 * Digit(v, 256) + 1000 * Digit(v, 4096)
Decimal(v) == \A w \in {1, 16, 256, 4096} : Digit(v, w) <= 9
Signed(v, w8) == IF Negative(v, w8) THEN v - Mod(w8) ELSE v

\* The sum or difference of u and v, with the carry c, in the radix that d chooses.
Exact(u, v, c, op, d, w8) ==
  LET val(w) == IF d THEN Value(w, w8) ELSE w
  IN  IF op = "adc" THEN val(u) + val(v) + c ELSE val(u) - val(v) - (1 - c)

\* The accumulator and the status that follow: the digits, the carry and zero, and in
\* binary the signed overflow.
Computed(u, v, c, op, d, w8, acc, p) ==
  LET t  == Exact(u, v, c, op, d, w8)
      q  == IF ~d THEN Mod(w8) ELSE IF w8 THEN 100 ELSE 10000
      r  == Trim(acc, w8)
      sg == IF op = "adc" THEN Signed(u, w8) + Signed(v, w8) + c
                          ELSE Signed(u, w8) - Signed(v, w8) - (1 - c)
  IN  /\ (IF d THEN Value(r, w8) ELSE r) = t % q
      /\ d => Decimal(r)
      /\ p.c = (IF op = "adc" THEN t >= q ELSE t >= 0)
      /\ p.z = (r = 0)
      /\ ~d => p.v = (Signed(r, w8) # sg)

\* ADC and SBC, wherever their operand comes from, compute in the radix of the D flag
\* and the width of the M flag, and leave the rest of the accumulator alone
\* (instructions.rs:1189-1313).  Decimal mode has decimal operands.
ArithmeticExact ==
  [][Instruction /\ It.code[Here].op = "arith" =>
       LET ins == It.code[Here]
           w8  == M8(cpu)
           u   == Trim(cpu.a, w8)
           v   == Operand(Fetched(cpu, ins), ins, w8)
       IN  (cpu.p.d => Decimal(u) /\ Decimal(v)) =>
             /\ Computed(u, v, Num(cpu.p.c), ins.arg, cpu.p.d, w8, cpu'.a, cpu'.p)
             /\ cpu'.a - Trim(cpu'.a, w8) = cpu.a - u]_vars

\* A block move that interrupts cut anywhere moves exactly A + 1 bytes, each once,
\* and leaves the registers behind the last one (instructions.rs:940-976).
BlockMoveExact ==
  program.kind = "move" /\ cpu.stopped =>
    LET k == program
        d(i) == IF k.up THEN i ELSE -i
    IN  /\ \A i \in 0..k.n-1 : Read(cpu, k.dst, (k.y + d(i)) % 65536)
                             = Read(Reset(It.mem), k.src, (k.x + d(i)) % 65536)
        /\ cpu.a = 65535 /\ cpu.dbr = k.dst
        /\ cpu.x = (k.x + d(k.n)) % 65536 /\ cpu.y = (k.y + d(k.n)) % 65536

-----------------------------------------------------------------------------
(* A statement of the source that the code does not keep.                  *)

\* "When X flag transitions from 0->1, high bytes of X/Y are zeroed."
\* (instructions.rs:719)
NarrowIndexes == [][~cpu.p.x /\ cpu'.p.x => cpu'.x < 256 /\ cpu'.y < 256]_vars
=============================================================================
