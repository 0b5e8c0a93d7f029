------------------------------ MODULE CpuProofs -----------------------------
(***************************************************************************)
(* For every program of decoded instructions, at any place in memory, with *)
(* interrupts at any instruction: the registers keep their widths and the  *)
(* addresses their 24 bits, emulation mode keeps the stack in page 1 and   *)
(* the registers 8 bits wide, and ADC and SBC compute the sum and the      *)
(* difference, in binary and in decimal.                                   *)
(*                                                                         *)
(* The inductive invariant is one predicate of the machine, Good: the type *)
(* of every register and of the memory, and Confined.  The two need each   *)
(* other: what a pull reads has its width because memory holds bytes, and  *)
(* the stack is in page 1 because the widths that emulation mode forces    *)
(* cannot be changed by any way of writing the status.  Every operator of  *)
(* the model has a lemma that says what it does to a machine that is Good. *)
(*                                                                         *)
(* Decimal arithmetic is by digits.  DigitAdded and DigitTaken are one     *)
(* step of it; their four carries or borrows cancel when the digits are    *)
(* weighed by powers of ten, which is what the sum means, and remain when  *)
(* they are weighed by powers of sixteen, which is what is stored.         *)
(*                                                                         *)
(* The fast path of an idle loop is compared with the CPU that has none.   *)
(* That one runs through the scanline first, so that the invariant has to  *)
(* say how the other will follow: there is a trace of turns from where it  *)
(* is to where the first has stopped (Reach).  A turn of either makes the  *)
(* trace longer or shorter, and a skip cuts off a whole number of          *)
(* iterations, each of which is two turns of the trace (Iterations).       *)
(*                                                                         *)
(* An interrupt is invisible, if its handler keeps or restores what it     *)
(* uses (HandlersSave).  The entry of a handler leaves a frame (Framed):   *)
(* the stack goes down around the end of its page or bank, and RTI goes    *)
(* up the same way (UpAgain); the status byte, whatever its B bit in       *)
(* emulation mode, is read as the status (StatusAgain).                    *)
(*                                                                         *)
(* The program of a block move, which interrupts may cut, is at one of     *)
(* nine places, and knows at each how far it is (PlaceIn); the bytes       *)
(* before that have arrived, the others have not been touched (Arrived).   *)
(* While a handler runs, the program is the oldest machine in entered.     *)
(***************************************************************************)
EXTENDS MCCpu65816, WellFoundedInduction, TLAPS

-----------------------------------------------------------------------------
(* The invariant.                                                          *)

\* The machine with every register in its width.
Memory == UNION {[K -> Byte] : K \in SUBSET Address}

Machine == [a : Word16, x : Word16, y : Word16, sp : Word16, dp : Word16, pc : Word16,
            pbr : Byte, dbr : Byte, p : Status, e : BOOLEAN, nmi : BOOLEAN, irq : BOOLEAN,
            stopped : BOOLEAN, waiting : BOOLEAN, mem : Memory]

\* The widths that emulation mode forces, and what it confines.
Narrow(p) == p.m = TRUE /\ p.x = TRUE
Confined(s) == s.e = TRUE => Hi(s.sp) = 1 /\ Narrow(s.p)

Good(s) == s \in Machine /\ Confined(s)

\* What it is to be a byte, a word or an address.
LEMMA BelowIs == \A n \in Nat : \A v : v \in Below(n) <=> v \in Int /\ 0 <= v /\ v < n
BY DEF Below

LEMMA Ranges ==
  /\ \A v : v \in Byte <=> v \in Int /\ 0 <= v /\ v < 256
  /\ \A v : v \in Word16 <=> v \in Int /\ 0 <= v /\ v < 65536
  /\ \A v : v \in Address <=> v \in Int /\ 0 <= v /\ v < 16777216
BY BelowIs DEF Byte, Word16, Address

LEMMA Numbers ==
  /\ \A v \in Byte : v \in Word16
  /\ \A v \in Word16 : v \in Int
  /\ 0 \in Byte
BY Ranges

\* Words are made of bytes, and come apart into them.
LEMMA WordType ==
  ASSUME NEW lo \in Byte, NEW hi \in Byte PROVE Word(lo, hi) \in Word16
BY Ranges DEF Word

LEMMA HalfType ==
  ASSUME NEW v \in Word16 PROVE v % 256 \in Byte /\ Hi(v) \in Byte
BY Ranges DEF Hi

\* Arithmetic that wraps, or is cut to the width of a register, stays within it.
LEMMA PlusType ==
  ASSUME NEW v \in Word16, NEW k \in Int PROVE Plus(v, k) \in Word16
<1>1. v \in Int BY Numbers
<1> QED BY <1>1, Ranges DEF Plus

LEMMA TrimType ==
  ASSUME NEW v \in Int, NEW w8 \in BOOLEAN
  PROVE  Trim(v, w8) \in Word16 /\ (w8 => Trim(v, w8) \in Byte)
BY Ranges DEF Trim, Mod

\* An 8-bit result joined to the high byte of a register is a word.
LEMMA KeepType ==
  ASSUME NEW r \in Word16, NEW w8 \in BOOLEAN, NEW v \in Word16, w8 => v \in Byte
  PROVE  Keep(r, v, w8) \in Word16
BY Ranges DEF Keep

\* What is read is a byte, wherever it is read.
LEMMA Reading ==
  ASSUME NEW s, Good(s), NEW bank, NEW addr
  PROVE  Read(s, bank, addr) \in Byte
<1>1. s.mem \in Memory BY DEF Good, Machine
<1>2. \A k \in DOMAIN s.mem : s.mem[k] \in Byte BY <1>1 DEF Memory
<1>3. 0 \in Byte BY Ranges
<1> QED BY <1>2, <1>3 DEF Read

\* What is written is a byte at a 24-bit address, and memory stays one.
LEMMA Putting ==
  ASSUME NEW mem \in Memory, NEW k \in Address, NEW v \in Byte
  PROVE  Put(mem, k, v) \in Memory
<1>1. PICK K \in SUBSET Address : mem \in [K -> Byte] BY DEF Memory
<1>2. Put(mem, k, v) \in [K \cup {k} -> Byte] BY <1>1 DEF Put
<1>3. K \cup {k} \in SUBSET Address BY <1>1
<1> QED BY <1>2, <1>3 DEF Memory

LEMMA Writing ==
  ASSUME NEW s, Good(s), NEW bank \in Byte, NEW addr \in Word16, NEW v \in Byte
  PROVE  Good(Write(s, bank, addr, v))
<1>1. s.mem \in Memory BY DEF Good, Machine
<1>2. bank * 65536 + addr \in Address BY Ranges
<1>3. Put(s.mem, bank * 65536 + addr, v) \in Memory BY <1>1, <1>2, Putting
<1> HIDE DEF Put, Memory
<1> QED BY <1>3 DEF Write, Good, Machine, Confined, Narrow

\* A value of a width, an address, and a status that has not widened a register.
Fits(v, w8) == v \in Word16 /\ (w8 = TRUE => v \in Byte)

IsPlace(at) == at.bank \in Byte /\ at.addr \in Word16

Kept(p, q) == q \in Status /\ (Narrow(p) => Narrow(q))

\* The registers and the flags of a machine that is Good.
LEMMA Fields ==
  ASSUME NEW s, Good(s)
  PROVE  /\ s.a \in Word16 /\ s.x \in Word16 /\ s.y \in Word16
         /\ s.sp \in Word16 /\ s.dp \in Word16 /\ s.pc \in Word16
         /\ s.pbr \in Byte /\ s.dbr \in Byte /\ s.p \in Status /\ s.e \in BOOLEAN
BY DEF Good, Machine

LEMMA Flags ==
  ASSUME NEW p \in Status
  PROVE  /\ p.n \in BOOLEAN /\ p.v \in BOOLEAN /\ p.m \in BOOLEAN /\ p.x \in BOOLEAN
         /\ p.d \in BOOLEAN /\ p.i \in BOOLEAN /\ p.z \in BOOLEAN /\ p.c \in BOOLEAN
BY DEF Status

\* M8, X8 and Width say yes or no.
LEMMA Widths ==
  ASSUME NEW s, Good(s)
  PROVE  M8(s) \in BOOLEAN /\ X8(s) \in BOOLEAN /\ \A reg : Width(s, reg) \in BOOLEAN
<1>1. s.e \in BOOLEAN /\ s.p.m \in BOOLEAN /\ s.p.x \in BOOLEAN BY Fields, Flags
<1>2. M8(s) \in BOOLEAN /\ X8(s) \in BOOLEAN BY <1>1 DEF M8, X8
<1> QED BY <1>2 DEF Width

-----------------------------------------------------------------------------
(* Replacing a register or the status.                                     *)

\* A register, a bank, the status or the stack pointer may be replaced.
LEMMA SetRegister ==
  ASSUME NEW s, Good(s), NEW r \in {"a", "x", "y", "dp", "pc"}, NEW v \in Word16
  PROVE  Good([s EXCEPT ![r] = v])
BY DEF Good, Machine, Confined

LEMMA SetBank ==
  ASSUME NEW s, Good(s), NEW r \in {"pbr", "dbr"}, NEW v \in Byte
  PROVE  Good([s EXCEPT ![r] = v])
BY DEF Good, Machine, Confined

LEMMA SetP ==
  ASSUME NEW s, Good(s), NEW q \in Status, s.e = TRUE => Narrow(q)
  PROVE  Good([s EXCEPT !.p = q])
BY DEF Good, Machine, Confined

LEMMA KeepP ==
  ASSUME NEW s, Good(s), NEW q, Kept(s.p, q)
  PROVE  Good([s EXCEPT !.p = q])
BY SetP DEF Good, Confined, Kept

LEMMA SetSp ==
  ASSUME NEW s, Good(s), NEW v \in Word16, s.e = TRUE => Hi(v) = 1
  PROVE  Good([s EXCEPT !.sp = v])
BY DEF Good, Machine, Confined

\* Setting N, Z, C or V, or entering a handler, leaves the widths of the registers alone.
LEMMA WithType ==
  ASSUME NEW p \in Status, NEW v, NEW w8, NEW c \in BOOLEAN, NEW o \in BOOLEAN
  PROVE  /\ Kept(p, WithNZ(p, v, w8)) /\ Kept(p, WithC(p, c)) /\ Kept(p, WithVC(p, o, c))
         /\ Kept(p, WithZ(p, v)) /\ Kept(p, Masked(p))
<1>1. Negative(v, w8) \in BOOLEAN BY DEF Negative
<1>2. (v = 0) \in BOOLEAN OBVIOUS
<1>3. Kept(p, WithNZ(p, v, w8)) BY <1>1, <1>2 DEF WithNZ, Kept, Narrow, Status
<1>4. Kept(p, WithC(p, c)) BY DEF WithC, Kept, Narrow, Status
<1>5. Kept(p, WithVC(p, o, c)) BY DEF WithVC, Kept, Narrow, Status
<1>6. Kept(p, WithZ(p, v)) BY <1>2 DEF WithZ, Kept, Narrow, Status
<1>7. Kept(p, Masked(p)) BY DEF Masked, Kept, Narrow, Status
<1> QED BY <1>3, <1>4, <1>5, <1>6, <1>7

LEMMA NZType ==
  ASSUME NEW s, Good(s), NEW v, NEW w8
  PROVE  Good(NZ(s, v, w8))
<1>1. Kept(s.p, WithNZ(s.p, v, w8)) BY Fields, WithType
<1> QED BY <1>1, KeepP DEF NZ

\* A status is a byte, and in emulation mode a byte is a status with 8-bit registers.
LEMMA FromByteType ==
  ASSUME NEW b, NEW e \in BOOLEAN
  PROVE  FromByte(b, e) \in Status /\ (e = TRUE => Narrow(FromByte(b, e)))
BY DEF FromByte, Status, Narrow, Bit

LEMMA ToByteType ==
  ASSUME NEW p \in Status, NEW e \in BOOLEAN
  PROVE  /\ ToByte(p, e) \in Byte
         /\ p.x = TRUE => ToByte(p, e) - 16 \in Byte
         /\ p.x = FALSE => ToByte(p, e) + 16 \in Byte
BY Flags, Ranges DEF ToByte, Num

\* AND, ORA and EOR of values of a width have that width.
LEMMA LogicByteType ==
  ASSUME NEW f, NEW u, NEW v
  PROVE  LogicByte(f, u, v) \in Byte
BY Ranges DEF LogicByte, Num

LEMMA LogicWordType ==
  ASSUME NEW f \in {"and", "ora", "eor"}, NEW w8 \in BOOLEAN,
         NEW u, Fits(u, w8), NEW v, Fits(v, w8)
  PROVE  Fits(LogicWord(f, u, v), w8)
<1>1. LogicByte(f, u % 256, v % 256) \in Byte /\ LogicByte(f, Hi(u), Hi(v)) \in Byte BY LogicByteType
<1>2. LogicWord(f, u, v) \in Word16 BY <1>1, WordType DEF LogicWord
<1>3. ASSUME w8 = TRUE PROVE LogicWord(f, u, v) \in Byte
  <2>1. Hi(u) = 0 /\ Hi(v) = 0 BY <1>3, Ranges DEF Fits, Hi
  <2>2. \A w \in {1, 2, 4, 8, 16, 32, 64, 128} : Bit(0, w) = FALSE BY DEF Bit
  <2>3. LogicBit(f, FALSE, FALSE) = FALSE BY DEF LogicBit
  <2>4. \A w \in {1, 2, 4, 8, 16, 32, 64, 128} : Num(LogicBit(f, Bit(0, w), Bit(0, w))) = 0
    BY <2>2, <2>3 DEF Num
  <2>5. LogicByte(f, 0, 0) = 0 BY <2>4 DEF LogicByte
  <2> QED BY <1>1, <2>1, <2>5, Ranges DEF LogicWord, Word
<1> QED BY <1>2, <1>3 DEF Fits

-----------------------------------------------------------------------------
(* Memory and the stack.                                                   *)

\* A word read, and a value of either width.
LEMMA ReadWordType ==
  ASSUME NEW s, Good(s), NEW bank, NEW addr
  PROVE  ReadWord(s, bank, addr) \in Word16
BY Reading, WordType DEF ReadWord

LEMMA ReadAtType ==
  ASSUME NEW s, Good(s), NEW at, NEW w8 \in BOOLEAN
  PROVE  Fits(ReadAt(s, at, w8), w8)
<1>1. Read(s, at.bank, at.addr) \in Byte BY Reading
<1>2. ReadWord(s, at.bank, at.addr) \in Word16 BY ReadWordType
<1> QED BY <1>1, <1>2, Ranges DEF ReadAt, Fits

\* A value written, of either width.
LEMMA WriteAtGood ==
  ASSUME NEW s, Good(s), NEW at, IsPlace(at), NEW v \in Word16, NEW w8 \in BOOLEAN
  PROVE  Good(WriteAt(s, at, v, w8))
<1> DEFINE t == Write(s, at.bank, at.addr, v % 256)
<1>1. v % 256 \in Byte /\ Hi(v) \in Byte BY HalfType
<1>2. Good(t) BY <1>1, Writing DEF IsPlace
<1>3. Plus(at.addr, 1) \in Word16 BY PlusType DEF IsPlace
<1> HIDE DEF t
<1>4. Good(Write(t, at.bank, Plus(at.addr, 1), Hi(v))) BY <1>1, <1>2, <1>3, Writing DEF IsPlace
<1> QED BY <1>2, <1>4 DEF WriteAt, t

\* The stack pointer after it has been moved: in emulation mode it is in page 1.
LEMMA Page1Type ==
  ASSUME NEW s, NEW v \in Word16
  PROVE  Page1(s, v) \in Word16 /\ (s.e = TRUE => Hi(Page1(s, v)) = 1)
BY Ranges DEF Page1, Hi

LEMMA MoveSp ==
  ASSUME NEW s, Good(s), NEW k \in Int
  PROVE  Good([s EXCEPT !.sp = Page1(s, Plus(@, k))])
<1>1. Plus(s.sp, k) \in Word16 BY Fields, PlusType
<1> QED BY <1>1, Page1Type, SetSp

\* What pushing and pulling leave alone.
SameMode(s, t) == t.e = s.e /\ t.p = s.p

\* What pushes and pulls do to the machine.
LEMMA PushByteGood ==
  ASSUME NEW s, Good(s), NEW v \in Byte
  PROVE  Good(PushByte(s, v)) /\ SameMode(s, PushByte(s, v))
<1> DEFINE t == Write(s, 0, s.sp, v)
<1>1. Good(t) BY Writing, Fields, Numbers
<1>2. t.e = s.e /\ t.p = s.p BY DEF Write, Good, Machine
<1> HIDE DEF t
<1>3. Good([t EXCEPT !.sp = Page1(t, Plus(@, 65535))]) BY <1>1, MoveSp
<1>4. PushByte(s, v) = [t EXCEPT !.sp = Page1(t, Plus(@, 65535))] BY <1>2 DEF PushByte, t, Page1
<1> QED BY <1>1, <1>2, <1>3, <1>4 DEF SameMode, Good, Machine

LEMMA PushWordGood ==
  ASSUME NEW s, Good(s), NEW v \in Word16
  PROVE  Good(PushWord(s, v)) /\ SameMode(s, PushWord(s, v))
<1>1. v % 256 \in Byte /\ Hi(v) \in Byte BY HalfType
<1> QED BY <1>1, PushByteGood DEF PushWord, SameMode

LEMMA PushWideGood ==
  ASSUME NEW s, Good(s), NEW v \in Word16, NEW w8
  PROVE  Good(PushWide(s, v, w8))
BY HalfType, PushByteGood, PushWordGood DEF PushWide

LEMMA Pull1Good ==
  ASSUME NEW s, Good(s)
  PROVE  Good(Pull1(s)) /\ SameMode(s, Pull1(s))
BY MoveSp DEF Pull1, SameMode, Good, Machine

LEMMA Pull2Good ==
  ASSUME NEW s, Good(s)
  PROVE  Good(Pull2(s)) /\ SameMode(s, Pull2(s))
BY Pull1Good DEF Pull2, SameMode

\* What a pull finds.
LEMMA TopType ==
  ASSUME NEW s, Good(s)
  PROVE  Top(s) \in Byte /\ TopWord(s) \in Word16
<1>1. \A t : Good(t) => Top(t) \in Byte BY Reading DEF Top
<1> QED BY <1>1, Pull1Good, Pull2Good, WordType DEF TopWord

-----------------------------------------------------------------------------
(* The addressing modes.                                                   *)

\* The parts of an instruction that every opcode has.
LEMMA Form ==
  ASSUME NEW ins, Decoded(ins)
  PROVE  /\ ins.n \in Word16 /\ ins.bank \in Byte
         /\ ins.mode \in OneByte => ins.n \in Byte
         /\ ins.mode \in InMemory \cup {"imp", "acc", "imm", "immM", "byte", "word", "(a)", "(ax)", "[a]", "banks"}
<1>1. ins.n \in (IF ins.mode \in OneByte THEN Byte ELSE Word16) /\ ins.bank \in Byte BY DEF Decoded
<1>2. ins.mode \in InMemory \cup {"imp", "acc", "imm", "immM", "byte", "word", "(a)", "(ax)", "[a]", "banks"}
  BY DEF Decoded, InMemory
<1> QED BY <1>1, <1>2, Numbers

\* The fetch moves the program counter and nothing else.
LEMMA SizeType ==
  ASSUME NEW s, NEW ins, Decoded(ins)
  PROVE  Size(s, ins) \in Int
BY Form DEF Size, InMemory

LEMMA FetchedGood ==
  ASSUME NEW s, Good(s), NEW ins, Decoded(ins)
  PROVE  Good(Fetched(s, ins))
<1>1. Plus(s.pc, Size(s, ins)) \in Word16 BY Fields, SizeType, PlusType
<1> QED BY <1>1, SetRegister DEF Fetched

\* Every addressing mode leads to a 24-bit address.
LEMMA IndexType ==
  ASSUME NEW s, Good(s), NEW reg \in {"x", "y"}
  PROVE  Index(s, reg) \in Word16
<1>1. s[reg] \in Word16 BY Fields
<1> QED BY <1>1, Widths, Numbers, TrimType DEF Index

LEMMA AtType ==
  ASSUME NEW b \in Byte, NEW v \in Int
  PROVE  IsPlace(At(b, v))
BY Ranges DEF IsPlace, At

LEMMA DirectType ==
  ASSUME NEW s, Good(s), NEW ins, ins.n \in Word16,
         ins.mode \in {"d", "dx", "dy", "(d)", "(dx)", "(d)y", "[d]", "[d]y"}
  PROVE  Direct(s, ins) \in Word16
<1>1. ins.n \in Int /\ ins.n + Index(s, "x") \in Int /\ ins.n + Index(s, "y") \in Int
  BY IndexType, Numbers
<1>2. s.dp \in Word16 BY Fields
<1>3. \A k \in Int : Plus(s.dp, k) \in Word16 BY <1>2, PlusType
<1> QED BY <1>1, <1>3 DEF Direct

LEMMA DirectIndirectType ==
  ASSUME NEW s, Good(s), NEW ins, ins.n \in Word16,
         ins.mode \in {"(d)", "(dx)", "(d)y", "[d]", "[d]y"}
  PROVE  IsPlace(DirectIndirect(s, ins))
<1> DEFINE at  == Direct(s, ins)
           ptr == ReadWord(s, 0, at)
           far == Read(s, 0, Plus(at, 2))
           sum == far * 65536 + ptr + Index(s, "y")
<1>1. ptr \in Int /\ ptr + Index(s, "y") \in Int
  BY ReadWordType, IndexType, Numbers
<1>2. far \in Byte BY Reading
<1>3. sum \in Int
  <2>1. far \in Int BY <1>2, Numbers
  <2> HIDE DEF far, ptr
  <2>2. far * 65536 \in Int BY <2>1
  <2> QED BY <1>1, <2>2, IndexType, Numbers
<1> HIDE DEF sum
<1>4. (sum \div 65536) % 256 \in Byte BY <1>3, Ranges
<1>5. s.dbr \in Byte BY Fields
<1>6. DirectIndirect(s, ins) \in {At(s.dbr, ptr), At(s.dbr, ptr + Index(s, "y")), At(far, ptr),
                                  At((sum \div 65536) % 256, sum)}
  BY DEF DirectIndirect, sum
<1> QED BY <1>1, <1>2, <1>3, <1>4, <1>5, <1>6, AtType

LEMMA AbsoluteType ==
  ASSUME NEW s, Good(s), NEW ins, ins.n \in Word16, ins.mode \in {"a", "ax", "ay"}
  PROVE  IsPlace(Absolute(s, ins))
<1>1. ins.n \in Int /\ ins.n + Index(s, "x") \in Int /\ ins.n + Index(s, "y") \in Int
  BY IndexType, Numbers
<1>2. s.dbr \in Byte BY Fields
<1>3. \A v \in Int : IsPlace(At(s.dbr, v)) BY <1>2, AtType
<1> QED BY <1>1, <1>3 DEF Absolute

LEMMA LongType ==
  ASSUME NEW s, Good(s), NEW ins, ins.n \in Word16, ins.bank \in Byte
  PROVE  IsPlace(Long(s, ins))
<1>1. ins.n \in Int /\ ins.n + Index(s, "x") \in Int BY IndexType, Numbers
<1> QED BY <1>1, AtType DEF Long

LEMMA StackRelativeType ==
  ASSUME NEW s, Good(s), NEW ins, ins.n \in Word16
  PROVE  IsPlace(StackRelative(s, ins))
<1> DEFINE at == Plus(s.sp, ins.n)
<1>1. at \in Int BY Fields, PlusType, Numbers
<1>2. ReadWord(s, 0, at) + Index(s, "y") \in Int BY ReadWordType, IndexType, Numbers
<1>3. s.dbr \in Byte /\ 0 \in Byte BY Fields, Numbers
<1> HIDE DEF at
<1>4. IsPlace(At(0, at)) /\ IsPlace(At(s.dbr, ReadWord(s, 0, at) + Index(s, "y")))
  BY <1>1, <1>2, <1>3, AtType
<1> QED BY <1>4 DEF StackRelative, at

LEMMA EaType ==
  ASSUME NEW s, Good(s), NEW ins, Decoded(ins), ins.mode \in InMemory
  PROVE  IsPlace(Ea(s, ins))
<1>1. ins.n \in Word16 /\ ins.bank \in Byte BY Form
<1>2. CASE ins.mode \in {"d", "dx", "dy"}
  <2>1. IsPlace(At(0, Direct(s, ins))) BY <1>1, <1>2, DirectType, Numbers, AtType
  <2> QED BY <1>2, <2>1 DEF Ea
<1>3. CASE ins.mode \in {"(d)", "(dx)", "(d)y", "[d]", "[d]y"}
  BY <1>1, <1>3, DirectIndirectType DEF Ea
<1>4. CASE ins.mode \in {"a", "ax", "ay"} BY <1>1, <1>4, AbsoluteType DEF Ea
<1>5. CASE ins.mode \in {"l", "lx"} BY <1>1, <1>5, LongType DEF Ea
<1>6. CASE ins.mode \in {"s", "(s)y"} BY <1>1, <1>6, StackRelativeType DEF Ea
<1> QED BY <1>2, <1>3, <1>4, <1>5, <1>6 DEF InMemory

\* An operand has the width of the register it is for.
LEMMA OperandType ==
  ASSUME NEW s, Good(s), NEW ins, Decoded(ins), ins.mode \in InMemory \cup {"imm", "immM"},
         NEW w8 \in BOOLEAN
  PROVE  Fits(Operand(s, ins, w8), w8)
<1>1. Fits(Trim(ins.n, w8), w8) BY Form, Numbers, TrimType DEF Fits
<1>2. Fits(ReadAt(s, Ea(s, ins), w8), w8) BY ReadAtType
<1> QED BY <1>1, <1>2 DEF Operand

\* The targets of branches, jumps and calls are words.
LEMMA RelativeType ==
  ASSUME NEW s, Good(s), NEW ins, Decoded(ins)
  PROVE  Relative(s, ins) \in Word16
<1>1. ins.n \in Int BY Form, Numbers
<1>2. s.pc \in Word16 BY Fields
<1>3. \A k \in Int : Plus(s.pc, k) \in Word16 BY <1>2, PlusType
<1>4. ins.n + 65280 \in Int BY <1>1
<1> QED BY <1>1, <1>3, <1>4 DEF Relative

LEMMA TargetType ==
  ASSUME NEW s, Good(s), NEW ins, Decoded(ins), ins.mode \in {"a", "l", "(a)", "[a]", "(ax)"}
  PROVE  Target(s, ins) \in Word16
<1>1. ins.n \in Word16 BY Form
<1>2. \A b, k : ReadWord(s, b, k) \in Word16 BY ReadWordType
<1> QED BY <1>1, <1>2 DEF Target

-----------------------------------------------------------------------------
(* Loads, stores and arithmetic.                                           *)

\* A result in the accumulator or in a register of its width.
LEMMA SetAGood ==
  ASSUME NEW s, Good(s), NEW w8 \in BOOLEAN, NEW v, Fits(v, w8)
  PROVE  Good(SetA(s, v, w8))
<1>1. Keep(s.a, v, w8) \in Word16 BY Fields, KeepType DEF Fits
<1>2. Good([s EXCEPT !.a = Keep(@, v, w8)]) BY <1>1, SetRegister
<1> QED BY <1>2, NZType DEF SetA

LEMMA LoadRegGood ==
  ASSUME NEW s, Good(s), NEW reg \in {"a", "x", "y"}, NEW v, Fits(v, Width(s, reg))
  PROVE  Good(LoadReg(s, reg, v))
<1>1. CASE reg = "a" BY <1>1, Widths, SetAGood DEF LoadReg, Width
<1>2. CASE reg # "a"
  <2>1. Good([s EXCEPT ![reg] = v]) BY SetRegister DEF Fits
  <2> QED BY <1>2, <2>1, NZType DEF LoadReg
<1> QED BY <1>1, <1>2

\* Each instruction, in the order of the model.
LEMMA LoadGood ==
  ASSUME NEW s, Good(s), NEW ins, Decoded(ins), ins.op = "load"
  PROVE  Good(Load(s, ins))
<1>1. ins.arg \in {"a", "x", "y"} /\ ins.mode \in InMemory \cup {"imm"} BY DEF Decoded
<1> QED BY <1>1, Widths, OperandType, LoadRegGood DEF Load

LEMMA StoreGood ==
  ASSUME NEW s, Good(s), NEW ins, Decoded(ins), ins.op = "store"
  PROVE  Good(Store(s, ins))
<1>1. ins.arg \in {"a", "x", "y", "zero"} /\ ins.mode \in InMemory BY DEF Decoded
<1>2. Stored(s, ins.arg) \in Word16 BY <1>1, Fields, Numbers DEF Stored
<1>3. StoreWidth(s, ins.arg) \in BOOLEAN BY Widths DEF StoreWidth
<1> QED BY <1>1, <1>2, <1>3, EaType, WriteAtGood DEF Store

\* The accumulator has its width; so have the sums and the differences of it.
LEMMA AFits ==
  ASSUME NEW s, Good(s), NEW w8 \in BOOLEAN PROVE Fits(Trim(s.a, w8), w8)
BY Fields, Numbers, TrimType DEF Fits

LEMMA Integer ==
  ASSUME NEW v, NEW w8, Fits(v, w8), NEW b PROVE v \in Int /\ Num(b) \in Int /\ 1 - Num(b) \in Int
<1>1. v \in Int BY Numbers DEF Fits
<1> QED BY <1>1 DEF Num

LEMMA LogicGood ==
  ASSUME NEW s, Good(s), NEW ins, Decoded(ins), ins.op = "logic"
  PROVE  Good(Logic(s, ins))
<1>1. ins.arg \in {"and", "ora", "eor"} /\ ins.mode \in InMemory \cup {"immM"} BY DEF Decoded
<1>2. M8(s) \in BOOLEAN BY Widths
<1>3. Fits(Trim(s.a, M8(s)), M8(s)) /\ Fits(Operand(s, ins, M8(s)), M8(s))
  BY <1>1, <1>2, AFits, OperandType
<1> QED BY <1>1, <1>2, <1>3, LogicWordType, SetAGood DEF Logic

\* The decimal sum, before it is cut to the width, is a number.
LEMMA DecimalSumType ==
  ASSUME NEW u \in Int, NEW v \in Int, NEW c \in Int, NEW w8 PROVE DecimalSum(u, v, c, w8) \in Int
<1>1. \A t \in Int, w \in {1, 16, 256, 4096} : AddDigit(t, u, v, w) \in Int
  BY DEF AddDigit, Digit
<1> QED BY <1>1 DEF DecimalSum

LEMMA AdcGood ==
  ASSUME NEW s, Good(s), NEW w8 \in BOOLEAN, NEW v, Fits(v, w8)
  PROVE  Good(Adc(s, v, w8))
<1> DEFINE u == Trim(s.a, w8)
           c == Num(s.p.c)
           sum == IF s.p.d THEN DecimalSum(u, v, c, w8) ELSE u + v + c
           t == [s EXCEPT !.p = WithVC(@, Overflow(u, v, u + v + c, w8), sum >= Mod(w8))]
<1>1. u \in Int /\ v \in Int /\ c \in Int BY AFits, Integer
<1>2. sum \in Int BY <1>1, DecimalSumType
<1>3. (sum >= Mod(w8)) \in BOOLEAN /\ Overflow(u, v, u + v + c, w8) \in BOOLEAN BY DEF Overflow
<1>4. Good(t) BY <1>3, Fields, WithType, KeepP
<1>5. Fits(Trim(sum, w8), w8) BY <1>2, TrimType DEF Fits
<1> HIDE DEF sum, t
<1>6. Good(SetA(t, Trim(sum, w8), w8)) BY <1>4, <1>5, SetAGood
<1> QED BY <1>6 DEF Adc, t, sum

\* The digits of a decimal difference are below 16.
LEMMA DecimalDifferenceType ==
  ASSUME NEW u \in Int, NEW v \in Int, NEW b \in Int, NEW w8 \in BOOLEAN
  PROVE  Fits(DecimalDifference(u, v, b, w8), w8)
<1> DEFINE minus(w, k) == Digit(u, w) - Digit(v, w) - k
           down(n) == IF n < 0 THEN 1 ELSE 0
           digit(n) == (IF n < 0 THEN n - 6 ELSE n) % 16
           n0 == minus(1, b)
           n1 == minus(16, down(n0))
           n2 == minus(256, down(n1))
           n3 == minus(4096, down(n2))
<1>1. \A w \in {1, 16, 256, 4096}, k \in Int : minus(w, k) \in Int BY DEF Digit
<1>2. \A n : down(n) \in Int OBVIOUS
<1>3. \A n \in Int : digit(n) \in Int /\ 0 <= digit(n) /\ digit(n) <= 15 OBVIOUS
<1> HIDE DEF minus, down, digit
<1>4. n0 \in Int /\ n1 \in Int /\ n2 \in Int /\ n3 \in Int BY <1>1, <1>2
<1> HIDE DEF n0, n1, n2, n3
<1>5. DecimalDifference(u, v, b, w8) = LET low == digit(n0) + 16 * digit(n1)
                                       IN IF w8 THEN low ELSE low + 256 * digit(n2) + 4096 * digit(n3)
  BY DEF DecimalDifference, n0, n1, n2, n3, minus, down, digit
<1> QED BY <1>3, <1>4, <1>5, Ranges DEF Fits

LEMMA SbcGood ==
  ASSUME NEW s, Good(s), NEW w8 \in BOOLEAN, NEW v, Fits(v, w8)
  PROVE  Good(Sbc(s, v, w8))
<1> DEFINE u == Trim(s.a, w8)
           w == Mod(w8) - 1 - v
           c == Num(s.p.c)
           t == [s EXCEPT !.p = WithVC(@, Overflow(u, w, u + w + c, w8), u + w + c >= Mod(w8))]
           r == DecimalDifference(u, v, 1 - c, w8)
<1>1. Fits(w, w8) BY Ranges DEF Fits, Mod
<1>2. u \in Int /\ v \in Int /\ 1 - c \in Int BY AFits, Integer
<1>3. (u + w + c >= Mod(w8)) \in BOOLEAN /\ Overflow(u, w, u + w + c, w8) \in BOOLEAN BY DEF Overflow
<1>4. Good(t) BY <1>3, Fields, WithType, KeepP
<1>5. Fits(r, w8) BY <1>2, DecimalDifferenceType
<1> HIDE DEF t, r
<1>6. Good(SetA(t, r, w8)) BY <1>4, <1>5, SetAGood
<1>7. Good(Adc(s, w, w8)) BY <1>1, AdcGood
<1> QED BY <1>6, <1>7 DEF Sbc, t, r

LEMMA ArithGood ==
  ASSUME NEW s, Good(s), NEW ins, Decoded(ins), ins.op = "arith"
  PROVE  Good(Arith(s, ins))
<1>1. ins.mode \in InMemory \cup {"immM"} BY DEF Decoded
<1>2. M8(s) \in BOOLEAN BY Widths
<1>3. Fits(Operand(s, ins, M8(s)), M8(s)) BY <1>1, <1>2, OperandType
<1> QED BY <1>2, <1>3, AdcGood, SbcGood DEF Arith

LEMMA CompareGood ==
  ASSUME NEW s, Good(s), NEW ins
  PROVE  Good(Compare(s, ins))
<1>1. \A u, v : Good([s EXCEPT !.p = WithC(@, u >= v)])
  <2> TAKE u, v
  <2>1. (u >= v) \in BOOLEAN OBVIOUS
  <2> QED BY <2>1, Fields, WithType, KeepP
<1>2. \A u, v, w8 : Good(CompareWith(s, u, v, w8)) BY <1>1, NZType DEF CompareWith
<1> QED BY <1>2 DEF Compare

LEMMA BitTestGood ==
  ASSUME NEW s, Good(s), NEW ins
  PROVE  Good(BitTest(s, ins))
<1> DEFINE v == Operand(s, ins, M8(s))
           q == WithZ(s.p, LogicWord("and", Trim(s.a, M8(s)), v))
<1>1. Kept(s.p, q) BY Fields, WithType
<1> HIDE DEF q
<1>2. \A k, w8 : Negative(k, w8) \in BOOLEAN BY DEF Negative
<1>3. Kept(s.p, [q EXCEPT !.n = Negative(v, M8(s)), !.v = Negative(Trim(2 * v, M8(s)), M8(s))])
  BY <1>1, <1>2 DEF Kept, Narrow, Status
<1> QED BY <1>1, <1>3, KeepP DEF BitTest, q

-----------------------------------------------------------------------------
(* Read, modify, write.                                                    *)

\* The operand and the place of the result.
LEMMA SubjectType ==
  ASSUME NEW s, Good(s), NEW ins, NEW w8 \in BOOLEAN
  PROVE  Fits(Subject(s, ins, w8), w8)
BY AFits, ReadAtType DEF Subject

LEMMA PutBackGood ==
  ASSUME NEW s, Good(s), NEW ins, Decoded(ins), ins.mode \in InMemory \cup {"acc"},
         NEW w8 \in BOOLEAN, NEW v, Fits(v, w8)
  PROVE  Good(PutBack(s, ins, v, w8))
<1>1. CASE ins.mode = "acc"
  <2>1. Keep(s.a, v, w8) \in Word16 BY Fields, KeepType DEF Fits
  <2> QED BY <1>1, <2>1, SetRegister DEF PutBack
<1>2. CASE ins.mode # "acc"
  BY <1>2, EaType, WriteAtGood DEF PutBack, Fits
<1> QED BY <1>1, <1>2

LEMMA ShiftedType ==
  ASSUME NEW f \in {"asl", "lsr", "rol", "ror"}, NEW w8 \in BOOLEAN, NEW v, Fits(v, w8), NEW c
  PROVE  Fits(Shifted(f, v, c, w8), w8)
<1>1. v \in Int /\ 0 <= v /\ v < Mod(w8) /\ Mod(w8) \in {256, 65536} BY Ranges DEF Fits, Mod
<1>2. Num(c) \in {0, 1} BY DEF Num
<1> DEFINE k == Num(c)
           r == Shifted(f, v, c, w8)
<1> HIDE DEF k
<1>3. r \in Int /\ 0 <= r /\ r < Mod(w8)
  <2>1. CASE w8 = TRUE
    <3>1. Mod(w8) = 256 BY <2>1 DEF Mod
    <3>2. (2 * v) % 256 \in Int /\ 0 <= (2 * v) % 256 /\ (2 * v) % 256 <= 254 BY <1>1
    <3>3. v \div 2 \in Int /\ 0 <= v \div 2 /\ v \div 2 < 128 BY <1>1, <3>1
    <3> QED BY <1>2, <3>1, <3>2, <3>3 DEF Shifted, Trim, k
  <2>2. CASE w8 = FALSE
    <3>1. Mod(w8) = 65536 BY <2>2 DEF Mod
    <3>2. (2 * v) % 65536 \in Int /\ 0 <= (2 * v) % 65536 /\ (2 * v) % 65536 <= 65534 BY <1>1
    <3>3. v \div 2 \in Int /\ 0 <= v \div 2 /\ v \div 2 < 32768 BY <1>1, <3>1
    <3> QED BY <1>2, <3>1, <3>2, <3>3 DEF Shifted, Trim, k
  <2> QED BY <2>1, <2>2
<1> QED BY <1>3, Ranges DEF Fits, Mod

LEMMA ShiftGood ==
  ASSUME NEW s, Good(s), NEW ins, Decoded(ins), ins.op = "shift"
  PROVE  Good(Shift(s, ins))
<1> DEFINE w8 == M8(s)
           v  == Subject(s, ins, w8)
           r  == Shifted(ins.arg, v, s.p.c, w8)
           t  == [s EXCEPT !.p = WithC(@, Carry(ins.arg, v, w8))]
<1>1. ins.arg \in {"asl", "lsr", "rol", "ror"} /\ ins.mode \in InMemory \cup {"acc"} BY DEF Decoded
<1>2. w8 \in BOOLEAN BY Widths
<1>3. Fits(r, w8) BY <1>1, <1>2, SubjectType, ShiftedType
<1>4. Carry(ins.arg, v, w8) \in BOOLEAN
  <2>1. Negative(v, w8) \in BOOLEAN BY DEF Negative
  <2>2. (v % 2 = 1) \in BOOLEAN OBVIOUS
  <2> QED BY <2>1, <2>2 DEF Carry
<1>5. Good(t) BY <1>4, Fields, WithType, KeepP
<1> HIDE DEF w8, r, t
<1>6. Good(PutBack(t, ins, r, w8)) BY <1>1, <1>2, <1>3, <1>5, PutBackGood
<1>7. Good(NZ(PutBack(t, ins, r, w8), r, w8)) BY <1>6, NZType
<1> QED BY <1>7 DEF Shift, w8, r, t

LEMMA IncDecGood ==
  ASSUME NEW s, Good(s), NEW ins, Decoded(ins), ins.op = "incdec"
  PROVE  Good(IncDec(s, ins))
<1> DEFINE w8 == M8(s)
           k  == Subject(s, ins, w8) + StepBy(ins.arg)
           r  == Trim(k, w8)
<1>1. ins.mode \in InMemory \cup {"acc"} BY DEF Decoded
<1>2. w8 \in BOOLEAN BY Widths
<1>3. k \in Int
  <2>1. Subject(s, ins, w8) \in Int BY <1>2, SubjectType, Integer
  <2> QED BY <2>1 DEF StepBy
<1>4. Fits(r, w8) BY <1>2, <1>3, TrimType DEF Fits
<1> HIDE DEF w8, r
<1>5. Good(PutBack(s, ins, r, w8)) BY <1>1, <1>2, <1>4, PutBackGood
<1>6. Good(NZ(PutBack(s, ins, r, w8), r, w8)) BY <1>5, NZType
<1> QED BY <1>6 DEF IncDec, w8, r

LEMMA StepIndexGood ==
  ASSUME NEW s, Good(s), NEW ins, Decoded(ins), ins.op = "index"
  PROVE  Good(StepIndex(s, ins))
<1> DEFINE reg == ins.arg[1]
           k   == s[reg] + ins.arg[2]
           r   == Trim(k, X8(s))
<1>1. ins.arg \in {"x", "y"} \X {1, -1} BY DEF Decoded
<1>2. reg \in {"x", "y"} /\ ins.arg[2] \in Int BY <1>1
<1>3. s[reg] \in Word16 BY <1>2, Fields
<1>4. k \in Int BY <1>2, <1>3, Numbers
<1>5. X8(s) \in BOOLEAN BY Widths
<1>6. Fits(r, X8(s)) BY <1>4, <1>5, TrimType DEF Fits
<1> HIDE DEF r, reg
<1>7. Keep(s[reg], r, X8(s)) \in Word16 BY <1>3, <1>5, <1>6, KeepType DEF Fits
<1>8. Good([s EXCEPT ![reg] = Keep(@, r, X8(s))]) BY <1>2, <1>7, SetRegister
<1>9. Good(NZ([s EXCEPT ![reg] = Keep(@, r, X8(s))], r, X8(s))) BY <1>8, NZType
<1> QED BY <1>9 DEF StepIndex, r, reg

LEMMA TestBitsGood ==
  ASSUME NEW s, Good(s), NEW ins, Decoded(ins), ins.op = "testbits"
  PROVE  Good(TestBits(s, ins))
<1> DEFINE w8 == M8(s)
           v  == Subject(s, ins, w8)
           u  == Trim(s.a, w8)
           t  == [s EXCEPT !.p = WithZ(@, LogicWord("and", u, v))]
           w  == IF ins.arg = "tsb" THEN LogicWord("ora", v, u) ELSE LogicWord("and", v, Mod(w8) - 1 - u)
<1>1. ins.mode \in InMemory \cup {"acc"} BY DEF Decoded
<1>2. w8 \in BOOLEAN BY Widths
<1>3. Fits(v, w8) /\ Fits(u, w8) BY <1>2, SubjectType, AFits
<1>4. Fits(Mod(w8) - 1 - u, w8)
  <2> HIDE DEF w8, u
  <2> QED BY <1>2, <1>3, Ranges DEF Fits, Mod
<1>5. Fits(w, w8) BY <1>2, <1>3, <1>4, LogicWordType
<1>6. Good(t) BY Fields, WithType, KeepP
<1> HIDE DEF w8, t, w
<1>7. Good(PutBack(t, ins, w, w8)) BY <1>1, <1>2, <1>5, <1>6, PutBackGood
<1> QED BY <1>7 DEF TestBits, w8, t, w

-----------------------------------------------------------------------------
(* Jumps and the stack.                                                    *)

\* Jumps, calls and returns.
LEMMA BranchGood ==
  ASSUME NEW s, Good(s), NEW ins, Decoded(ins)
  PROVE  Good(Branch(s, ins))
<1>1. Relative(s, ins) \in Word16 BY RelativeType
<1> QED BY <1>1, SetRegister DEF Branch

LEMMA JumpGood ==
  ASSUME NEW s, Good(s), NEW ins, Decoded(ins), ins.mode \in {"a", "l", "(a)", "[a]", "(ax)"}
  PROVE  Good(Jump(s, ins))
<1>1. Target(s, ins) \in Word16 BY TargetType
<1>2. Bank(s, ins) \in Byte
  <2>1. ins.bank \in Byte /\ s.pbr \in Byte /\ \A k : Read(s, 0, k) \in Byte BY Form, Fields, Reading
  <2> QED BY <2>1 DEF Bank
<1> HIDE DEF Target, Bank
<1> QED BY <1>1, <1>2 DEF Jump, Good, Machine, Confined

LEMMA CallGood ==
  ASSUME NEW s, Good(s), NEW ins, Decoded(ins), ins.op = "call"
  PROVE  Good(Call(s, ins))
<1> DEFINE t == IF ins.mode = "l" THEN PushByte(s, s.pbr) ELSE s
<1>1. ins.mode \in {"a", "l", "(ax)"} BY DEF Decoded
<1>2. Good(t) BY Fields, PushByteGood
<1>3. Plus(s.pc, 65535) \in Word16 BY Fields, PlusType
<1> HIDE DEF t
<1>4. Good(PushWord(t, Plus(s.pc, 65535))) BY <1>2, <1>3, PushWordGood
<1>5. Good(Jump(PushWord(t, Plus(s.pc, 65535)), ins)) BY <1>1, <1>4, JumpGood
<1> QED BY <1>5 DEF Call, t

LEMMA ReturnInterruptGood ==
  ASSUME NEW s, Good(s)
  PROVE  Good(ReturnInterrupt(s))
<1> DEFINE t == Pull1(s)
           v == Pull2(t)
           q == FromByte(Top(t), s.e)
           w == [v EXCEPT !.p = q]
           u == [v EXCEPT !.p = q, !.pc = TopWord(t)]
<1>1. Good(t) /\ t.e = s.e BY Pull1Good DEF SameMode
<1>2. Good(v) /\ v.e = s.e BY <1>1, Pull2Good DEF SameMode
<1>3. q \in Status /\ (s.e = TRUE => Narrow(q)) BY Fields, FromByteType
<1>4. TopWord(t) \in Word16 BY <1>1, TopType
<1> HIDE DEF t, v, q
<1>5. Good(w) BY <1>2, <1>3, SetP
<1>6. Good([w EXCEPT !.pc = TopWord(t)]) BY <1>4, <1>5, SetRegister
<1>7. Good(u) BY <1>2, <1>6 DEF Good, Machine
<1> HIDE DEF u
<1>8. Good(Pull1(u)) /\ Top(Pull1(u)) \in Byte BY <1>7, Pull1Good, TopType
<1>9. Good([Pull1(u) EXCEPT !.pbr = Top(Pull1(u))]) BY <1>8, SetBank
<1> QED BY <1>7, <1>9 DEF ReturnInterrupt, t, v, q, u

LEMMA ReturnGood ==
  ASSUME NEW s, Good(s), NEW ins, Decoded(ins), ins.op = "return"
  PROVE  Good(Return(s, ins))
<1> DEFINE t == [Pull2(s) EXCEPT !.pc = Plus(TopWord(s), 1)]
<1>1. ins.arg \in {"rts", "rtl", "rti"} BY DEF Decoded
<1>2. Plus(TopWord(s), 1) \in Word16 BY TopType, PlusType
<1>3. Good(t) BY <1>2, Pull2Good, SetRegister
<1> HIDE DEF t
<1>4. Good(Pull1(t)) /\ Top(Pull1(t)) \in Byte BY <1>3, Pull1Good, TopType
<1>5. Good([Pull1(t) EXCEPT !.pbr = Top(Pull1(t))]) BY <1>4, SetBank
<1> QED BY <1>1, <1>3, <1>5, ReturnInterruptGood DEF Return, t

\* The stack instructions.
LEMMA PushGood ==
  ASSUME NEW s, Good(s), NEW ins, Decoded(ins), ins.op = "push"
  PROVE  Good(Push(s, ins))
<1>1. ins.arg \in {"a", "x", "y", "p", "dbr", "pbr", "dp"} BY DEF Decoded
<1>2. CASE ins.arg \in {"a", "x", "y"}
  <2>1. s[ins.arg] \in Word16 BY <1>2, Fields
  <2> QED BY <1>2, <2>1, PushWideGood DEF Push
<1>3. CASE ins.arg = "p"
  <2>1. ToByte(s.p, s.e) \in Byte BY Fields, ToByteType
  <2> QED BY <1>3, <2>1, PushByteGood DEF Push
<1>4. CASE ins.arg \in {"dbr", "pbr"}
  <2>1. s[ins.arg] \in Byte BY <1>4, Fields
  <2> QED BY <1>4, <2>1, PushByteGood DEF Push
<1>5. CASE ins.arg = "dp"
  <2>1. s.dp \in Word16 BY Fields
  <2> QED BY <1>5, <2>1, PushWordGood DEF Push
<1> QED BY <1>1, <1>2, <1>3, <1>4, <1>5

LEMMA SetStatusGood ==
  ASSUME NEW s, Good(s), NEW b
  PROVE  Good(SetStatus(s, b))
<1> DEFINE q == FromByte(b, s.e)
           t == [s EXCEPT !.p = q]
<1>1. q \in Status /\ (s.e = TRUE => Narrow(q)) BY Fields, FromByteType
<1> HIDE DEF q
<1>2. Good(t) BY <1>1, SetP
<1> HIDE DEF t
<1>3. Good([t EXCEPT !.x = @ % 256, !.y = @ % 256])
  <2> DEFINE x == t.x % 256
             y == t.y % 256
  <2>1. x \in Word16 /\ y \in Word16 BY <1>2, Fields, HalfType, Numbers
  <2> HIDE DEF x, y
  <2>2. Good([t EXCEPT !.x = x, !.y = y]) BY <1>2, <2>1 DEF Good, Machine, Confined
  <2> QED BY <2>2 DEF x, y
<1> QED BY <1>2, <1>3 DEF SetStatus, t, q

LEMMA PullGood ==
  ASSUME NEW s, Good(s), NEW ins, Decoded(ins), ins.op = "pull"
  PROVE  Good(Pull(s, ins))
<1> DEFINE w8 == CASE ins.arg \in {"a", "x", "y"} -> Width(s, ins.arg)
                   [] ins.arg \in {"p", "dbr"} -> TRUE
                   [] ins.arg = "dp" -> FALSE
           t  == IF w8 THEN Pull1(s) ELSE Pull2(s)
           v  == IF w8 THEN Top(t) ELSE TopWord(s)
<1>1. ins.arg \in {"a", "x", "y", "p", "dbr", "dp"} BY DEF Decoded
<1>2. Good(t) /\ t.e = s.e /\ t.p = s.p BY Pull1Good, Pull2Good DEF SameMode
<1>3. w8 \in BOOLEAN BY <1>1, Widths
<1>4. Top(t) \in Byte /\ TopWord(s) \in Word16 BY <1>2, TopType
<1> HIDE DEF w8, t
<1>5. Fits(v, w8) BY <1>3, <1>4, Numbers DEF Fits
<1> HIDE DEF v
<1>6. CASE ins.arg \in {"a", "x", "y"}
  <2>1. w8 = Width(t, ins.arg) BY <1>2, <1>6 DEF w8, Width, M8, X8
  <2>2. Good(LoadReg(t, ins.arg, v)) BY <1>2, <1>5, <1>6, <2>1, LoadRegGood
  <2> QED BY <1>6, <2>2 DEF Pull, w8, t, v
<1>7. CASE ins.arg = "p"
  <2>1. Good(SetStatus(t, v)) BY <1>2, SetStatusGood
  <2> QED BY <1>7, <2>1 DEF Pull, w8, t, v
<1>8. CASE ins.arg \in {"dbr", "dp"}
  <2>3. Good([t EXCEPT ![ins.arg] = v])
    <3>1. CASE ins.arg = "dbr"
      <4>1. v \in Byte BY <1>5, <3>1 DEF Fits, w8
      <4> QED BY <1>2, <3>1, <4>1, SetBank
    <3>2. CASE ins.arg = "dp"
      BY <1>2, <1>5, <3>2, SetRegister DEF Fits
    <3> QED BY <1>8, <3>1, <3>2
  <2>4. Good(NZ([t EXCEPT ![ins.arg] = v], v, w8)) BY <2>3, NZType
  <2> QED BY <1>8, <2>4 DEF Pull, w8, t, v
<1> QED BY <1>1, <1>6, <1>7, <1>8

LEMMA PushEffectiveGood ==
  ASSUME NEW s, Good(s), NEW ins, Decoded(ins), ins.op = "effective"
  PROVE  Good(PushEffective(s, ins))
<1>1. ins.arg \in {"pea", "pei", "per"} BY DEF Decoded
<1>2. ins.n \in Word16 /\ ReadWord(s, 0, Direct(s, ins)) \in Word16 /\ Relative(s, ins) \in Word16
  BY Form, ReadWordType, RelativeType
<1> QED BY <1>1, <1>2, PushWordGood DEF PushEffective

-----------------------------------------------------------------------------
(* Transfers, flags and moves.                                             *)

\* Transfers; those to the stack pointer stay in page 1.
LEMMA ToStackGood ==
  ASSUME NEW s, Good(s), NEW v \in Word16
  PROVE  Good(ToStack(s, v))
BY Page1Type, SetSp DEF ToStack

LEMMA TransferGood ==
  ASSUME NEW s, Good(s), NEW ins, Decoded(ins), ins.op = "transfer"
  PROVE  Good(Transfer(s, ins))
<1> DEFINE from == ins.arg[1]
           to   == ins.arg[2]
           w8   == from # "dp" /\ to # "dp" /\ ~(from = "sp" /\ to = "a") /\ Width(s, to)
           v    == Trim(s[from], w8)
           k    == IF from = "sp" THEN v ELSE Keep(s[to], v, w8)
<1>1. ins.arg \in Copies BY DEF Decoded
<1>2. from \in {"a", "x", "y", "sp", "dp"} /\ to \in {"a", "x", "y", "sp", "dp"} BY <1>1 DEF Copies
<1>3. s[from] \in Word16 /\ s[to] \in Word16 BY <1>2, Fields
<1>4. w8 \in BOOLEAN BY Widths
<1> HIDE DEF from, to, w8
<1>5. v \in Word16 /\ (w8 => v \in Byte) BY <1>3, <1>4, Numbers, TrimType
<1> HIDE DEF v
<1>6. k \in Word16 BY <1>3, <1>4, <1>5, KeepType
<1> HIDE DEF k
<1>7. CASE to = "sp"
  <2>1. Good(ToStack(s, s[from])) BY <1>3, ToStackGood
  <2> QED BY <1>7, <2>1 DEF Transfer, from, to
<1>8. CASE to # "sp"
  <2>1. Good([s EXCEPT ![to] = k]) BY <1>2, <1>6, <1>8, SetRegister
  <2>2. Good(NZ([s EXCEPT ![to] = k], v, w8)) BY <2>1, NZType
  <2>3. [s EXCEPT ![to] = k] = [s EXCEPT ![to] = IF from = "sp" THEN v ELSE Keep(@, v, w8)] BY DEF k
  <2> QED BY <1>8, <2>2, <2>3 DEF Transfer, from, to, w8, v
<1> QED BY <1>7, <1>8

\* Flags, the status as a whole, and the exchange with the emulation flag.
LEMMA SetFlagGood ==
  ASSUME NEW s, Good(s), NEW ins, Decoded(ins), ins.op = "flag"
  PROVE  Good(SetFlag(s, ins))
<1> DEFINE f == ins.arg[1]
           b == ins.arg[2]
           q == [s.p EXCEPT ![f] = b]
<1>1. ins.arg \in {"c", "d", "i", "v"} \X BOOLEAN BY DEF Decoded
<1>2. f \in {"c", "d", "i", "v"} /\ b \in BOOLEAN BY <1>1
<1>3. s.p \in Status BY Fields
<1> HIDE DEF f, b
<1>4. Kept(s.p, q) BY <1>2, <1>3 DEF Kept, Narrow, Status
<1> HIDE DEF q
<1>5. Good([s EXCEPT !.p = q]) BY <1>4, KeepP
<1> QED BY <1>5 DEF SetFlag, q, f, b

LEMMA SetBitsGood ==
  ASSUME NEW s, Good(s), NEW ins
  PROVE  Good(SetBits(s, ins))
<1> DEFINE b == LogicByte("and", ToByte(s.p, s.e), 255 - ins.n)
<1> HIDE DEF b
<1>1. FromByte(b, s.e) \in Status /\ (s.e = TRUE => Narrow(FromByte(b, s.e))) BY Fields, FromByteType
<1>2. Good([s EXCEPT !.p = FromByte(b, s.e)]) BY <1>1, SetP
<1> QED BY <1>2, SetStatusGood DEF SetBits, b

LEMMA ExchangeCEGood ==
  ASSUME NEW s, Good(s)
  PROVE  Good(ExchangeCE(s))
<1> DEFINE q  == [s.p EXCEPT !.c = s.e, !.m = TRUE, !.x = TRUE]
           x  == s.x % 256
           y  == s.y % 256
           sp == 256 + (s.sp % 256)
           o  == WithC(s.p, s.e)
<1>1. s.e \in BOOLEAN /\ s.p \in Status BY Fields
<1>2. q \in Status /\ Narrow(q) BY <1>1 DEF Status, Narrow
<1>3. x \in Word16 /\ y \in Word16 BY Fields, HalfType, Numbers
<1>4. sp \in Word16 /\ Hi(sp) = 1
  <2>1. s.sp % 256 \in Byte BY Fields, HalfType
  <2> QED BY <2>1, Ranges DEF Hi
<1>5. o \in Status BY <1>1, WithType DEF Kept
<1> HIDE DEF q, x, y, sp, o
<1>6. Good([s EXCEPT !.p = q, !.e = TRUE, !.x = x, !.y = y, !.sp = sp])
  BY <1>2, <1>3, <1>4 DEF Good, Machine, Confined
<1>7. Good([s EXCEPT !.p = o, !.e = FALSE]) BY <1>5 DEF Good, Machine, Confined
<1> QED BY <1>6, <1>7 DEF ExchangeCE, q, x, y, sp, o

LEMMA ExchangeBAGood ==
  ASSUME NEW s, Good(s)
  PROVE  Good(ExchangeBA(s))
<1>1. Word(Hi(s.a), s.a % 256) \in Word16 BY Fields, HalfType, WordType
<1>2. Good([s EXCEPT !.a = Word(Hi(@), @ % 256)]) BY <1>1, SetRegister
<1> QED BY <1>2, NZType DEF ExchangeBA

\* One byte of a block move.
LEMMA BlockMoveGood ==
  ASSUME NEW s, Good(s), NEW ins, Decoded(ins), ins.op = "move"
  PROVE  Good(BlockMove(s, ins))
<1> DEFINE d == IF ins.arg = "mvn" THEN 1 ELSE 65535
           w == Write(s, ins.n, s.y, Read(s, ins.bank, s.x))
           t == [w EXCEPT !.dbr = ins.n, !.x = Plus(@, d), !.y = Plus(@, d), !.a = Plus(@, 65535)]
<1>1. ins.n \in Byte BY Form DEF Decoded, OneByte
<1>2. Good(w) BY <1>1, Fields, Reading, Writing
<1>3. d \in Int OBVIOUS
<1> HIDE DEF d, w
<1>4. Plus(w.x, d) \in Word16 /\ Plus(w.y, d) \in Word16 /\ Plus(w.a, 65535) \in Word16
  BY <1>2, <1>3, Fields, PlusType
<1>5. Good(t)
  <2> DEFINE x == Plus(w.x, d)
             y == Plus(w.y, d)
             a == Plus(w.a, 65535)
  <2>1. x \in Word16 /\ y \in Word16 /\ a \in Word16 BY <1>4
  <2> HIDE DEF x, y, a
  <2>2. Good([w EXCEPT !.dbr = ins.n, !.x = x, !.y = y, !.a = a])
    BY <1>1, <1>2, <2>1 DEF Good, Machine, Confined
  <2> QED BY <2>2 DEF x, y, a
<1> HIDE DEF t
<1>6. Plus(t.pc, 65533) \in Word16 BY <1>5, Fields, PlusType
<1>7. Good([t EXCEPT !.pc = Plus(@, 65533)]) BY <1>5, <1>6, SetRegister
<1> QED BY <1>5, <1>7 DEF BlockMove, t, w, d

-----------------------------------------------------------------------------
(* Interrupts, and an instruction.                                         *)

\* The entry of a handler.
LEMMA EnterGood ==
  ASSUME NEW s, Good(s), NEW p \in Byte, NEW vecE, NEW vecN
  PROVE  Good(Enter(s, p, vecE, vecN))
<1> DEFINE r == IF s.e THEN s ELSE PushByte(s, s.pbr)
           t == PushByte(PushWord(r, s.pc), p)
           q == Masked(t.p)
           b == IF s.e THEN t.pbr ELSE 0
           k == ReadWord(t, 0, IF s.e THEN vecE ELSE vecN)
<1>1. Good(r) BY Fields, PushByteGood
<1> HIDE DEF r
<1>2. Good(PushWord(r, s.pc)) BY <1>1, Fields, PushWordGood
<1>3. Good(t) BY <1>2, PushByteGood
<1> HIDE DEF t
<1>4. Kept(t.p, q) BY <1>3, Fields, WithType
<1>5. b \in Byte BY <1>3, Fields, Numbers
<1>6. k \in Word16 BY <1>3, ReadWordType
<1> HIDE DEF q, b, k
<1>7. Good([t EXCEPT !.p = q, !.pbr = b, !.pc = k])
  BY <1>3, <1>4, <1>5, <1>6 DEF Good, Machine, Confined, Kept
<1> QED BY <1>7 DEF Enter, r, t, q, b, k

LEMMA HandlerGood ==
  ASSUME NEW s, Good(s)
  PROVE  Good(Nmi(s)) /\ Good(Irq(s)) /\ Good(Brk(s)) /\ Good(Cop(s))
<1> DEFINE p == ToByte(s.p, s.e)
<1>1. s.p \in Status /\ s.e \in BOOLEAN /\ s.p.x \in BOOLEAN BY Fields, Flags
<1>2. p \in Byte /\ (s.p.x = TRUE => p - 16 \in Byte) /\ (s.p.x = FALSE => p + 16 \in Byte)
  BY <1>1, ToByteType
<1>3. Good([s EXCEPT !.nmi = FALSE]) /\ Good([s EXCEPT !.irq = FALSE]) BY DEF Good, Machine, Confined
<1> HIDE DEF p
<1>4. (IF s.e /\ s.p.x THEN p - 16 ELSE p) \in Byte /\ (IF s.e /\ ~s.p.x THEN p + 16 ELSE p) \in Byte
  BY <1>1, <1>2
<1> QED BY <1>2, <1>3, <1>4, EnterGood DEF Nmi, Irq, Brk, Cop, p

\* Every instruction that decodes leaves a machine that is Good.
LEMMA ExecutedGood ==
  ASSUME NEW s, Good(s), NEW ins, Decoded(ins)
  PROVE  Good(Executed(s, ins))
<1>1. CASE ins.op \in {"load", "store", "logic", "arith", "compare", "bit"}
  <2>1. ins.op = "load" => Good(Load(s, ins)) BY LoadGood
  <2>2. ins.op = "store" => Good(Store(s, ins)) BY StoreGood
  <2>3. ins.op = "logic" => Good(Logic(s, ins)) BY LogicGood
  <2>4. ins.op = "arith" => Good(Arith(s, ins)) BY ArithGood
  <2>5. Good(Compare(s, ins)) /\ Good(BitTest(s, ins)) BY CompareGood, BitTestGood
  <2> QED BY <1>1, <2>1, <2>2, <2>3, <2>4, <2>5 DEF Executed
<1>2. CASE ins.op \in {"shift", "incdec", "index", "testbits"}
  <2>1. ins.op = "shift" => Good(Shift(s, ins)) BY ShiftGood
  <2>2. ins.op = "incdec" => Good(IncDec(s, ins)) BY IncDecGood
  <2>3. ins.op = "index" => Good(StepIndex(s, ins)) BY StepIndexGood
  <2>4. ins.op = "testbits" => Good(TestBits(s, ins)) BY TestBitsGood
  <2> QED BY <1>2, <2>1, <2>2, <2>3, <2>4 DEF Executed
<1>3. CASE ins.op \in {"branch", "jump", "call", "return"}
  <2>1. Good(Branch(s, ins)) BY BranchGood
  <2>2. ASSUME ins.op = "jump" PROVE Good(Jump(s, ins))
    <3>1. ins.mode \in {"a", "l", "(a)", "[a]", "(ax)"} BY <2>2 DEF Decoded
    <3> QED BY <3>1, JumpGood
  <2>3. ins.op = "call" => Good(Call(s, ins)) BY CallGood
  <2>4. ins.op = "return" => Good(Return(s, ins)) BY ReturnGood
  <2> QED BY <1>3, <2>1, <2>2, <2>3, <2>4 DEF Executed
<1>4. CASE ins.op \in {"push", "pull", "effective", "transfer", "flag"}
  <2>1. ins.op = "push" => Good(Push(s, ins)) BY PushGood
  <2>2. ins.op = "pull" => Good(Pull(s, ins)) BY PullGood
  <2>3. ins.op = "effective" => Good(PushEffective(s, ins)) BY PushEffectiveGood
  <2>4. ins.op = "transfer" => Good(Transfer(s, ins)) BY TransferGood
  <2>5. ins.op = "flag" => Good(SetFlag(s, ins)) BY SetFlagGood
  <2> QED BY <1>4, <2>1, <2>2, <2>3, <2>4, <2>5 DEF Executed
<1>5. CASE ins.op \in {"bits", "xce", "xba", "move", "brk", "cop"}
  <2>1. Good(SetBits(s, ins)) /\ Good(ExchangeCE(s)) /\ Good(ExchangeBA(s))
    BY SetBitsGood, ExchangeCEGood, ExchangeBAGood
  <2>2. ins.op = "move" => Good(BlockMove(s, ins)) BY BlockMoveGood
  <2>3. Good(Brk(s)) /\ Good(Cop(s)) BY HandlerGood
  <2> QED BY <1>5, <2>1, <2>2, <2>3 DEF Executed
<1>6. CASE ins.op \in {"nop", "wdm", "stp", "wai"}
  <2>1. Good([s EXCEPT !.stopped = TRUE]) /\ Good([s EXCEPT !.waiting = TRUE])
    BY DEF Good, Machine, Confined
  <2> QED BY <1>6, <2>1 DEF Executed
<1>7. ins.op \in {"load", "store", "logic", "arith", "compare", "bit", "shift", "incdec", "index", "testbits",
                  "branch", "jump", "call", "return", "push", "pull", "effective", "transfer", "flag",
                  "bits", "xce", "xba", "move", "brk", "cop", "nop", "wdm", "stp", "wai"}
  BY DEF Decoded
<1> QED BY <1>1, <1>2, <1>3, <1>4, <1>5, <1>6, <1>7

-----------------------------------------------------------------------------
(* Types and emulation mode.                                               *)

\* The inductive invariant.
Inv == program \in Names /\ raised \in 0..It.requests /\ Good(cpu)

\* The inductive invariant holds after power-on ...
LEMMA InitInv == Init => Inv
<1> SUFFICES ASSUME Init PROVE Inv OBVIOUS
<1> USE DEF It
<1>1. program \in Names /\ raised = 0 BY DEF Init
<1>2. It.requests \in Nat /\ It.mem \in [DOMAIN It.mem -> Byte] /\ DOMAIN It.mem \subseteq Address
  BY <1>1, CpuAssumption
<1> DEFINE s == [a |-> 0, x |-> 0, y |-> 0, sp |-> 511, dp |-> 0, pc |-> 0, pbr |-> 0, dbr |-> 0,
                 p |-> PowerOnStatus, e |-> TRUE, nmi |-> FALSE, irq |-> FALSE,
                 stopped |-> FALSE, waiting |-> FALSE, mem |-> It.mem]
<1>3. Good(s)
  <2>1. It.mem \in Memory BY <1>2 DEF Memory
  <2>2. 0 \in Byte /\ 0 \in Word16 /\ 511 \in Word16 BY Ranges
  <2>3. PowerOnStatus \in Status /\ Narrow(PowerOnStatus) BY DEF PowerOnStatus, Status, Narrow
  <2>4. Hi(511) = 1 BY DEF Hi
  <2> HIDE DEF It
  <2> QED BY <2>1, <2>2, <2>3, <2>4 DEF Good, Machine, Confined
<1>4. Good([s EXCEPT !.pc = ReadWord(s, 0, 65532)])
  <2> HIDE DEF s
  <2>1. ReadWord(s, 0, 65532) \in Word16 BY <1>3, ReadWordType
  <2> QED BY <1>3, <2>1, SetRegister
<1>5. cpu = [s EXCEPT !.pc = ReadWord(s, 0, 65532)] BY DEF Init, Reset
<1> QED BY <1>1, <1>2, <1>4, <1>5 DEF Inv

\* ... and every request, interrupt and instruction keeps it.
LEMMA StepInv == Inv /\ [Next]_vars => Inv'
<1> SUFFICES ASSUME Inv, [Next]_vars PROVE Inv' OBVIOUS
<1>0. program \in Names /\ raised \in 0..It.requests /\ Good(cpu) BY DEF Inv
<1>1. CASE Request
  <2>1. Good([cpu EXCEPT !.nmi = TRUE]) /\ Good([cpu EXCEPT !.irq = TRUE])
    BY <1>0 DEF Good, Machine, Confined
  <2>2. Good(cpu') BY <1>1, <2>1 DEF Request
  <2>3. program' = program /\ raised' = raised + 1 /\ raised < It.requests BY <1>1 DEF Request
  <2>4. It.requests \in Nat BY <1>0, CpuAssumption DEF It
  <2> QED BY <1>0, <2>2, <2>3, <2>4 DEF Inv, It
<1>2. ASSUME TakeNmi \/ TakeIrq PROVE Inv'
  <2>1. Good([cpu EXCEPT !.waiting = FALSE]) BY <1>0 DEF Good, Machine, Confined
  <2>2. Good(Nmi([cpu EXCEPT !.waiting = FALSE])) /\ Good(Irq([cpu EXCEPT !.waiting = FALSE]))
    BY <2>1, HandlerGood
  <2> QED BY <1>0, <1>2, <2>2 DEF TakeNmi, TakeIrq, Inv, It
<1>3. CASE Instruction
  <2>1. Decoded(It.code[Here]) BY <1>0, <1>3, CpuAssumption DEF Instruction, It
  <2>2. Good(Executed(Fetched(cpu, It.code[Here]), It.code[Here])) BY <1>0, <2>1, FetchedGood, ExecutedGood
  <2> QED BY <1>0, <1>3, <2>2 DEF Instruction, Inv, It
<1>4. CASE UNCHANGED vars BY <1>0, <1>4 DEF vars, Inv, It
<1> QED BY <1>1, <1>2, <1>3, <1>4 DEF Next

\* Every register keeps its width, whatever is added, pushed, pulled or moved, and every
\* address written has 24 bits (cpu/mod.rs:50-120, cpu/instructions.rs).
THEOREM RegistersKeepWidth == Spec => []TypeOK
<1>1. Inv => TypeOK
  <2> SUFFICES ASSUME Inv PROVE TypeOK OBVIOUS
  <2>1. program \in Names /\ raised \in 0..It.requests /\ Good(cpu) BY DEF Inv
  <2>2. cpu.mem \in Memory BY <2>1 DEF Good, Machine
  <2>3. DOMAIN cpu.mem \subseteq Address /\ \A k \in DOMAIN cpu.mem : cpu.mem[k] \in Byte
    BY <2>2 DEF Memory
  <2>4. \A reg \in {"e", "nmi", "irq", "stopped", "waiting"} : cpu[reg] \in BOOLEAN
    BY <2>1 DEF Good, Machine
  <2> QED BY <2>1, <2>3, <2>4, Fields DEF TypeOK
<1> QED BY <1>1, InitInv, StepInv, PTL DEF Spec

\* No sequence of instructions and interrupts leaves emulation mode with a stack outside
\* page 1 or a 16-bit register (cpu/mod.rs:63-79, 503-528).
THEOREM EmulationStaysConfined == Spec => []EmulationConfined
<1>1. Inv => EmulationConfined
  BY Fields DEF Inv, Good, Confined, Narrow, EmulationConfined
<1> QED BY <1>1, InitInv, StepInv, PTL DEF Spec

-----------------------------------------------------------------------------
(* Digits.                                                                 *)

Upto(v, n) == v \in Int /\ 0 <= v /\ v <= n

Composed(v, d0, d1, d2, d3) == v = d0 + 16 * d1 + 256 * d2 + 4096 * d3

\* The digits of a number composed of digits, and back.
LEMMA DigitsAre ==
  ASSUME NEW v, NEW d0, NEW d1, NEW d2, NEW d3,
         Upto(d0, 15), Upto(d1, 15), Upto(d2, 15), Upto(d3, 15), Composed(v, d0, d1, d2, d3)
  PROVE  Digit(v, 1) = d0 /\ Digit(v, 16) = d1 /\ Digit(v, 256) = d2 /\ Digit(v, 4096) = d3
<1>1. v \in Int BY DEF Upto, Composed
<1>2. v \div 1 = v BY <1>1
<1>3. v \div 16 = d1 + 16 * d2 + 256 * d3 BY DEF Upto, Composed
<1>4. v \div 256 = d2 + 16 * d3 BY DEF Upto, Composed
<1>5. v \div 4096 = d3 BY DEF Upto, Composed
<1>6. v % 16 = d0 BY DEF Upto, Composed
<1>7. (d1 + 16 * d2 + 256 * d3) % 16 = d1 BY DEF Upto
<1>8. (d2 + 16 * d3) % 16 = d2 BY DEF Upto
<1>9. d3 % 16 = d3 BY DEF Upto
<1> QED BY <1>2, <1>3, <1>4, <1>5, <1>6, <1>7, <1>8, <1>9 DEF Digit

LEMMA DigitsOf ==
  ASSUME NEW v \in Word16
  PROVE  /\ Composed(v, Digit(v, 1), Digit(v, 16), Digit(v, 256), Digit(v, 4096))
         /\ Upto(Digit(v, 1), 15) /\ Upto(Digit(v, 16), 15)
         /\ Upto(Digit(v, 256), 15) /\ Upto(Digit(v, 4096), 15)
<1>1. v \in Int /\ 0 <= v /\ v < 65536 BY Ranges
<1> DEFINE q1 == v \div 16
           q2 == v \div 256
           q3 == v \div 4096
<1>2. v \div 1 = v BY <1>1
<1>3. q1 \in Int /\ v = 16 * q1 + (v % 16) /\ v % 16 \in Int /\ 0 <= v % 16 /\ v % 16 <= 15 BY <1>1
<1>4. q2 \in Int /\ q1 = 16 * q2 + (q1 % 16) /\ q1 % 16 \in Int /\ 0 <= q1 % 16 /\ q1 % 16 <= 15 BY <1>1
<1>5. q3 \in Int /\ q2 = 16 * q3 + (q2 % 16) /\ q2 % 16 \in Int /\ 0 <= q2 % 16 /\ q2 % 16 <= 15 BY <1>1
<1>6. 0 <= q3 /\ q3 <= 15 BY <1>1
<1>7. q3 % 16 = q3 BY <1>5, <1>6
<1> HIDE DEF q1, q2, q3
<1> QED BY <1>1, <1>2, <1>3, <1>4, <1>5, <1>6, <1>7 DEF Digit, Upto, Composed, q1, q2, q3

\* Adding a digit of two decimal numbers.
Sum(u, v, w, k) == Digit(u, w) + Digit(v, w) + k
Up(n) == IF n > 9 THEN 1 ELSE 0

\* One step of the addition: with a carry k into the digit it leaves the decimal digit
\* of the sum, and the carry above it.
LEMMA DigitAdded ==
  ASSUME NEW u, NEW v, NEW w \in {1, 16, 256, 4096}, Upto(Digit(u, w), 9), Upto(Digit(v, w), 9),
         NEW k \in {0, 1}, NEW low \in Int, 0 <= low, low < w
  PROVE  LET n == Sum(u, v, w, k)
             r == n - 10 * Up(n)
         IN  /\ AddDigit(low + w * k, u, v, w) = (low + w * r) + 16 * w * Up(n)
             /\ Up(n) \in {0, 1} /\ Upto(r, 9) /\ n = r + 10 * Up(n)
             /\ low + w * r \in Int /\ 0 <= low + w * r /\ low + w * r < 16 * w
<1> DEFINE a == Digit(u, w)
           b == Digit(v, w)
           n == a + b + k
           r == n - 10 * Up(n)
<1> HIDE DEF a, b
<1>1. a \in Int /\ 0 <= a /\ a <= 9 /\ b \in Int /\ 0 <= b /\ b <= 9 BY DEF Upto, a, b
<1>2. n \in Int /\ 0 <= n /\ n <= 19 BY <1>1
<1>3. Up(n) \in {0, 1} /\ Upto(r, 9) /\ n = r + 10 * Up(n) BY <1>2 DEF Up, Upto
<1>4. AddDigit(low + w * k, u, v, w) = IF low + w * n > 10 * w - 1 THEN low + w * n + 6 * w ELSE low + w * n
  <2>1. low + w * k + (a + b) * w = low + w * n BY <1>1
  <2> QED BY <2>1 DEF AddDigit, a, b
<1>5. AddDigit(low + w * k, u, v, w) = (low + w * r) + 16 * w * Up(n)
  <2>1. CASE n > 9
    <3>1. Up(n) = 1 /\ r = n - 10 BY <2>1, <1>2 DEF Up
    <3>2. low + w * n > 10 * w - 1 BY <2>1, <1>2
    <3>3. low + w * n + 6 * w = (low + w * (n - 10)) + 16 * w BY <1>2
    <3> QED BY <1>4, <3>1, <3>2, <3>3
  <2>2. CASE ~(n > 9)
    <3>1. Up(n) = 0 /\ r = n BY <2>2, <1>2 DEF Up
    <3>2. ~(low + w * n > 10 * w - 1) BY <2>2, <1>2
    <3>3. low + w * n = (low + w * n) + 16 * w * 0 BY <1>2
    <3> HIDE DEF n, r
    <3> QED BY <1>4, <3>1, <3>2, <3>3
  <2> QED BY <2>1, <2>2
<1>6. low + w * r \in Int /\ 0 <= low + w * r /\ low + w * r < 16 * w BY <1>3 DEF Upto
<1> QED BY <1>3, <1>5, <1>6 DEF Sum, a, b

\* What an accumulator holds after decimal digits have been added or subtracted.
Holds(v, d0, d1, d2, d3) ==
  /\ Upto(d0, 9) /\ Upto(d1, 9) /\ Upto(d2, 9) /\ Upto(d3, 9)
  /\ Composed(v, d0, d1, d2, d3)

\* A number of decimal digits, and the value they stand for.
LEMMA HoldsDigits ==
  ASSUME NEW v, NEW d0, NEW d1, NEW d2, NEW d3, Holds(v, d0, d1, d2, d3), NEW w8 \in BOOLEAN
  PROVE  /\ Decimal(v) /\ v \in Int /\ 0 <= v /\ v < 65536
         /\ Value(v, w8) = IF w8 THEN d0 + 10 * d1 ELSE d0 + 10 * d1 + 100 * d2 + 1000 * d3
<1>1. Digit(v, 1) = d0 /\ Digit(v, 16) = d1 /\ Digit(v, 256) = d2 /\ Digit(v, 4096) = d3
  <2>1. Upto(d0, 15) /\ Upto(d1, 15) /\ Upto(d2, 15) /\ Upto(d3, 15) BY DEF Holds, Upto
  <2> QED BY <2>1, DigitsAre DEF Holds
<1>2. Decimal(v) BY <1>1 DEF Decimal, Holds, Upto
<1>3. v \in Int /\ 0 <= v /\ v < 65536 BY DEF Holds, Upto, Composed
<1>4. Value(v, w8) = IF w8 THEN d0 + 10 * d1 ELSE d0 + 10 * d1 + 100 * d2 + 1000 * d3
  <2>1. d0 \in Int /\ d1 \in Int /\ d2 \in Int /\ d3 \in Int BY DEF Holds, Upto
  <2> HIDE DEF Digit
  <2> QED BY <1>1, <2>1 DEF Value
<1> QED BY <1>2, <1>3, <1>4

LEMMA DecimalDigits ==
  ASSUME NEW v \in Word16, Decimal(v)
  PROVE  Holds(v, Digit(v, 1), Digit(v, 16), Digit(v, 256), Digit(v, 4096))
BY DigitsOf DEF Decimal, Holds, Upto

\* The sum of decimal operands, its carry and its value.
SumExact(u, v, c, w8) ==
  LET t == DecimalSum(u, v, c, w8)
      x == Value(u, w8) + Value(v, w8) + c
      q == IF w8 THEN 100 ELSE 10000
  IN  /\ (t >= Mod(w8)) = (x >= q)
      /\ Value(Trim(t, w8), w8) = x % q /\ Decimal(Trim(t, w8))

\* The sum, by its four digits and the carries between them.
LEMMA DecimalSumExact ==
  ASSUME NEW u \in Word16, Decimal(u), NEW v \in Word16, Decimal(v), NEW c \in {0, 1},
         NEW w8 \in BOOLEAN
  PROVE  SumExact(u, v, c, w8)
<1> DEFINE n0 == Sum(u, v, 1, c)
           k0 == Up(n0)
           r0 == n0 - 10 * k0
           n1 == Sum(u, v, 16, k0)
           k1 == Up(n1)
           r1 == n1 - 10 * k1
           n2 == Sum(u, v, 256, k1)
           k2 == Up(n2)
           r2 == n2 - 10 * k2
           n3 == Sum(u, v, 4096, k2)
           k3 == Up(n3)
           r3 == n3 - 10 * k3
           t1 == AddDigit(c, u, v, 1)
           t2 == AddDigit(t1, u, v, 16)
           t3 == AddDigit(t2, u, v, 256)
           t4 == AddDigit(t3, u, v, 4096)
<1>1. \A w \in {1, 16, 256, 4096} : Upto(Digit(u, w), 9) /\ Upto(Digit(v, w), 9)
  BY DecimalDigits DEF Holds
<1>2. /\ AddDigit(0 + 1 * c, u, v, 1) = (0 + 1 * r0) + 16 * 1 * k0
      /\ k0 \in {0, 1} /\ Upto(r0, 9) /\ n0 = r0 + 10 * k0
  BY <1>1, DigitAdded
<1>3. t1 = r0 + 16 * k0 /\ r0 \in Int /\ 0 <= r0 /\ r0 < 16
  <2>1. 0 + 1 * c = c OBVIOUS
  <2>2. r0 \in Int /\ 0 <= r0 /\ r0 <= 9 BY <1>2 DEF Upto
  <2> HIDE DEF r0, k0
  <2> QED BY <1>2, <2>1, <2>2 DEF t1
<1> HIDE DEF t1
<1>4. /\ t2 = (r0 + 16 * r1) + 16 * 16 * k1
      /\ k1 \in {0, 1} /\ Upto(r1, 9) /\ n1 = r1 + 10 * k1
      /\ r0 + 16 * r1 \in Int /\ 0 <= r0 + 16 * r1 /\ r0 + 16 * r1 < 256
  BY <1>1, <1>2, <1>3, DigitAdded
<1>5. t2 = (r0 + 16 * r1) + 256 * k1 BY <1>4
<1> HIDE DEF t2
<1>6. /\ t3 = (r0 + 16 * r1 + 256 * r2) + 16 * 256 * k2
      /\ k2 \in {0, 1} /\ Upto(r2, 9) /\ n2 = r2 + 10 * k2
      /\ r0 + 16 * r1 + 256 * r2 \in Int /\ 0 <= r0 + 16 * r1 + 256 * r2
      /\ r0 + 16 * r1 + 256 * r2 < 4096
  BY <1>1, <1>4, <1>5, DigitAdded
<1>7. t3 = (r0 + 16 * r1 + 256 * r2) + 4096 * k2 BY <1>6
<1> HIDE DEF t3
<1>8. /\ t4 = (r0 + 16 * r1 + 256 * r2 + 4096 * r3) + 16 * 4096 * k3
      /\ k3 \in {0, 1} /\ Upto(r3, 9) /\ n3 = r3 + 10 * k3
  BY <1>1, <1>6, <1>7, DigitAdded
<1>9. t4 = (r0 + 16 * r1 + 256 * r2 + 4096 * r3) + 65536 * k3 BY <1>8
<1> HIDE DEF r0, r1, r2, r3, k0, k1, k2, k3
<1> DEFINE a(w) == Digit(u, w)
           b(w) == Digit(v, w)
<1>10. /\ r0 + 10 * k0 = a(1) + b(1) + c /\ r1 + 10 * k1 = a(16) + b(16) + k0
       /\ r2 + 10 * k2 = a(256) + b(256) + k1 /\ r3 + 10 * k3 = a(4096) + b(4096) + k2
  BY <1>2, <1>4, <1>6, <1>8 DEF Sum
<1>11. \A w \in {1, 16, 256, 4096} : a(w) \in Int /\ b(w) \in Int BY <1>1 DEF Upto
<1> DEFINE x == Value(u, w8) + Value(v, w8) + c
<1>12. x = IF w8 THEN (r0 + 10 * r1) + 100 * k1 ELSE (r0 + 10 * r1 + 100 * r2 + 1000 * r3) + 10000 * k3
  <2>1. Value(u, w8) = (IF w8 THEN a(1) + 10 * a(16) ELSE a(1) + 10 * a(16) + 100 * a(256) + 1000 * a(4096))
    BY DEF Value
  <2>2. Value(v, w8) = (IF w8 THEN b(1) + 10 * b(16) ELSE b(1) + 10 * b(16) + 100 * b(256) + 1000 * b(4096))
    BY DEF Value
  <2>3. /\ r0 \in Int /\ r1 \in Int /\ r2 \in Int /\ r3 \in Int
        /\ k0 \in Int /\ k1 \in Int /\ k2 \in Int /\ k3 \in Int
    BY <1>2, <1>4, <1>6, <1>8 DEF Upto
  <2> HIDE DEF a, b
  <2> QED BY <1>10, <1>11, <2>1, <2>2, <2>3
<1>13. DecimalSum(u, v, c, w8) = IF w8 THEN t2 ELSE t4 BY DEF DecimalSum, t1, t2, t3
<1> HIDE DEF t4, x
<1>14. CASE w8
  <2> DEFINE z == r0 + 16 * r1 + 256 * 0 + 4096 * 0
  <2>1. Holds(z, r0, r1, 0, 0) BY <1>2, <1>4 DEF Holds, Upto, Composed
  <2>2. DecimalSum(u, v, c, w8) = z + 256 * k1 BY <1>5, <1>13, <1>14, <1>2, <1>4 DEF Upto
  <2>3. z \in Int /\ 0 <= z /\ z < 256 /\ Value(z, w8) = r0 + 10 * r1 /\ Decimal(z)
    <3>1. z \in Int /\ 0 <= z /\ z < 256 BY <1>2, <1>4 DEF Upto
    <3> HIDE DEF z
    <3>2. Decimal(z) /\ Value(z, w8) = IF w8 THEN r0 + 10 * r1 ELSE r0 + 10 * r1 + 100 * 0 + 1000 * 0
      BY <2>1, HoldsDigits
    <3> QED BY <1>14, <3>1, <3>2
  <2>4. x = (r0 + 10 * r1) + 100 * k1 BY <1>12, <1>14
  <2>5. r0 + 10 * r1 \in Int /\ 0 <= r0 + 10 * r1 /\ r0 + 10 * r1 < 100 BY <1>2, <1>4 DEF Upto
  <2> DEFINE m == r0 + 10 * r1
  <2> HIDE DEF z, m
  <2>6. (z + 256 * k1) % 256 = z /\ (z + 256 * k1 >= 256) = (k1 = 1) BY <1>4, <2>3
  <2>7. (m + 100 * k1) % 100 = m /\ (m + 100 * k1 >= 100) = (k1 = 1) BY <1>4, <2>5 DEF m
  <2>8. Mod(w8) = 256 BY <1>14 DEF Mod
  <2> DEFINE t == DecimalSum(u, v, c, w8)
             y == Trim(t, w8)
  <2>9. y = z BY <2>2, <2>6, <2>8 DEF Trim
  <2>10. (t >= Mod(w8)) = (x >= 100) BY <2>2, <2>4, <2>6, <2>7, <2>8 DEF m
  <2>11. Value(y, w8) = x % 100 BY <2>3, <2>4, <2>7, <2>9 DEF m
  <2>12. Decimal(y) BY <2>3, <2>9
  <2> HIDE DEF t, y
  <2>13. (IF w8 THEN 100 ELSE 10000) = 100 BY <1>14
  <2> QED BY <2>10, <2>11, <2>12, <2>13 DEF SumExact, t, y, x
<1>15. CASE ~w8
  <2> DEFINE z == r0 + 16 * r1 + 256 * r2 + 4096 * r3
  <2>1. Holds(z, r0, r1, r2, r3) BY <1>2, <1>4, <1>6, <1>8 DEF Holds, Upto, Composed
  <2>2. DecimalSum(u, v, c, w8) = z + 65536 * k3 BY <1>9, <1>13, <1>15
  <2>3. z \in Int /\ 0 <= z /\ z < 65536 /\ Decimal(z)
        /\ Value(z, w8) = r0 + 10 * r1 + 100 * r2 + 1000 * r3
    BY <1>15, <2>1, HoldsDigits
  <2> DEFINE m == r0 + 10 * r1 + 100 * r2 + 1000 * r3
  <2>4. x = m + 10000 * k3 BY <1>12, <1>15
  <2>5. m \in Int /\ 0 <= m /\ m < 10000 BY <1>2, <1>4, <1>6, <1>8 DEF Upto
  <2>6. Value(z, w8) = m BY <2>3
  <2> HIDE DEF z, m
  <2>7. (z + 65536 * k3) % 65536 = z /\ (z + 65536 * k3 >= 65536) = (k3 = 1) BY <1>8, <2>3
  <2>8. (m + 10000 * k3) % 10000 = m /\ (m + 10000 * k3 >= 10000) = (k3 = 1) BY <1>8, <2>5
  <2> QED BY <1>15, <2>2, <2>3, <2>4, <2>6, <2>7, <2>8 DEF SumExact, Trim, Mod, x
<1> QED BY <1>14, <1>15

\* Taking a digit of one decimal number from that of another.
Minus(u, v, w, k) == Digit(u, w) - Digit(v, w) - k
Down(n) == IF n < 0 THEN 1 ELSE 0
Taken(n) == (IF n < 0 THEN n - 6 ELSE n) % 16

\* One step of the subtraction: the digit of the difference, and the borrow.
LEMMA DigitTaken ==
  ASSUME NEW u, NEW v, NEW w, Upto(Digit(u, w), 9), Upto(Digit(v, w), 9), NEW k \in {0, 1}
  PROVE  LET n == Minus(u, v, w, k)
         IN  Down(n) \in {0, 1} /\ Upto(Taken(n), 9) /\ Taken(n) = n + 10 * Down(n) /\ n \in Int
<1> DEFINE n == Minus(u, v, w, k)
<1>1. n \in Int /\ -10 <= n /\ n <= 9 BY DEF Upto, Minus
<1> HIDE DEF n
<1>2. CASE n < 0
  <2>1. (n - 6) % 16 = n + 10
    <3>1. n - 6 = 16 * (-1) + (n + 10) /\ 0 <= n + 10 /\ n + 10 < 16 BY <1>1, <1>2
    <3> QED BY <1>1, <1>2, <3>1
  <2> QED BY <1>1, <1>2, <2>1 DEF Down, Taken, Upto, n
<1>3. CASE ~(n < 0)
  <2>1. n % 16 = n BY <1>1, <1>3
  <2> QED BY <1>1, <1>3, <2>1 DEF Down, Taken, Upto, n
<1> QED BY <1>2, <1>3

\* The difference of decimal operands, its carry and its value.
DifferenceExact(u, v, c, w8) ==
  LET r == DecimalDifference(u, v, 1 - c, w8)
      x == Value(u, w8) - Value(v, w8) - (1 - c)
      q == IF w8 THEN 100 ELSE 10000
  IN  /\ (u + (Mod(w8) - 1 - v) + c >= Mod(w8)) = (x >= 0)
      /\ Value(r, w8) = x % q /\ Decimal(r)

\* The difference, by its four digits and the borrows between them.
LEMMA DecimalDifferenceExact ==
  ASSUME NEW w8 \in BOOLEAN, NEW u, Fits(u, w8), Decimal(u), NEW v, Fits(v, w8), Decimal(v),
         NEW c \in {0, 1}
  PROVE  DifferenceExact(u, v, c, w8)
<1> DEFINE n0 == Minus(u, v, 1, 1 - c)
           k1 == Down(n0)
           r0 == Taken(n0)
           n1 == Minus(u, v, 16, k1)
           k2 == Down(n1)
           r1 == Taken(n1)
           n2 == Minus(u, v, 256, k2)
           k3 == Down(n2)
           r2 == Taken(n2)
           n3 == Minus(u, v, 4096, k3)
           k4 == Down(n3)
           r3 == Taken(n3)
           x == Value(u, w8) - Value(v, w8) - (1 - c)
           r == DecimalDifference(u, v, 1 - c, w8)
           d == u + (Mod(w8) - 1 - v) + c - Mod(w8)
<1>1. \A w \in {1, 16, 256, 4096} : Upto(Digit(u, w), 9) /\ Upto(Digit(v, w), 9)
  BY DecimalDigits DEF Holds, Fits
<1>2. 1 - c \in {0, 1} OBVIOUS
<1>3. k1 \in {0, 1} /\ Upto(r0, 9) /\ r0 = n0 + 10 * k1 /\ n0 \in Int BY <1>1, <1>2, DigitTaken
<1>4. k2 \in {0, 1} /\ Upto(r1, 9) /\ r1 = n1 + 10 * k2 /\ n1 \in Int BY <1>1, <1>3, DigitTaken
<1>5. k3 \in {0, 1} /\ Upto(r2, 9) /\ r2 = n2 + 10 * k3 /\ n2 \in Int BY <1>1, <1>4, DigitTaken
<1>6. k4 \in {0, 1} /\ Upto(r3, 9) /\ r3 = n3 + 10 * k4 /\ n3 \in Int BY <1>1, <1>5, DigitTaken
<1>7. r = IF w8 THEN r0 + 16 * r1 ELSE r0 + 16 * r1 + 256 * r2 + 4096 * r3
  BY DEF DecimalDifference, Minus, Down, Taken
<1> DEFINE a(w) == Digit(u, w)
           b(w) == Digit(v, w)
<1>8. /\ n0 = a(1) - b(1) - (1 - c) /\ n1 = a(16) - b(16) - k1
      /\ n2 = a(256) - b(256) - k2 /\ n3 = a(4096) - b(4096) - k3
  BY DEF Minus
<1>9. \A w \in {1, 16, 256, 4096} : a(w) \in Int /\ b(w) \in Int BY <1>1 DEF Upto
<1>10. /\ Value(u, w8) = (IF w8 THEN a(1) + 10 * a(16) ELSE a(1) + 10 * a(16) + 100 * a(256) + 1000 * a(4096))
       /\ Value(v, w8) = (IF w8 THEN b(1) + 10 * b(16) ELSE b(1) + 10 * b(16) + 100 * b(256) + 1000 * b(4096))
  BY DEF Value
<1>11. /\ u = a(1) + 16 * a(16) + 256 * a(256) + 4096 * a(4096)
       /\ v = b(1) + 16 * b(16) + 256 * b(256) + 4096 * b(4096)
  BY DigitsOf DEF Fits, Composed
<1>12. w8 => a(256) = 0 /\ a(4096) = 0 /\ b(256) = 0 /\ b(4096) = 0
  <2> SUFFICES ASSUME w8 PROVE a(256) = 0 /\ a(4096) = 0 /\ b(256) = 0 /\ b(4096) = 0 OBVIOUS
  <2>1. u \in Int /\ 0 <= u /\ u < 256 /\ v \in Int /\ 0 <= v /\ v < 256 BY Ranges DEF Fits
  <2>2. u \div 256 = 0 /\ u \div 4096 = 0 /\ v \div 256 = 0 /\ v \div 4096 = 0 BY <2>1
  <2> QED BY <2>2 DEF Digit
<1>13. d = u - v - (1 - c)
  <2>1. Mod(w8) \in Int BY DEF Mod
  <2>2. u \in Int /\ v \in Int BY Numbers DEF Fits
  <2> QED BY <2>1, <2>2
<1> HIDE DEF n0, n1, n2, n3, k1, k2, k3, k4, r0, r1, r2, r3, a, b, x, r, d
<1>14. /\ r0 \in Int /\ 0 <= r0 /\ r0 <= 9 /\ r1 \in Int /\ 0 <= r1 /\ r1 <= 9
       /\ r2 \in Int /\ 0 <= r2 /\ r2 <= 9 /\ r3 \in Int /\ 0 <= r3 /\ r3 <= 9
  BY <1>3, <1>4, <1>5, <1>6 DEF Upto
<1>15. x = IF w8 THEN (r0 + 10 * r1) - 100 * k2 ELSE (r0 + 10 * r1 + 100 * r2 + 1000 * r3) - 10000 * k4
  <2> DEFINE vu == Value(u, w8)
             vv == Value(v, w8)
  <2>1. x = vu - vv - (1 - c) BY DEF x
  <2> HIDE DEF vu, vv
  <2> QED BY <1>3, <1>4, <1>5, <1>6, <1>8, <1>9, <1>10, <1>14, <2>1 DEF vu, vv
<1>16. d = IF w8 THEN (r0 + 6 * k1 + 16 * r1) - 160 * k2
           ELSE (r0 + 6 * k1 + 16 * r1 + 96 * k2 + 256 * r2 + 1536 * k3 + 4096 * r3) - 40960 * k4
  <2>1. d = (a(1) - b(1) - (1 - c)) + 16 * (a(16) - b(16)) + 256 * (a(256) - b(256)) + 4096 * (a(4096) - b(4096))
    BY <1>9, <1>11, <1>13
  <2>2. /\ a(1) - b(1) - (1 - c) = r0 - 10 * k1 /\ a(16) - b(16) = (r1 - 10 * k2) + k1
        /\ a(256) - b(256) = (r2 - 10 * k3) + k2 /\ a(4096) - b(4096) = (r3 - 10 * k4) + k3
    BY <1>3, <1>4, <1>5, <1>6, <1>8, <1>9, <1>14
  <2>3. CASE w8
    <3>1. a(256) - b(256) = 0 /\ a(4096) - b(4096) = 0 BY <1>12, <2>3
    <3>2. d = (r0 - 10 * k1) + 16 * ((r1 - 10 * k2) + k1) + 256 * 0 + 4096 * 0 BY <2>1, <2>2, <3>1
    <3> QED BY <1>3, <1>4, <1>14, <2>3, <3>2
  <2>4. CASE ~w8
    <3>1. d = (r0 - 10 * k1) + 16 * ((r1 - 10 * k2) + k1) + 256 * ((r2 - 10 * k3) + k2) + 4096 * ((r3 - 10 * k4) + k3)
      BY <2>1, <2>2
    <3> QED BY <1>3, <1>4, <1>5, <1>6, <1>14, <2>4, <3>1
  <2> QED BY <2>3, <2>4
<1>17. (u + (Mod(w8) - 1 - v) + c >= Mod(w8)) = (d >= 0)
  <2>1. Mod(w8) \in Int BY DEF Mod
  <2>2. u \in Int /\ v \in Int BY Numbers DEF Fits
  <2> QED BY <2>1, <2>2 DEF d
<1>18. CASE w8
  <2>1. Holds(r, r0, r1, 0, 0) BY <1>7, <1>14, <1>18 DEF Holds, Upto, Composed
  <2>2. Decimal(r) /\ Value(r, w8) = IF w8 THEN r0 + 10 * r1 ELSE r0 + 10 * r1 + 100 * 0 + 1000 * 0
    BY <2>1, HoldsDigits
  <2> DEFINE m == r0 + 10 * r1
             y == Value(r, w8)
             e == r0 + 6 * k1 + 16 * r1
  <2>3. y = m BY <1>18, <2>2
  <2>4. m \in Int /\ 0 <= m /\ m < 100 /\ e \in Int /\ 0 <= e /\ e < 160 BY <1>3, <1>14
  <2>5. x = m - 100 * k2 /\ d = e - 160 * k2 BY <1>15, <1>16, <1>18
  <2> HIDE DEF m, e, y
  <2>6. (m - 100 * k2) % 100 = m BY <1>4, <2>4
  <2>7. (d >= 0) = (x >= 0) BY <1>4, <2>4, <2>5
  <2>8. y = x % 100 BY <2>3, <2>5, <2>6
  <2>9. (IF w8 THEN 100 ELSE 10000) = 100 BY <1>18
  <2> QED BY <1>17, <2>2, <2>7, <2>8, <2>9 DEF DifferenceExact, r, x, y
<1>19. CASE ~w8
  <2>1. Holds(r, r0, r1, r2, r3) BY <1>7, <1>14, <1>19 DEF Holds, Upto, Composed
  <2>2. Decimal(r) /\ Value(r, w8) = IF w8 THEN r0 + 10 * r1 ELSE r0 + 10 * r1 + 100 * r2 + 1000 * r3
    BY <2>1, HoldsDigits
  <2> DEFINE m == r0 + 10 * r1 + 100 * r2 + 1000 * r3
             y == Value(r, w8)
             e == r0 + 6 * k1 + 16 * r1 + 96 * k2 + 256 * r2 + 1536 * k3 + 4096 * r3
  <2>3. y = m BY <1>19, <2>2
  <2>4. m \in Int /\ 0 <= m /\ m < 10000 /\ e \in Int /\ 0 <= e /\ e < 40960
    BY <1>3, <1>4, <1>5, <1>14
  <2>5. x = m - 10000 * k4 /\ d = e - 40960 * k4 BY <1>15, <1>16, <1>19
  <2> HIDE DEF m, e, y
  <2>6. (m - 10000 * k4) % 10000 = m BY <1>6, <2>4
  <2>7. (d >= 0) = (x >= 0) BY <1>6, <2>4, <2>5
  <2>8. y = x % 10000 BY <2>3, <2>5, <2>6
  <2>9. (IF w8 THEN 100 ELSE 10000) = 10000 BY <1>19
  <2> QED BY <1>17, <2>2, <2>7, <2>8, <2>9 DEF DifferenceExact, r, x, y
<1> QED BY <1>18, <1>19

-----------------------------------------------------------------------------
(* ADC and SBC.                                                            *)

\* The accumulator and the flags that ADC and SBC leave, from the result r.
LEMMA ResultIs ==
  ASSUME NEW s, Good(s), NEW w8 \in BOOLEAN, NEW o \in BOOLEAN, NEW c \in BOOLEAN, NEW r, Fits(r, w8)
  PROVE  LET t == SetA([s EXCEPT !.p = WithVC(@, o, c)], r, w8)
         IN  /\ Trim(t.a, w8) = r /\ t.a - Trim(t.a, w8) = s.a - Trim(s.a, w8)
             /\ t.p.c = c /\ t.p.v = o /\ t.p.z = (r = 0)
<1> DEFINE t == SetA([s EXCEPT !.p = WithVC(@, o, c)], r, w8)
<1>1. s \in Machine /\ s.a \in Word16 /\ s.p \in Status BY Fields DEF Good
<1>2. t.a = Keep(s.a, r, w8) /\ t.p = WithNZ(WithVC(s.p, o, c), r, w8)
  BY <1>1 DEF SetA, NZ, Machine
<1>3. t.p.c = c /\ t.p.v = o /\ t.p.z = (r = 0)
  <2>1. WithVC(s.p, o, c) \in Status /\ WithVC(s.p, o, c).c = c /\ WithVC(s.p, o, c).v = o
    BY <1>1 DEF WithVC, Status
  <2> DEFINE q == WithVC(s.p, o, c)
  <2> HIDE DEF q
  <2>2. WithNZ(q, r, w8).c = q.c /\ WithNZ(q, r, w8).v = q.v /\ WithNZ(q, r, w8).z = (r = 0)
    BY <2>1 DEF WithNZ, Status, q
  <2> QED BY <1>2, <2>1, <2>2 DEF q
<1> HIDE DEF t
<1>4. s.a \in Int /\ 0 <= s.a /\ s.a < 65536 /\ r \in Int /\ 0 <= r /\ r < 65536 /\ (w8 => r < 256)
  BY <1>1, Ranges DEF Fits
<1> DEFINE x == s.a
<1> HIDE DEF x
<1>5. CASE w8
  <2>1. (x - (x % 256) + r) % 256 = r /\ x % 256 \in Int BY <1>4, <1>5 DEF x
  <2>2. t.a = (x - (x % 256)) + r BY <1>2, <1>5 DEF Keep, x
  <2>3. ((x - (x % 256)) + r) - r = x - (x % 256) BY <1>4, <2>1 DEF x
  <2>4. Trim(t.a, w8) = r BY <1>5, <2>1, <2>2 DEF Trim, Mod
  <2>5. Trim(s.a, w8) = x % 256 BY <1>5 DEF Trim, Mod, x
  <2> QED BY <1>3, <2>2, <2>3, <2>4, <2>5 DEF t, x
<1>6. CASE ~w8
  <2>1. t.a = r BY <1>2, <1>6 DEF Keep
  <2>2. r % 65536 = r /\ x % 65536 = x BY <1>4 DEF x
  <2>3. Trim(t.a, w8) = r /\ Trim(s.a, w8) = x BY <1>6, <2>1, <2>2 DEF Trim, Mod, x
  <2>4. r - r = x - x BY <1>4 DEF x
  <2> QED BY <1>3, <2>1, <2>3, <2>4 DEF t, x
<1> QED BY <1>5, <1>6

\* The binary sum, its carry and its signed overflow.
LEMMA OverflowExact ==
  ASSUME NEW w8 \in BOOLEAN, NEW u, Fits(u, w8), NEW v, Fits(v, w8), NEW c \in {0, 1}
  PROVE  /\ Overflow(u, v, u + v + c, w8)
              = (Signed(Trim(u + v + c, w8), w8) # Signed(u, w8) + Signed(v, w8) + c)
         /\ Fits(Trim(u + v + c, w8), w8)
<1> DEFINE sum == u + v + c
<1>1. u \in Int /\ 0 <= u /\ u < Mod(w8) /\ v \in Int /\ 0 <= v /\ v < Mod(w8)
  BY Ranges DEF Fits, Mod
<1>2. Fits(Trim(sum, w8), w8) BY <1>1, TrimType DEF Fits
<1>3. Overflow(u, v, sum, w8) \in BOOLEAN BY DEF Overflow
<1>4. CASE w8
  <2>1. Mod(w8) = 256 /\ 256 \div 2 = 128 BY <1>4 DEF Mod
  <2>2. u < 256 /\ v < 256 BY <1>1, <2>1
  <2> DEFINE y == IF sum >= 256 THEN sum - 256 ELSE sum
  <2>3. Trim(sum, w8) = y BY <1>1, <2>1, <2>2 DEF Trim
  <2>4. Overflow(u, v, sum, w8) = (((u >= 128) = (v >= 128)) /\ ((y >= 128) # (u >= 128)))
    <3>1. \A z : Negative(z, w8) = (z >= 128) BY <2>1 DEF Negative
    <3>2. Overflow(u, v, sum, w8) = (Negative(u, w8) = Negative(v, w8) /\ Negative(Trim(sum, w8), w8) # Negative(u, w8))
      BY DEF Overflow
    <3> HIDE DEF sum, y
    <3> QED BY <2>3, <3>1, <3>2
  <2>5. /\ Signed(y, w8) = (IF y >= 128 THEN y - 256 ELSE y)
        /\ Signed(u, w8) = (IF u >= 128 THEN u - 256 ELSE u)
        /\ Signed(v, w8) = (IF v >= 128 THEN v - 256 ELSE v)
    BY <2>1 DEF Signed, Negative
  <2> DEFINE sy == Signed(y, w8)
             su == Signed(u, w8)
             sv == Signed(v, w8)
  <2> HIDE DEF sy, su, sv
  <2>6. (((u >= 128) = (v >= 128)) /\ ((y >= 128) # (u >= 128))) = (sy # su + sv + c)
    BY <1>1, <2>2, <2>5 DEF sy, su, sv
  <2> QED BY <1>2, <2>3, <2>4, <2>6 DEF sy, su, sv
<1>5. CASE ~w8
  <2>1. Mod(w8) = 65536 /\ 65536 \div 2 = 32768 BY <1>5 DEF Mod
  <2>2. u < 65536 /\ v < 65536 BY <1>1, <2>1
  <2> DEFINE y == IF sum >= 65536 THEN sum - 65536 ELSE sum
  <2>3. Trim(sum, w8) = y BY <1>1, <2>1, <2>2 DEF Trim
  <2>4. Overflow(u, v, sum, w8) = (((u >= 32768) = (v >= 32768)) /\ ((y >= 32768) # (u >= 32768)))
    <3>1. \A z : Negative(z, w8) = (z >= 32768) BY <2>1 DEF Negative
    <3>2. Overflow(u, v, sum, w8) = (Negative(u, w8) = Negative(v, w8) /\ Negative(Trim(sum, w8), w8) # Negative(u, w8))
      BY DEF Overflow
    <3> HIDE DEF sum, y
    <3> QED BY <2>3, <3>1, <3>2
  <2>5. /\ Signed(y, w8) = (IF y >= 32768 THEN y - 65536 ELSE y)
        /\ Signed(u, w8) = (IF u >= 32768 THEN u - 65536 ELSE u)
        /\ Signed(v, w8) = (IF v >= 32768 THEN v - 65536 ELSE v)
    BY <2>1 DEF Signed, Negative
  <2> DEFINE sy == Signed(y, w8)
             su == Signed(u, w8)
             sv == Signed(v, w8)
  <2> HIDE DEF sy, su, sv
  <2>6. (((u >= 32768) = (v >= 32768)) /\ ((y >= 32768) # (u >= 32768))) = (sy # su + sv + c)
    BY <1>1, <2>2, <2>5 DEF sy, su, sv
  <2> QED BY <1>2, <2>3, <2>4, <2>6 DEF sy, su, sv
<1> QED BY <1>4, <1>5

\* SBC in binary is ADC of the complement.
LEMMA Complement ==
  ASSUME NEW w8 \in BOOLEAN, NEW u, Fits(u, w8), NEW v, Fits(v, w8), NEW c \in {0, 1}
  PROVE  LET w == Mod(w8) - 1 - v
         IN  /\ Fits(w, w8) /\ Signed(w, w8) = -1 - Signed(v, w8)
             /\ Trim(u + w + c, w8) = (u - v - (1 - c)) % Mod(w8)
             /\ (u + w + c >= Mod(w8)) = (u - v - (1 - c) >= 0)
             /\ Signed(u, w8) + Signed(w, w8) + c = Signed(u, w8) - Signed(v, w8) - (1 - c)
<1> DEFINE w == Mod(w8) - 1 - v
<1>1. u \in Int /\ 0 <= u /\ u < Mod(w8) /\ v \in Int /\ 0 <= v /\ v < Mod(w8) /\ Mod(w8) \in Int
  BY Ranges DEF Fits, Mod
<1>2. w \in Int /\ 0 <= w /\ w < Mod(w8) BY <1>1
<1>3. Fits(w, w8) BY <1>2, Ranges DEF Fits, Mod
<1>4. Signed(w, w8) = -1 - Signed(v, w8) /\ Signed(v, w8) \in Int /\ Signed(u, w8) \in Int
  BY <1>1 DEF Signed, Negative, Mod
<1>5. (u + w + c >= Mod(w8)) = (u - v - (1 - c) >= 0) BY <1>1
<1>6. Trim(u + w + c, w8) = (u - v - (1 - c)) % Mod(w8)
  <2> DEFINE x == u - v - (1 - c)
  <2>1. u + w + c = x + Mod(w8) /\ x \in Int BY <1>1
  <2> HIDE DEF x
  <2>2. (x + 256) % 256 = x % 256 /\ (x + 65536) % 65536 = x % 65536 BY <2>1
  <2> QED BY <2>1, <2>2 DEF Trim, Mod, x
<1> DEFINE su == Signed(u, w8)
           sv == Signed(v, w8)
           sw == Signed(w, w8)
<1>7. su + sw + c = su - sv - (1 - c)
  <2> HIDE DEF su, sv, sw
  <2> QED BY <1>4 DEF su, sv, sw
<1> QED BY <1>3, <1>4, <1>5, <1>6, <1>7

\* One ADC or SBC, as ArithmeticExact asks for it.
Exactly(s, v, w8, op, t) ==
  LET u == Trim(s.a, w8)
  IN  /\ Computed(u, v, Num(s.p.c), op, s.p.d, w8, t.a, t.p)
      /\ t.a - Trim(t.a, w8) = s.a - u

\* The carry as a number.
LEMMA CarryIs == ASSUME NEW s, Good(s) PROVE Num(s.p.c) \in {0, 1}
BY DEF Num

\* ADC, in either radix.
LEMMA AdcExact ==
  ASSUME NEW s, Good(s), NEW w8 \in BOOLEAN, NEW v, Fits(v, w8),
         s.p.d = TRUE => Decimal(Trim(s.a, w8)) /\ Decimal(v)
  PROVE  Exactly(s, v, w8, "adc", Adc(s, v, w8))
<1> DEFINE u == Trim(s.a, w8)
           c == Num(s.p.c)
           sum == IF s.p.d THEN DecimalSum(u, v, c, w8) ELSE u + v + c
           r == Trim(sum, w8)
           o == Overflow(u, v, u + v + c, w8)
           k == (sum >= Mod(w8))
           t == SetA([s EXCEPT !.p = WithVC(@, o, k)], r, w8)
<1>1. Fits(u, w8) /\ s.p \in Status /\ c \in {0, 1} BY AFits, Fields, CarryIs
<1>2. u \in Word16 /\ v \in Word16 /\ u \in Int /\ v \in Int BY <1>1, Numbers DEF Fits
<1>3. s.p.d \in BOOLEAN BY <1>1, Flags
<1>4. DecimalSum(u, v, c, w8) \in Int BY <1>1, <1>2, DecimalSumType
<1>5. sum \in Int BY <1>1, <1>2, <1>3, <1>4
<1>6. Fits(r, w8) BY <1>5, TrimType DEF Fits
<1>7. o \in BOOLEAN /\ k \in BOOLEAN BY DEF Overflow
<1>8. t = Adc(s, v, w8) BY DEF Adc
<1> HIDE DEF u, c, r, o, k, t, sum
<1>9. /\ Trim(t.a, w8) = r /\ t.a - Trim(t.a, w8) = s.a - u
      /\ t.p.c = k /\ t.p.v = o /\ t.p.z = (r = 0)
  BY <1>6, <1>7, ResultIs DEF t, u
<1>10. CASE s.p.d = TRUE
  <2>1. SumExact(u, v, c, w8) BY <1>1, <1>2, <1>10, DecimalSumExact DEF u
  <2>2. sum = DecimalSum(u, v, c, w8) BY <1>10 DEF sum
  <2> DEFINE x == Value(u, w8) + Value(v, w8) + c
             q == IF w8 THEN 100 ELSE 10000
  <2>3. k = (x >= q) /\ Value(r, w8) = x % q /\ Decimal(r) BY <2>1, <2>2 DEF SumExact, k, r
  <2> HIDE DEF x
  <2>4. Exact(u, v, c, "adc", s.p.d, w8) = x BY <1>10 DEF Exact, x
  <2> HIDE DEF q
  <2>5. Computed(u, v, c, "adc", s.p.d, w8, t.a, t.p) BY <1>9, <1>10, <2>3, <2>4 DEF Computed, q
  <2> QED BY <1>8, <1>9, <2>5 DEF Exactly, u, c
<1>11. CASE s.p.d = FALSE
  <2>1. sum = u + v + c BY <1>11 DEF sum
  <2>2. o = (Signed(r, w8) # Signed(u, w8) + Signed(v, w8) + c) BY <1>1, <2>1, OverflowExact DEF o, r
  <2>3. r = (u + v + c) % Mod(w8) BY <2>1 DEF r, Trim
  <2>4. k = (u + v + c >= Mod(w8)) BY <2>1 DEF k
  <2>5. Exact(u, v, c, "adc", s.p.d, w8) = u + v + c BY <1>11 DEF Exact
  <2>6. Computed(u, v, c, "adc", s.p.d, w8, t.a, t.p) BY <1>9, <1>11, <2>2, <2>3, <2>4, <2>5 DEF Computed
  <2> QED BY <1>8, <1>9, <2>6 DEF Exactly, u, c
<1> QED BY <1>3, <1>10, <1>11

\* SBC: in binary it is the ADC of the complement, in decimal it has its own digits and
\* the carry of the complement.
LEMMA SbcExact ==
  ASSUME NEW s, Good(s), NEW w8 \in BOOLEAN, NEW v, Fits(v, w8),
         s.p.d = TRUE => Decimal(Trim(s.a, w8)) /\ Decimal(v)
  PROVE  Exactly(s, v, w8, "sbc", Sbc(s, v, w8))
<1> DEFINE u == Trim(s.a, w8)
           c == Num(s.p.c)
           w == Mod(w8) - 1 - v
<1>1. Fits(u, w8) /\ s.p \in Status /\ c \in {0, 1} BY AFits, Fields, CarryIs
<1>2. s.p.d \in BOOLEAN BY <1>1, Flags
<1> HIDE DEF u, c
<1>3. /\ Fits(w, w8)
      /\ Trim(u + w + c, w8) = (u - v - (1 - c)) % Mod(w8)
      /\ (u + w + c >= Mod(w8)) = (u - v - (1 - c) >= 0)
      /\ Signed(u, w8) + Signed(w, w8) + c = Signed(u, w8) - Signed(v, w8) - (1 - c)
  BY <1>1, Complement
<1> HIDE DEF w
<1>4. CASE s.p.d = TRUE
  <2> DEFINE r == DecimalDifference(u, v, 1 - c, w8)
             o == Overflow(u, w, u + w + c, w8)
             k == (u + w + c >= Mod(w8))
             t == SetA([s EXCEPT !.p = WithVC(@, o, k)], r, w8)
  <2>1. t = Sbc(s, v, w8) BY <1>4 DEF Sbc, u, c, w
  <2>2. DifferenceExact(u, v, c, w8) BY <1>1, <1>4, DecimalDifferenceExact DEF u
  <2>3. Fits(r, w8)
    <3>1. u \in Int /\ v \in Int /\ 1 - c \in Int BY <1>1, Numbers DEF Fits
    <3> QED BY <3>1, DecimalDifferenceType
  <2>4. o \in BOOLEAN /\ k \in BOOLEAN BY DEF Overflow
  <2> HIDE DEF r, o, k, t
  <2>5. /\ Trim(t.a, w8) = r /\ t.a - Trim(t.a, w8) = s.a - u
        /\ t.p.c = k /\ t.p.v = o /\ t.p.z = (r = 0)
    BY <2>3, <2>4, ResultIs DEF t, u
  <2> DEFINE x == Value(u, w8) - Value(v, w8) - (1 - c)
             q == IF w8 THEN 100 ELSE 10000
  <2>6. k = (x >= 0) /\ Value(r, w8) = x % q /\ Decimal(r) BY <2>2 DEF DifferenceExact, k, r, w
  <2> HIDE DEF x
  <2>7. Exact(u, v, c, "sbc", s.p.d, w8) = x BY <1>4 DEF Exact, x
  <2> HIDE DEF q
  <2>8. Computed(u, v, c, "sbc", s.p.d, w8, t.a, t.p) BY <1>4, <2>5, <2>6, <2>7 DEF Computed, q
  <2> QED BY <2>1, <2>5, <2>8 DEF Exactly, u, c
<1>5. CASE s.p.d = FALSE
  <2> DEFINE t == Adc(s, w, w8)
  <2>1. t = Sbc(s, v, w8) BY <1>5 DEF Sbc, w
  <2>2. Exactly(s, w, w8, "adc", t) BY <1>3, <1>5, AdcExact
  <2> HIDE DEF t
  <2>3. Exact(u, w, c, "adc", s.p.d, w8) = u + w + c
        /\ Exact(u, v, c, "sbc", s.p.d, w8) = u - v - (1 - c)
    BY <1>5 DEF Exact
  <2>4. Computed(u, w, c, "adc", s.p.d, w8, t.a, t.p) /\ t.a - Trim(t.a, w8) = s.a - u
    BY <2>2 DEF Exactly, u, c
  <2> DEFINE r == Trim(t.a, w8)
  <2>5. /\ r = (u + w + c) % Mod(w8) /\ t.p.c = (u + w + c >= Mod(w8)) /\ t.p.z = (r = 0)
        /\ t.p.v = (Signed(r, w8) # Signed(u, w8) + Signed(w, w8) + c)
    BY <1>5, <2>3, <2>4 DEF Computed
  <2> HIDE DEF r
  <2>6. /\ r = (u - v - (1 - c)) % Mod(w8) /\ t.p.c = (u - v - (1 - c) >= 0)
        /\ t.p.v = (Signed(r, w8) # Signed(u, w8) - Signed(v, w8) - (1 - c))
    BY <1>3, <2>5 DEF Trim
  <2>7. Computed(u, v, c, "sbc", s.p.d, w8, t.a, t.p) BY <1>5, <2>3, <2>5, <2>6 DEF Computed, r
  <2> QED BY <2>1, <2>4, <2>7 DEF Exactly, u, c
<1> QED BY <1>2, <1>4, <1>5

\* Every ADC and SBC, wherever its operand comes from, leaves the sum or the difference in
\* the radix of the D flag and the width of the M flag, with its carry, zero and overflow
\* (cpu/instructions.rs:1189-1313).
THEOREM ArithmeticIsExact == Spec => ArithmeticExact
<1> DEFINE ins == It.code[Here]
           w8  == M8(cpu)
           u   == Trim(cpu.a, w8)
           s   == Fetched(cpu, ins)
           v   == Operand(s, ins, w8)
           Step == Instruction /\ ins.op = "arith" =>
                     ((cpu.p.d => Decimal(u) /\ Decimal(v)) =>
                        /\ Computed(u, v, Num(cpu.p.c), ins.arg, cpu.p.d, w8, cpu'.a, cpu'.p)
                        /\ cpu'.a - Trim(cpu'.a, w8) = cpu.a - u)
<1>1. Inv => Step
  <2> SUFFICES ASSUME Inv, Instruction, ins.op = "arith", cpu.p.d => Decimal(u) /\ Decimal(v)
      PROVE  /\ Computed(u, v, Num(cpu.p.c), ins.arg, cpu.p.d, w8, cpu'.a, cpu'.p)
             /\ cpu'.a - Trim(cpu'.a, w8) = cpu.a - u
    OBVIOUS
  <2>1. program \in Names /\ Good(cpu) BY DEF Inv
  <2>2. Decoded(ins) BY <2>1, CpuAssumption DEF Instruction, It
  <2>3. cpu' = Executed(s, ins) BY DEF Instruction
  <2> HIDE DEF ins
  <2>4. Good(s) BY <2>1, <2>2, FetchedGood
  <2>5. s.a = cpu.a /\ s.p = cpu.p /\ M8(s) = w8
    BY <2>1 DEF Fetched, M8, Good, Machine
  <2>6. ins.arg \in {"adc", "sbc"} /\ ins.mode \in InMemory \cup {"immM"} BY <2>2 DEF Decoded
  <2>7. w8 \in BOOLEAN BY <2>1, Widths
  <2> HIDE DEF s
  <2>8. Fits(v, w8) BY <2>2, <2>4, <2>6, <2>7, OperandType DEF Fits
  <2>9. cpu' = Arith(s, ins) BY <2>3 DEF Executed
  <2>10. cpu' = IF ins.arg = "adc" THEN Adc(s, v, w8) ELSE Sbc(s, v, w8) BY <2>5, <2>9 DEF Arith
  <2> HIDE DEF w8, v
  <2>11. s.p.d = TRUE => Decimal(Trim(s.a, w8)) /\ Decimal(v) BY <2>5
  <2>12. Exactly(s, v, w8, ins.arg, cpu')
    <3>1. CASE ins.arg = "adc" BY <2>4, <2>7, <2>8, <2>10, <2>11, <3>1, AdcExact
    <3>2. CASE ins.arg = "sbc" BY <2>4, <2>7, <2>8, <2>10, <2>11, <3>2, SbcExact
    <3> QED BY <2>6, <3>1, <3>2
  <2> QED BY <2>5, <2>12 DEF Exactly
<1> QED BY <1>1, InitInv, StepInv, PTL DEF Spec, ArithmeticExact

-----------------------------------------------------------------------------
(* The idle-loop fast path.                                                *)

\* The two CPUs of the loop.
Poller == [cycles : Nat, start : Nat, pc : {"LDA", "BEQ"}, a : Nat, joy : Nat,
           state : {"polls", "left", "interrupted"}]

\* In the loop, what has been polled before LDA comes again was zero.
Sound(c) ==
  /\ c \in Poller /\ c.start <= c.cycles
  /\ c.state = "polls" /\ c.pc = "LDA" => c.a = 0

\* A turn of the CPU without the fast path, when the byte is b and the H-IRQ at h.
Due(c, h) == ((c.cycles - c.start) * Dots) \div Line >= h
AfterLda(c, b) == [Idle!Spend(c, Idle!Lda) EXCEPT !.a = b, !.pc = "BEQ"]
AfterBeq(c) == [Idle!Spend(c, Idle!Beq(c.a = 0)) EXCEPT !.pc = "LDA",
                   !.state = IF c.a = 0 THEN "polls" ELSE "left"]
Turned(c, b, h) ==
  IF Due(c, h) THEN [c EXCEPT !.state = "interrupted"]
  ELSE IF c.pc = "LDA" THEN AfterLda(c, b) ELSE AfterBeq(c)

\* p comes n turns after s, all of them in the scanline.
Trace(f, n, s, p, b, h) ==
  /\ f[0] = s /\ f[n] = p
  /\ \A i \in 0..n-1 : Idle!InLine(f[i]) /\ f[i+1] = Turned(f[i], b, h)

Reach(s, p, b, h) == \E n \in Nat : \E f : Trace(f, n, s, p, b, h)

\* The H-IRQ is not due in the part of a scanline that may be skipped.
Late(h) == (h * Line) \div Dots >= Line - Margin

\* The periods of the loop.
LEMMA IdleTimes ==
  /\ Line \in Nat /\ Dots \in Nat /\ Line > 0 /\ Dots > 0 /\ Margin \in Nat
  /\ Idle!Lda \in Nat /\ Idle!Beq(TRUE) \in Nat /\ Idle!Beq(FALSE) \in Nat
  /\ Idle!Lda > 0 /\ Idle!Beq(TRUE) > 0 /\ Idle!Beq(FALSE) > 0
  /\ Idle!Iteration = Idle!Lda + Idle!Beq(TRUE)
<1>1. /\ OpSpeed \in Nat /\ DataSpeed \in Nat /\ Line \in Nat /\ Dots \in Nat /\ Internal \in Nat
      /\ OpSpeed > 0 /\ DataSpeed > 0 /\ Line > 0 /\ Dots > 0 /\ Margin \in Nat
  BY IdleConstants DEF Idle!IdleAssumption
<1> QED BY <1>1 DEF Idle!Lda, Idle!Beq, Idle!Iteration

LEMMA IterationTakes ==
  /\ Idle!Iteration \in Nat /\ Idle!Iteration > 0
  /\ Idle!Lda \in Nat /\ Idle!Lda > 0 /\ Idle!Lda < Idle!Iteration
<1> DEFINE u == Idle!Lda
           v == Idle!Beq(TRUE)
<1>1. u \in Nat /\ v \in Nat /\ u > 0 /\ v > 0 /\ Idle!Iteration = u + v BY IdleTimes
<1> HIDE DEF u, v
<1> QED BY <1>1 DEF u

\* The fields of a CPU, and of one that is older or at another instruction.
LEMMA Fielded ==
  ASSUME NEW c, c \in Poller
  PROVE  /\ c.cycles \in Nat /\ c.start \in Nat /\ c.a \in Nat /\ c.joy \in Nat
         /\ c.pc \in {"LDA", "BEQ"}
BY DEF Poller

IsOlder(c, x, y, d) ==
  /\ d \in Poller /\ d.cycles = x /\ d.joy = y /\ d.start = c.start
  /\ d.pc = c.pc /\ d.a = c.a /\ d.state = c.state
IsSpent(c, n, d) ==
  /\ d \in Poller /\ d.cycles = c.cycles + n
  /\ d.joy = (IF n >= c.joy THEN 0 ELSE c.joy - n) /\ d.start = c.start
  /\ d.pc = c.pc /\ d.a = c.a /\ d.state = c.state
  /\ d = [c EXCEPT !.cycles = c.cycles + n, !.joy = IF n >= c.joy THEN 0 ELSE c.joy - n]
IsFetched(c, x, d) ==
  /\ d \in Poller /\ d.cycles = c.cycles /\ d.start = c.start
  /\ d.pc = "BEQ" /\ d.a = x /\ d.state = c.state
IsLooped(c, x, d) ==
  /\ d \in Poller /\ d.cycles = c.cycles /\ d.start = c.start
  /\ d.pc = "LDA" /\ d.a = c.a /\ d.state = x

LEMMA Older ==
  ASSUME NEW c, NEW x, NEW y, c \in Poller, x \in Nat, y \in Nat
  PROVE  IsOlder(c, x, y, [c EXCEPT !.cycles = x, !.joy = y])
BY DEF Poller, IsOlder

LEMMA OlderAgain ==
  ASSUME NEW c, NEW x, NEW y, NEW u, NEW v, c \in Poller
  PROVE  [[c EXCEPT !.cycles = u, !.joy = v] EXCEPT !.cycles = x, !.joy = y]
           = [c EXCEPT !.cycles = x, !.joy = y]
BY DEF Poller

LEMMA Fetching ==
  ASSUME NEW c, NEW x, c \in Poller, x \in Nat
  PROVE  IsFetched(c, x, [c EXCEPT !.a = x, !.pc = "BEQ"])
BY DEF Poller, IsFetched

LEMMA Looping ==
  ASSUME NEW c, NEW x, c \in Poller, x \in {"polls", "left"}
  PROVE  IsLooped(c, x, [c EXCEPT !.pc = "LDA", !.state = x])
BY DEF Poller, IsLooped

LEMMA Interrupted ==
  ASSUME NEW c, c \in Poller
  PROVE  LET d == [c EXCEPT !.state = "interrupted"]
         IN  /\ d \in Poller /\ d.cycles = c.cycles /\ d.start = c.start /\ d.state = "interrupted"
BY DEF Poller

\* Time passes for a CPU.
LEMMA Spending ==
  ASSUME NEW c, NEW n, c \in Poller, n \in Nat PROVE IsSpent(c, n, Idle!Spend(c, n))
<1> DEFINE x == c.cycles + n
           y == IF n >= c.joy THEN 0 ELSE c.joy - n
<1>1. Idle!Spend(c, n) = [c EXCEPT !.cycles = x, !.joy = y] BY DEF Idle!Spend
<1>2. x \in Nat /\ y \in Nat BY Fielded
<1>3. Idle!Spend(c, n) = [c EXCEPT !.cycles = c.cycles + n, !.joy = IF n >= c.joy THEN 0 ELSE c.joy - n]
  BY <1>1
<1> DEFINE d == [c EXCEPT !.cycles = x, !.joy = y]
<1> HIDE DEF x, y
<1>4. IsOlder(c, x, y, d) BY <1>2, Older
<1> HIDE DEF d
<1>5. Idle!Spend(c, n) = d BY <1>1 DEF d
<1> QED BY <1>3, <1>4, <1>5 DEF IsOlder, IsSpent, x, y

\* Times add up.
LEMMA SpendingMore ==
  ASSUME NEW c, NEW m, NEW n, c \in Poller, m \in Nat, n \in Nat
  PROVE  Idle!Spend(Idle!Spend(c, m), n) = Idle!Spend(c, m + n)
<1> DEFINE d == Idle!Spend(c, m)
           e == Idle!Spend(d, n)
           u == c.cycles + m
           v == IF m >= c.joy THEN 0 ELSE c.joy - m
           x == d.cycles + n
           y == IF n >= d.joy THEN 0 ELSE d.joy - n
           x2 == c.cycles + (m + n)
           y2 == IF m + n >= c.joy THEN 0 ELSE c.joy - (m + n)
<1>1. d \in Poller /\ d.cycles = u /\ d.joy = v /\ d = [c EXCEPT !.cycles = u, !.joy = v]
  <2> DEFINE q == [c EXCEPT !.cycles = c.cycles + m, !.joy = IF m >= c.joy THEN 0 ELSE c.joy - m]
  <2>1. d = q /\ d.cycles = u /\ d.joy = v /\ d \in Poller
    <3> HIDE DEF q
    <3>1. IsSpent(c, m, d) BY Spending
    <3> HIDE DEF d
    <3> QED BY <3>1 DEF IsSpent, q
  <2> QED BY <2>1
<1>2. e = [d EXCEPT !.cycles = x, !.joy = y]
  <2> HIDE DEF d
  <2>1. d \in Poller BY <1>1
  <2>2. IsSpent(d, n, e) BY <2>1, Spending
  <2> HIDE DEF e
  <2> QED BY <2>2 DEF IsSpent
<1>3. m + n \in Nat OBVIOUS
<1>4. Idle!Spend(c, m + n) = [c EXCEPT !.cycles = x2, !.joy = y2] 
  <2> DEFINE g == Idle!Spend(c, m + n)
  <2>1. IsSpent(c, m + n, g) BY <1>3, Spending
  <2> HIDE DEF g
  <2>2. g = [c EXCEPT !.cycles = x2, !.joy = y2] BY <2>1 DEF IsSpent
  <2> QED BY <2>2 DEF g
<1>5. x = x2 /\ y = y2
  <2>1. c.cycles \in Nat /\ c.joy \in Nat BY Fielded
  <2> HIDE DEF d
  <2> QED BY <1>1, <2>1
<1> HIDE DEF d, e, u, v, x, y, x2, y2
<1>6. e = [[c EXCEPT !.cycles = u, !.joy = v] EXCEPT !.cycles = x, !.joy = y] BY <1>1, <1>2
<1>7. e = [c EXCEPT !.cycles = x, !.joy = y] BY <1>6, OlderAgain
<1>8. e = Idle!Spend(c, m + n) BY <1>4, <1>5, <1>7
<1> QED BY <1>8 DEF d, e

\* What the two instructions leave.
LEMMA Loading ==
  ASSUME NEW c, NEW b, c \in Poller, b \in Nat
  PROVE  LET d == AfterLda(c, b)
         IN  /\ d \in Poller /\ d.cycles = c.cycles + Idle!Lda /\ d.start = c.start
             /\ d.pc = "BEQ" /\ d.a = b /\ d.state = c.state
<1> DEFINE d == Idle!Spend(c, Idle!Lda)
<1>1. d \in Poller /\ d.cycles = c.cycles + Idle!Lda /\ d.start = c.start /\ d.state = c.state
  <2>1. IsSpent(c, Idle!Lda, d) BY IdleTimes, Spending
  <2> HIDE DEF d
  <2> QED BY <2>1 DEF IsSpent
<1> HIDE DEF d
<1> DEFINE e == [d EXCEPT !.a = b, !.pc = "BEQ"]
<1>2. IsFetched(d, b, e) BY <1>1, Fetching
<1>3. AfterLda(c, b) = e BY DEF AfterLda, d
<1> HIDE DEF e
<1> QED BY <1>1, <1>2, <1>3 DEF IsFetched

LEMMA Branching ==
  ASSUME NEW c, c \in Poller
  PROVE  LET d == AfterBeq(c)
         IN  /\ d \in Poller /\ d.cycles = c.cycles + Idle!Beq(c.a = 0) /\ d.start = c.start
             /\ d.pc = "LDA" /\ d.a = c.a /\ d.state = IF c.a = 0 THEN "polls" ELSE "left"
<1> DEFINE w == Idle!Beq(c.a = 0)
           d == Idle!Spend(c, w)
           x == IF c.a = 0 THEN "polls" ELSE "left"
           e == [d EXCEPT !.pc = "LDA", !.state = x]
<1>0. w \in Nat
  <2>1. CASE c.a = 0
    <3>1. w = Idle!Beq(TRUE) BY <2>1 DEF Idle!Beq
    <3> QED BY <3>1, IdleTimes
  <2>2. CASE c.a # 0
    <3>1. w = Idle!Beq(FALSE) BY <2>2 DEF Idle!Beq
    <3> QED BY <3>1, IdleTimes
  <2> QED BY <2>1, <2>2
<1>3. AfterBeq(c) = e BY DEF AfterBeq
<1>4. x \in {"polls", "left"} OBVIOUS
<1> HIDE DEF w
<1>1. d \in Poller /\ d.cycles = c.cycles + w /\ d.start = c.start /\ d.a = c.a
  <2>1. IsSpent(c, w, d) BY <1>0, Spending
  <2> HIDE DEF d
  <2> QED BY <2>1 DEF IsSpent
<1> HIDE DEF d, x
<1>2. IsLooped(d, x, e) BY <1>1, <1>4, Looping
<1> HIDE DEF e
<1> QED BY <1>1, <1>2, <1>3 DEF IsLooped, w, x

\* What a turn leaves.
LEMMA Turning ==
  ASSUME NEW c, NEW b, NEW h, Sound(c), Idle!InLine(c), b \in Nat
  PROVE  Sound(Turned(c, b, h))
<1>1. c \in Poller /\ c.start <= c.cycles /\ c.state = "polls" /\ (c.pc = "LDA" => c.a = 0)
  BY DEF Sound, Idle!InLine
<1>2. c.cycles \in Nat /\ c.start \in Nat /\ c.pc \in {"LDA", "BEQ"} BY <1>1, Fielded
<1>3. CASE Due(c, h)
  <2> DEFINE d == [c EXCEPT !.state = "interrupted"]
  <2>1. d \in Poller /\ d.cycles = c.cycles /\ d.start = c.start /\ d.state = "interrupted"
    BY <1>1, Interrupted
  <2>2. Turned(c, b, h) = d BY <1>3 DEF Turned
  <2> HIDE DEF d
  <2> QED BY <1>1, <2>1, <2>2 DEF Sound
<1>4. CASE ~Due(c, h) /\ c.pc = "LDA"
  <2> DEFINE d == AfterLda(c, b)
  <2>1. d \in Poller /\ d.cycles = c.cycles + Idle!Lda /\ d.start = c.start /\ d.pc = "BEQ"
    BY <1>1, Loading
  <2>2. Turned(c, b, h) = d BY <1>4 DEF Turned
  <2> HIDE DEF d
  <2> QED BY <1>1, <1>2, <2>1, <2>2, IdleTimes DEF Sound
<1>5. CASE ~Due(c, h) /\ c.pc = "BEQ"
  <2> DEFINE d == AfterBeq(c)
             w == Idle!Beq(c.a = 0)
  <2>1. d \in Poller /\ d.cycles = c.cycles + w /\ d.start = c.start /\ d.a = c.a
        /\ d.state = IF c.a = 0 THEN "polls" ELSE "left"
    BY <1>1, Branching
  <2>2. Turned(c, b, h) = d BY <1>5 DEF Turned
  <2>3. w \in Nat
    <3>1. CASE c.a = 0
      <4>1. w = Idle!Beq(TRUE) BY <3>1 DEF Idle!Beq
      <4> QED BY <4>1, IdleTimes
    <3>2. CASE c.a # 0
      <4>1. w = Idle!Beq(FALSE) BY <3>2 DEF Idle!Beq
      <4> QED BY <4>1, IdleTimes
    <3> QED BY <3>1, <3>2
  <2> HIDE DEF d, w
  <2> QED BY <1>1, <1>2, <2>1, <2>2, <2>3 DEF Sound
<1> QED BY <1>2, <1>3, <1>4, <1>5

-----------------------------------------------------------------------------
(* Traces begin, grow and are cut at either end.                           *)

\* A CPU is on its own way.
LEMMA ReachSelf == ASSUME NEW s, NEW b, NEW h PROVE Reach(s, s, b, h)
<1> DEFINE f == [i \in {0} |-> s]
<1>1. f[0] = s OBVIOUS
<1> HIDE DEF f
<1>2. Trace(f, 0, s, s, b, h) BY <1>1 DEF Trace
<1> QED BY <1>2 DEF Reach

\* The CPU without the fast path takes a turn ...
LEMMA ReachOn ==
  ASSUME NEW s, NEW p, NEW b, NEW h, Reach(s, p, b, h), Idle!InLine(p)
  PROVE  Reach(s, Turned(p, b, h), b, h)
<1>1. PICK n \in Nat : \E f : Trace(f, n, s, p, b, h) BY DEF Reach
<1>2. PICK f : Trace(f, n, s, p, b, h) BY <1>1
<1> DEFINE q == Turned(p, b, h)
           g == [i \in 0..n+1 |-> IF i = n + 1 THEN q ELSE f[i]]
<1>3. g[n + 1] = q /\ \A i \in 0..n : g[i] = f[i] BY <1>1
<1>4. f[0] = s /\ f[n] = p /\ \A i \in 0..n-1 : Idle!InLine(f[i]) /\ f[i+1] = Turned(f[i], b, h)
  BY <1>2 DEF Trace
<1> HIDE DEF g
<1>5. \A i \in 0..n : Idle!InLine(g[i]) /\ g[i+1] = Turned(g[i], b, h)
  <2> TAKE i \in 0..n
  <2>1. CASE i = n BY <1>3, <1>4, <2>1
  <2>2. CASE i # n
    <3>1. i \in 0..n-1 /\ i + 1 \in 0..n BY <1>1, <2>2
    <3> QED BY <1>3, <1>4, <3>1
  <2> QED BY <2>1, <2>2
<1>6. (n + 1) - 1 = n /\ n + 1 \in Nat /\ 0 \in 0..n BY <1>1
<1>7. Trace(g, n + 1, s, q, b, h) BY <1>3, <1>4, <1>5, <1>6 DEF Trace
<1> QED BY <1>6, <1>7 DEF Reach

\* After the first k turns of a trace.
LEMMA TraceFrom ==
  ASSUME NEW f, NEW n, NEW k, NEW s, NEW p, NEW b, NEW h,
         n \in Nat, k \in Nat, k <= n, Trace(f, n, s, p, b, h)
  PROVE  Reach(f[k], p, b, h)
<1> DEFINE g == [i \in 0..n-k |-> f[i + k]]
<1>1. \A i \in 0..n-k : g[i] = f[i + k] OBVIOUS
<1>2. f[n] = p /\ \A i \in 0..n-1 : Idle!InLine(f[i]) /\ f[i+1] = Turned(f[i], b, h)
  BY DEF Trace
<1>3. n - k \in Nat /\ 0 \in 0..n-k /\ n - k \in 0..n-k /\ 0 + k = k /\ (n - k) + k = n OBVIOUS
<1> HIDE DEF g
<1>4. \A i \in 0..(n-k)-1 : Idle!InLine(g[i]) /\ g[i+1] = Turned(g[i], b, h)
  <2> TAKE i \in 0..(n-k)-1
  <2>1. i \in 0..n-k /\ i + 1 \in 0..n-k /\ i + k \in 0..n-1 /\ (i + 1) + k = (i + k) + 1 OBVIOUS
  <2> QED BY <1>1, <1>2, <2>1
<1>5. Trace(g, n - k, f[k], p, b, h) BY <1>1, <1>2, <1>3, <1>4 DEF Trace
<1> QED BY <1>3, <1>5 DEF Reach

\* ... and so does the one behind it.
LEMMA ReachAfter ==
  ASSUME NEW s, NEW p, NEW b, NEW h, Reach(s, p, b, h), Idle!InLine(s), ~Idle!InLine(p)
  PROVE  Reach(Turned(s, b, h), p, b, h)
<1>1. PICK n \in Nat : \E f : Trace(f, n, s, p, b, h) BY DEF Reach
<1>2. PICK f : Trace(f, n, s, p, b, h) BY <1>1
<1>3. n # 0 BY <1>2 DEF Trace
<1>4. 1 \in Nat /\ 1 <= n /\ 0 \in 0..n-1 /\ 0 + 1 = 1 BY <1>1, <1>3
<1>5. f[1] = Turned(s, b, h) BY <1>2, <1>4 DEF Trace
<1> QED BY <1>1, <1>2, <1>4, <1>5, TraceFrom

\* One that has got to the end of the line is where the other is.
LEMMA ReachEnd ==
  ASSUME NEW s, NEW p, NEW b, NEW h, Reach(s, p, b, h), ~Idle!InLine(s)
  PROVE  p = s
<1>1. PICK n \in Nat : \E f : Trace(f, n, s, p, b, h) BY DEF Reach
<1>2. PICK f : Trace(f, n, s, p, b, h) BY <1>1
<1>3. n = 0
  <2> SUFFICES ASSUME n # 0 PROVE FALSE OBVIOUS
  <2>1. 0 \in 0..n-1 BY <1>1
  <2> QED BY <1>2, <2>1 DEF Trace
<1> QED BY <1>2, <1>3 DEF Trace

-----------------------------------------------------------------------------
(* The skip.                                                               *)

\* Numbers have a least one.
LEMMA Least ==
  ASSUME NEW S \in SUBSET Nat, S # {} PROVE \E x \in S : \A y \in S : x <= y
<1> DEFINE R == OpToRel(<, Nat)
<1>1. IsWellFoundedOn(R, Nat) BY NatLessThanWellFounded
<1>2. R = {p \in Nat \X Nat : p[1] < p[2]} BY DEF OpToRel
<1>3. \A x, y \in Nat : y < x => <<y, x>> \in R BY <1>2
<1> HIDE DEF R
<1>4. PICK x \in S : \A y \in S : ~(<<y, x>> \in R) BY <1>1, WFMin
<1>5. ASSUME NEW y \in S PROVE x <= y
  <2>1. x \in Nat /\ y \in Nat BY <1>4
  <2>2. ~(y < x) BY <1>3, <1>4, <2>1, Zenon
  <2> QED BY <2>1, <2>2
<1> QED BY <1>4, <1>5

\* What a quotient is.
LEMMA Quotient ==
  ASSUME NEW m \in Nat, NEW d \in Nat, d > 0
  PROVE  m \div d \in Nat /\ (m \div d) * d <= m /\ m < (m \div d) * d + d
<1>1. m \div d \in Int /\ m % d \in 0..d-1 /\ m = d * (m \div d) + (m % d) OBVIOUS
<1> DEFINE q == m \div d
           r == m % d
<1>2. q \in Int /\ r \in Int /\ 0 <= r /\ r < d /\ m = d * q + r BY <1>1
<1> HIDE DEF q, r
<1>3. q >= 0
  <2> SUFFICES ASSUME q <= -1 PROVE FALSE BY <1>2
  <2>1. d * q <= d * (-1) BY <1>2
  <2> QED BY <1>2, <2>1
<1>4. d * q = q * d BY <1>2
<1> QED BY <1>2, <1>3, <1>4 DEF q, r

\* A late H-IRQ is not due before the margin.
LEMMA NotDue ==
  ASSUME NEW c, NEW h, c \in Poller, c.start <= c.cycles, h \in Nat, Late(h),
         c.cycles - c.start < Line - Margin
  PROVE  ~Due(c, h)
<1> SUFFICES ASSUME Due(c, h) PROVE FALSE OBVIOUS
<1> DEFINE x == c.cycles - c.start
           q == (h * Line) \div Dots
           r == (x * Dots) \div Line
           hl == h * Line
           xd == x * Dots
<1>1. x \in Nat BY Fielded
<1>2. Line \in Nat /\ Line > 0 /\ Dots \in Nat /\ Dots > 0 /\ Margin \in Nat BY IdleTimes
<1>3. r >= h /\ q >= Line - Margin /\ x < Line - Margin BY DEF Due, Late
<1> HIDE DEF x
<1>4. hl \in Nat /\ xd \in Nat BY <1>1, <1>2
<1> HIDE DEF hl, xd
<1>5. q \in Nat /\ q * Dots <= hl BY <1>2, <1>4, Quotient DEF hl
<1>6. r \in Nat /\ r * Line <= xd BY <1>2, <1>4, Quotient DEF xd
<1> HIDE DEF q, r
<1>7. x + 1 <= q BY <1>1, <1>2, <1>3, <1>5
<1>8. (x + 1) * Dots <= q * Dots BY <1>1, <1>2, <1>5, <1>7
<1>9. (x + 1) * Dots = xd + Dots BY <1>1, <1>2 DEF xd
<1>10. h * Line <= r * Line BY <1>2, <1>3, <1>6
<1>11. hl <= xd
  <2>1. hl = h * Line BY DEF hl
  <2>2. h * Line \in Int /\ r * Line \in Int BY <1>2, <1>6
  <2> QED BY <1>4, <1>6, <1>10, <2>1, <2>2
<1>12. q * Dots \in Int BY <1>2, <1>5
<1> QED BY <1>2, <1>4, <1>5, <1>8, <1>9, <1>11, <1>12

\* A CPU that may skip, and how many iterations.
Skips(s) == Sound(s) /\ Idle!InLine(s) /\ Idle!MaySkip(s)
Whole(s) == (Idle!Budget(s) - Margin) \div Idle!Iteration

\* It skips a whole number of iterations, up to the margin.
LEMMA SkipIs ==
  ASSUME NEW s, Skips(s)
  PROVE  /\ Whole(s) \in Nat /\ Whole(s) > 0 /\ Idle!Skipped(s) = Whole(s) * Idle!Iteration
         /\ Whole(s) * Idle!Iteration <= s.start + Line - s.cycles - Margin
         /\ s \in Poller /\ s.pc = "LDA" /\ s.a = 0 /\ s.state = "polls"
         /\ s.cycles \in Nat /\ s.start \in Nat /\ s.start <= s.cycles
<1>1. /\ s \in Poller /\ s.start <= s.cycles /\ s.pc = "LDA" /\ s.a = 0 /\ s.state = "polls"
      /\ Idle!Skipped(s) > 0
  BY DEF Skips, Sound, Idle!InLine, Idle!MaySkip
<1>2. s.cycles \in Nat /\ s.start \in Nat BY <1>1, Fielded
<1> DEFINE m == Idle!Budget(s) - Margin
           d == Idle!Iteration
<1>9. Line \in Nat /\ Margin \in Nat BY IdleTimes
<1>10. Idle!Budget(s) = s.start + Line - s.cycles BY DEF Idle!Budget
<1>11. Idle!Budget(s) \in Int BY <1>2, <1>9, <1>10
<1>12. Idle!Budget(s) <= Margin => Idle!Skipped(s) = 0 BY DEF Idle!Skipped
<1>3. Idle!Budget(s) > Margin BY <1>1, <1>9, <1>11, <1>12
<1>13. ~(Idle!Budget(s) <= Margin) BY <1>3, <1>9, <1>11
<1>4. Idle!Skipped(s) = Whole(s) * d BY <1>13, Zenon DEF Idle!Skipped, Whole
<1>5. m \in Nat /\ d \in Nat /\ d > 0 /\ m = s.start + Line - s.cycles - Margin
  <2>1. d \in Nat /\ d > 0 BY IterationTakes
  <2> HIDE DEF d
  <2> QED BY <1>2, <1>3, <1>9, <1>10, <1>11, <2>1
<1> HIDE DEF m, d
<1>6. m \div d \in Nat /\ (m \div d) * d <= m BY <1>5, Quotient
<1>7. Whole(s) = m \div d BY DEF Whole, m, d
<1>8. Whole(s) > 0
  <2> SUFFICES ASSUME Whole(s) = 0 PROVE FALSE BY <1>6, <1>7
  <2> QED BY <1>1, <1>4, <1>5
<1> QED BY <1>1, <1>2, <1>4, <1>5, <1>6, <1>7, <1>8 DEF d

\* Two turns of a loop over a zero before the margin.
LEMMA TwoTurns ==
  ASSUME NEW c, NEW h, h \in Nat, Late(h), c \in Poller, c.start <= c.cycles,
         c.pc = "LDA", c.a = 0, c.state = "polls",
         c.cycles + Idle!Iteration <= c.start + Line - Margin
  PROVE  /\ Idle!InLine(c) /\ Idle!InLine(Turned(c, 0, h))
         /\ Turned(Turned(c, 0, h), 0, h) = Idle!Spend(c, Idle!Iteration)
<1> DEFINE d == Idle!Spend(c, Idle!Lda)
           e == Turned(c, 0, h)
<1>1. c.cycles \in Nat /\ c.start \in Nat BY Fielded
<1>17. Line \in Nat /\ Margin \in Nat BY IdleTimes
<1>2. c.cycles - c.start < Line - Margin /\ c.cycles < c.start + Line BY <1>1, <1>17, IterationTakes
<1>3. Idle!InLine(c) BY <1>2 DEF Idle!InLine
<1>4. e = AfterLda(c, 0) BY <1>2, NotDue DEF Turned
<1>5. IsSpent(c, Idle!Lda, d) BY IdleTimes, Spending
<1> HIDE DEF d, e
<1>6. e = [d EXCEPT !.a = 0, !.pc = "BEQ"] BY <1>4 DEF AfterLda, d
<1>7. e \in Poller /\ e.cycles = d.cycles /\ e.start = d.start /\ e.pc = "BEQ" /\ e.a = 0 /\ e.state = d.state
  <2> DEFINE g == [d EXCEPT !.a = 0, !.pc = "BEQ"]
  <2>1. d \in Poller BY <1>5 DEF IsSpent
  <2>2. 0 \in Nat OBVIOUS
  <2>3. IsFetched(d, 0, g) BY <2>1, <2>2, Fetching
  <2> HIDE DEF g
  <2>4. e = g BY <1>6 DEF g
  <2> QED BY <2>3, <2>4 DEF IsFetched
<1>8. d.cycles = c.cycles + Idle!Lda /\ d.start = c.start /\ d.state = "polls" /\ d.a = 0 /\ d.pc = "LDA" /\ d \in Poller
  BY <1>5 DEF IsSpent
<1>9. e.cycles - e.start < Line - Margin /\ e.cycles < e.start + Line /\ e.start <= e.cycles
  BY <1>1, <1>7, <1>8, <1>17, IterationTakes
<1>10. Idle!InLine(e) BY <1>7, <1>8, <1>9 DEF Idle!InLine
<1>11. Turned(e, 0, h) = AfterBeq(e) BY <1>7, <1>9, NotDue DEF Turned
<1> DEFINE w == Idle!Beq(TRUE)
<1>12. AfterBeq(e) = [Idle!Spend(e, w) EXCEPT !.pc = "LDA", !.state = "polls"]
  BY <1>7 DEF AfterBeq, Idle!Beq
<1>13. w \in Nat BY IdleTimes
<1> HIDE DEF w
<1>14. AfterBeq(e) = Idle!Spend(d, w)
  <2> DEFINE x == d.cycles + w
             y == IF w >= d.joy THEN 0 ELSE d.joy - w
  <2>1. Idle!Spend(e, w) = [e EXCEPT !.cycles = e.cycles + w, !.joy = IF w >= e.joy THEN 0 ELSE e.joy - w]
    BY DEF Idle!Spend
  <2>2. Idle!Spend(d, w) = [d EXCEPT !.cycles = x, !.joy = y] BY DEF Idle!Spend
  <2>3. e.joy = d.joy BY <1>6, <1>8 DEF Poller
  <2>4. Idle!Spend(e, w) = [e EXCEPT !.cycles = x, !.joy = y] BY <1>7, <2>1, <2>3
  <2> HIDE DEF x, y
  <2>5. AfterBeq(e) = [[[d EXCEPT !.a = 0, !.pc = "BEQ"] EXCEPT !.cycles = x, !.joy = y]
                       EXCEPT !.pc = "LDA", !.state = "polls"]
    BY <1>6, <1>12, <2>4
  <2> DEFINE z == [d EXCEPT !.cycles = x, !.joy = y]
  <2>6. [[[d EXCEPT !.a = 0, !.pc = "BEQ"] EXCEPT !.cycles = x, !.joy = y]
                       EXCEPT !.pc = "LDA", !.state = "polls"] = z
    BY <1>8 DEF Poller
  <2> QED BY <2>2, <2>5, <2>6
<1>15. Idle!Spend(d, w) = Idle!Spend(c, Idle!Lda + w) BY <1>13, IdleTimes, SpendingMore DEF d
<1>16. Idle!Lda + w = Idle!Iteration BY IdleTimes DEF w
<1> QED BY <1>3, <1>10, <1>11, <1>14, <1>15, <1>16 DEF e

\* Every other turn of a trace that gets through a line is one of the iterations skipped.
LEMMA Iterations ==
  ASSUME NEW f, NEW n, NEW s, NEW p, NEW h, n \in Nat, h \in Nat, Late(h),
         Trace(f, n, s, p, 0, h), ~Idle!InLine(p), Skips(s)
  PROVE  \A i \in 0..Whole(s) : 2 * i <= n /\ f[2 * i] = Idle!Spend(s, i * Idle!Iteration)
<1> DEFINE I == Idle!Iteration
           J == Whole(s)
           OK(i) == 2 * i <= n /\ f[2 * i] = Idle!Spend(s, i * I)
           Wrong == {i \in 0..J : ~OK(i)}
<1>1. /\ J \in Nat /\ J * I <= s.start + Line - s.cycles - Margin
      /\ s \in Poller /\ s.pc = "LDA" /\ s.a = 0 /\ s.state = "polls"
      /\ s.cycles \in Nat /\ s.start \in Nat /\ s.start <= s.cycles
  BY SkipIs
<1>2. I \in Nat /\ Line \in Nat /\ Margin \in Nat BY IterationTakes, IdleTimes
<1>3. f[0] = s /\ f[n] = p /\ \A i \in 0..n-1 : Idle!InLine(f[i]) /\ f[i+1] = Turned(f[i], 0, h)
  BY DEF Trace
<1> HIDE DEF I, J
<1>4. OK(0)
  <2>1. Idle!Spend(s, 0) = s
    <3>1. s.joy \in Nat BY <1>1, Fielded
    <3>2. s.cycles + 0 = s.cycles /\ (IF 0 >= s.joy THEN 0 ELSE s.joy - 0) = s.joy BY <1>1, <3>1
    <3>3. Idle!Spend(s, 0) = [s EXCEPT !.cycles = s.cycles + 0,
                                       !.joy = IF 0 >= s.joy THEN 0 ELSE s.joy - 0]
      BY DEF Idle!Spend
    <3>4. Idle!Spend(s, 0) = [s EXCEPT !.cycles = s.cycles, !.joy = s.joy] BY <3>2, <3>3
    <3> QED BY <1>1, <3>4 DEF Poller
  <2>2. 0 * I = 0 /\ 2 * 0 = 0 /\ 0 <= n BY <1>2
  <2> QED BY <1>3, <2>1, <2>2
<1>5. ASSUME NEW k \in 0..J, k < J, OK(k) PROVE OK(k + 1)
  <2> DEFINE c == f[2 * k]
  <2>1. k \in Nat /\ k + 1 <= J BY <1>1, <1>5
  <2>2. k * I \in Nat BY <1>2, <2>1
  <2>3. IsSpent(s, k * I, c)
    <3>1. IsSpent(s, k * I, Idle!Spend(s, k * I)) BY <1>1, <2>2, Spending
    <3> QED BY <1>5, <3>1
  <2>4. (k + 1) * I <= J * I BY <1>1, <1>2, <2>1
  <2>5. (k + 1) * I = k * I + I BY <1>2, <2>1
  <2>6. J * I \in Int /\ (k + 1) * I \in Int BY <1>1, <1>2, <2>1
  <2> HIDE DEF c
  <2>7. /\ c \in Poller /\ c.cycles = s.cycles + k * I /\ c.start = s.start /\ c.pc = "LDA"
        /\ c.a = 0 /\ c.state = "polls"
    BY <1>1, <2>3 DEF IsSpent
  <2>8. c.start <= c.cycles /\ c.cycles + I <= c.start + Line - Margin
    BY <1>1, <1>2, <2>2, <2>4, <2>5, <2>6, <2>7
  <2>9. /\ Idle!InLine(c) /\ Idle!InLine(Turned(c, 0, h))
        /\ Turned(Turned(c, 0, h), 0, h) = Idle!Spend(c, I)
    BY <2>7, <2>8, TwoTurns DEF I
  <2>10. 2 * k < n
    <3>1. 2 * k # n BY <1>3, <2>9 DEF c
    <3> QED BY <1>5, <2>1, <3>1
  <2>11. 2 * k \in 0..n-1 BY <2>1, <2>10
  <2>12. f[2 * k + 1] = Turned(c, 0, h) BY <1>3, <2>11 DEF c
  <2>13. 2 * k + 1 < n
    <3>1. 2 * k + 1 # n BY <1>3, <2>9, <2>12
    <3> QED BY <2>1, <2>10, <3>1
  <2>14. 2 * k + 1 \in 0..n-1 BY <2>1, <2>13
  <2>15. f[(2 * k + 1) + 1] = Idle!Spend(c, I) BY <1>3, <2>9, <2>12, <2>14
  <2>16. (2 * k + 1) + 1 = 2 * (k + 1) /\ 2 * (k + 1) <= n BY <2>1, <2>13
  <2>17. Idle!Spend(c, I) = Idle!Spend(s, k * I + I)
    <3>1. Idle!Spend(Idle!Spend(s, k * I), I) = Idle!Spend(s, k * I + I)
      BY <1>1, <1>2, <2>2, SpendingMore
    <3> QED BY <1>5, <3>1 DEF c
  <2> QED BY <2>5, <2>15, <2>16, <2>17
<1>6. Wrong = {}
  <2> SUFFICES ASSUME Wrong # {} PROVE FALSE OBVIOUS
  <2>1. Wrong \in SUBSET Nat BY <1>1
  <2>2. PICK x \in Wrong : \A y \in Wrong : x <= y BY <2>1, Least
  <2>3. x \in 0..J /\ ~OK(x) /\ x \in Nat BY <2>1, <2>2
  <2>4. x # 0 BY <1>4, <2>3
  <2>5. x - 1 \in 0..J /\ x - 1 < J /\ ~(x <= x - 1) /\ (x - 1) + 1 = x BY <1>1, <2>3, <2>4
  <2>6. OK(x - 1) BY <2>2, <2>5
  <2> HIDE DEF OK, Wrong
  <2> QED BY <1>5, <2>3, <2>5, <2>6
<1> QED BY <1>6 DEF I, J

\* What the skip leaves when the byte is b.
Jumped(s, b) == [Idle!Spend(s, Idle!Skipped(s)) EXCEPT !.a = b]

\* A skip over a zero is on the way of the CPU that does not skip.
LEMMA JumpReach ==
  ASSUME NEW s, NEW p, NEW h, h \in Nat, Late(h), Skips(s), ~Idle!InLine(p), Reach(s, p, 0, h)
  PROVE  Reach(Jumped(s, 0), p, 0, h) /\ Sound(Jumped(s, 0))
<1>1. PICK n \in Nat : \E f : Trace(f, n, s, p, 0, h) BY DEF Reach
<1>2. PICK f : Trace(f, n, s, p, 0, h) BY <1>1
<1> DEFINE J == Whole(s)
           w == Idle!Skipped(s)
           d == Idle!Spend(s, w)
<1>3. J \in Nat /\ w = J * Idle!Iteration /\ s \in Poller /\ s.a = 0 /\ s.pc = "LDA"
      /\ s.cycles \in Nat /\ s.start \in Nat /\ s.start <= s.cycles
  BY SkipIs
<1>4. w \in Nat BY <1>3, IterationTakes
<1>5. IsSpent(s, w, d) BY <1>3, <1>4, Spending
<1>6. J \in 0..J BY <1>3
<1>7. 2 * J <= n /\ f[2 * J] = d BY <1>1, <1>2, <1>3, <1>6, Iterations
<1>8. Reach(d, p, 0, h)
  <2>1. 2 * J \in Nat BY <1>3
  <2> HIDE DEF d, J
  <2> QED BY <1>1, <1>2, <1>7, <2>1, TraceFrom
<1> HIDE DEF d, w
<1>9. d \in Poller /\ d.a = 0 /\ d.start = s.start /\ d.cycles = s.cycles + w
  BY <1>3, <1>5 DEF IsSpent
<1>10. [d EXCEPT !.a = 0] = d BY <1>9 DEF Poller
<1>11. Jumped(s, 0) = d BY <1>10 DEF Jumped, d, w
<1>12. Sound(d) BY <1>3, <1>4, <1>9 DEF Sound
<1> QED BY <1>8, <1>11, <1>12

\* Nor does it matter that a skip over another byte is not: the other CPU has left the loop.
LEMMA Gone ==
  ASSUME NEW s, NEW p, NEW b, NEW h, h \in Nat, b \in Nat, b # 0, Late(h), Skips(s),
         ~Idle!InLine(p), Reach(s, p, b, h)
  PROVE  p.state # "polls"
<1>1. PICK n \in Nat : \E f : Trace(f, n, s, p, b, h) BY DEF Reach
<1>2. PICK f : Trace(f, n, s, p, b, h) BY <1>1
<1>3. f[0] = s /\ f[n] = p /\ \A i \in 0..n-1 : Idle!InLine(f[i]) /\ f[i+1] = Turned(f[i], b, h)
  BY <1>2 DEF Trace
<1> DEFINE I == Idle!Iteration
           L == Idle!Lda
           J == Whole(s)
<1>4. /\ J \in Nat /\ J > 0 /\ J * I <= s.start + Line - s.cycles - Margin
      /\ s \in Poller /\ s.pc = "LDA" /\ s.state = "polls"
      /\ s.cycles \in Nat /\ s.start \in Nat /\ s.start <= s.cycles
  BY SkipIs
<1>5. I \in Nat /\ L \in Nat /\ L > 0 /\ L < I /\ Line \in Nat /\ Margin \in Nat BY IterationTakes, IdleTimes
<1> HIDE DEF I, J, L
<1>6. s.cycles + L - s.start < Line - Margin
  <2>1. 1 * I <= J * I BY <1>4, <1>5
  <2>2. J * I \in Int /\ 1 * I = I BY <1>4, <1>5
  <2> QED BY <1>4, <1>5, <2>1, <2>2
<1>7. ~Due(s, h)
  <2>1. s.cycles - s.start < Line - Margin BY <1>4, <1>5, <1>6
  <2> QED BY <1>4, <2>1, NotDue
<1> DEFINE d == AfterLda(s, b)
<1>8. /\ d \in Poller /\ d.cycles = s.cycles + L /\ d.start = s.start
      /\ d.pc = "BEQ" /\ d.a = b /\ d.state = "polls"
  <2>1. /\ d \in Poller /\ d.cycles = s.cycles + Idle!Lda /\ d.start = s.start
        /\ d.pc = "BEQ" /\ d.a = b /\ d.state = s.state
    BY <1>4, Loading
  <2> HIDE DEF d
  <2> QED BY <1>4, <2>1 DEF L
<1>9. Turned(s, b, h) = d BY <1>4, <1>7 DEF Turned
<1> HIDE DEF d
<1>10. ~Due(d, h) /\ Idle!InLine(d)
  <2>1. d.cycles - d.start < Line - Margin /\ d.start <= d.cycles /\ d.cycles < d.start + Line
    BY <1>4, <1>5, <1>6, <1>8
  <2> QED BY <1>8, <2>1, NotDue DEF Idle!InLine
<1> DEFINE e == AfterBeq(d)
<1>11. e.state = "left"
  <2>1. e.state = IF d.a = 0 THEN "polls" ELSE "left" BY <1>8, Branching
  <2> HIDE DEF e
  <2> QED BY <1>8, <2>1
<1>12. Turned(d, b, h) = e BY <1>8, <1>10 DEF Turned
<1> HIDE DEF e
<1>13. ~Idle!InLine(e) BY <1>11 DEF Idle!InLine
<1>14. n # 0
  <2>1. Idle!InLine(s) BY DEF Skips
  <2> QED BY <1>3, <2>1
<1>15. f[1] = d
  <2>1. 0 \in 0..n-1 /\ 0 + 1 = 1 BY <1>1, <1>14
  <2> QED BY <1>3, <1>9, <2>1
<1>16. n # 1 BY <1>3, <1>10, <1>15
<1>17. f[2] = e
  <2>1. 1 \in 0..n-1 /\ 1 + 1 = 2 BY <1>1, <1>14, <1>16
  <2> QED BY <1>3, <1>12, <1>15, <2>1
<1>18. n = 2
  <2> SUFFICES ASSUME n # 2 PROVE FALSE OBVIOUS
  <2>1. 2 \in 0..n-1 BY <1>1, <1>14, <1>16
  <2> QED BY <1>3, <1>13, <1>17, <2>1
<1> QED BY <1>3, <1>11, <1>17, <1>18

-----------------------------------------------------------------------------
(* The two CPUs.                                                           *)

\* The CPU that skips is on the other's way, or that one has left the loop in this line.
Behind(s, p, b, h) == Sound(s) /\ Sound(p) /\ Reach(s, p, b, h)

IdleInv ==
  /\ byte \in 0..255 /\ htime \in Nat
  /\ Late(htime) => Behind(skip, plain, byte, htime) \/ (byte # 0 /\ plain.state # "polls")

\* The turns of the model.
LEMMA TurnIs ==
  ASSUME NEW c
  PROVE  /\ Idle!Turn(c, FALSE) = Turned(c, byte, htime)
         /\ \/ Idle!Turn(c, TRUE) = Turned(c, byte, htime)
            \/ (Idle!MaySkip(c) /\ Idle!Turn(c, TRUE) = Jumped(c, byte))
<1>1. Idle!Execute(c) = IF c.pc = "LDA" THEN AfterLda(c, byte) ELSE AfterBeq(c)
  BY DEF Idle!Execute, AfterLda, AfterBeq
<1>2. Idle!SkipOn(c) = Jumped(c, byte) BY DEF Idle!SkipOn, Jumped
<1>3. Idle!Fires(c) <=> Due(c, htime) BY DEF Idle!Fires, Due
<1>4. CASE Due(c, htime)
  BY <1>3, <1>4 DEF Idle!Turn, Turned
<1>5. CASE ~Due(c, htime)
  <2>1. Turned(c, byte, htime) = Idle!Execute(c) BY <1>1, <1>5 DEF Turned
  <2>2. Idle!Turn(c, FALSE) = Idle!Execute(c) BY <1>3, <1>5 DEF Idle!Turn
  <2>3. Idle!Turn(c, TRUE) = IF Idle!MaySkip(c) THEN Jumped(c, byte) ELSE Idle!Execute(c)
    BY <1>2, <1>3, <1>5 DEF Idle!Turn
  <2>4. CASE Idle!MaySkip(c) BY <2>1, <2>2, <2>3, <2>4
  <2>5. CASE ~Idle!MaySkip(c) BY <2>1, <2>2, <2>3, <2>5
  <2> QED BY <2>4, <2>5
<1> QED BY <1>4, <1>5

\* Both begin alike.
LEMMA IdleInitially == MCInit => IdleInv
<1> SUFFICES ASSUME MCInit PROVE IdleInv OBVIOUS
<1>1. Starts \subseteq 0..Line-1 /\ HTimes \subseteq Nat /\ Bytes \subseteq 0..255 /\ JoyTimes \subseteq Nat
  BY IdleConstants DEF Idle!IdleAssumption
<1>2. byte \in 0..255 /\ htime \in Nat /\ skip = plain
  <2>1. CASE byte = 0 /\ htime = 340 /\ skip = plain BY <2>1
  <2>2. CASE Idle!Init
    <3>1. byte \in Bytes /\ htime \in HTimes /\ skip = plain BY <2>2 DEF Idle!Init
    <3> QED BY <1>1, <3>1
  <2> QED BY <2>1, <2>2 DEF MCInit
<1>3. Sound(plain)
  <2>1. ASSUME NEW x \in Nat, NEW j \in Nat, NEW pc \in {"LDA", "BEQ"}
        PROVE  Sound([cycles |-> x, start |-> 0, pc |-> pc, a |-> 0, joy |-> j, state |-> "polls"])
    BY <2>1 DEF Sound, Poller
  <2>2. \E x \in Nat, j \in Nat, pc \in {"LDA", "BEQ"} :
          plain = [cycles |-> x, start |-> 0, pc |-> pc, a |-> 0, joy |-> j, state |-> "polls"]
    <3>1. CASE focus = "cpu" /\ plain = [cycles |-> 0, start |-> 0, pc |-> "LDA", a |-> 0,
                                         joy |-> 0, state |-> "polls"]
      BY <3>1
    <3>2. CASE Idle!Init
      <4>1. \A x \in Starts : x \in Nat BY <1>1, IdleTimes
      <4> QED BY <1>1, <3>2, <4>1 DEF Idle!Init
    <3> QED BY <3>1, <3>2 DEF MCInit
  <2> QED BY <2>1, <2>2
<1> QED BY <1>2, <1>3, ReachSelf DEF IdleInv, Behind

\* A turn of either CPU and a new scanline keep it.
LEMMA IdleSteps == IdleInv /\ [MCNext]_<<focus, vars, idleVars>> => IdleInv'
<1> SUFFICES ASSUME IdleInv, [MCNext]_<<focus, vars, idleVars>> PROVE IdleInv' OBVIOUS
<1>1. CASE UNCHANGED idleVars BY <1>1 DEF IdleInv, idleVars, Behind, Late
<1>2. ASSUME Idle!Next PROVE IdleInv'
  <2>1. byte \in 0..255 /\ byte \in Nat /\ htime \in Nat BY DEF IdleInv
  <2>2. htime' = htime BY <1>2 DEF Idle!Next, Idle!RunPlain, Idle!RunSkip, Idle!NextLine
  <2>3. byte' \in 0..255
    <3>1. Bytes \subseteq 0..255 BY IdleConstants DEF Idle!IdleAssumption
    <3> QED BY <1>2, <2>1, <3>1 DEF Idle!Next, Idle!RunPlain, Idle!RunSkip, Idle!NextLine
  <2>4. SUFFICES ASSUME Late(htime)
        PROVE  Behind(skip', plain', byte', htime) \/ (byte' # 0 /\ plain'.state # "polls")
    BY <2>1, <2>2, <2>3 DEF IdleInv, Late
  <2>5. Behind(skip, plain, byte, htime) \/ (byte # 0 /\ plain.state # "polls") BY <2>4 DEF IdleInv
  <2>6. CASE Idle!RunPlain
    <3>1. Idle!InLine(plain) /\ plain' = Turned(plain, byte, htime) /\ byte' = byte /\ skip' = skip
      BY <2>6, TurnIs DEF Idle!RunPlain
    <3>2. plain.state = "polls" BY <3>1 DEF Idle!InLine
    <3>3. Sound(skip) /\ Sound(plain) /\ Reach(skip, plain, byte, htime) BY <2>5, <3>2 DEF Behind
    <3>4. Sound(plain') BY <2>1, <3>1, <3>3, Turning
    <3>5. Reach(skip, plain', byte, htime) BY <3>1, <3>3, ReachOn
    <3> QED BY <3>1, <3>3, <3>4, <3>5 DEF Behind
  <2>7. CASE Idle!RunSkip
    <3>1. /\ ~Idle!InLine(plain) /\ Idle!InLine(skip) /\ byte' = byte /\ plain' = plain
          /\ skip' = Idle!Turn(skip, TRUE)
      BY <2>7 DEF Idle!RunSkip
    <3>2. CASE byte # 0 /\ plain.state # "polls" BY <3>1, <3>2
    <3>3. CASE Behind(skip, plain, byte, htime)
      <4>1. Sound(skip) /\ Sound(plain) /\ Reach(skip, plain, byte, htime) BY <3>3 DEF Behind
      <4>2. CASE skip' = Turned(skip, byte, htime)
        <5>1. Sound(skip') BY <2>1, <3>1, <4>1, <4>2, Turning
        <5>2. Reach(skip', plain, byte, htime) BY <3>1, <4>1, <4>2, ReachAfter
        <5> QED BY <3>1, <4>1, <5>1, <5>2 DEF Behind
      <4>3. CASE Idle!MaySkip(skip) /\ skip' = Jumped(skip, byte)
        <5>1. Skips(skip) BY <3>1, <4>1, <4>3 DEF Skips
        <5>2. CASE byte = 0
          <6>1. Reach(Jumped(skip, 0), plain, 0, htime) /\ Sound(Jumped(skip, 0))
            BY <2>1, <2>4, <3>1, <4>1, <5>1, <5>2, JumpReach
          <6> QED BY <3>1, <4>1, <4>3, <5>2, <6>1 DEF Behind
        <5>3. CASE byte # 0
          <6>1. plain.state # "polls" BY <2>1, <2>4, <3>1, <4>1, <5>1, <5>3, Gone
          <6> QED BY <3>1, <5>3, <6>1
        <5> QED BY <5>2, <5>3
      <4> QED BY <3>1, <4>2, <4>3, TurnIs
    <3> QED BY <2>5, <3>2, <3>3
  <2>8. CASE Idle!NextLine
    <3>1. /\ ~Idle!InLine(skip) /\ plain.state = "polls"
          /\ plain' = [plain EXCEPT !.start = plain.cycles] /\ skip' = [skip EXCEPT !.start = skip.cycles]
      BY <2>8 DEF Idle!NextLine, Idle!LineOver
    <3>2. Sound(skip) /\ Sound(plain) /\ Reach(skip, plain, byte, htime) BY <2>5, <3>1 DEF Behind
    <3>3. plain = skip BY <3>1, <3>2, ReachEnd
    <3>4. plain' = skip' BY <3>1, <3>3
    <3>5. Sound(plain')
      <4>1. plain \in Poller /\ (plain.pc = "LDA" => plain.a = 0) BY <3>1, <3>2 DEF Sound
      <4> DEFINE d == [plain EXCEPT !.start = plain.cycles]
      <4>2. /\ d \in Poller /\ d.start = plain.cycles /\ d.cycles = plain.cycles /\ plain.cycles \in Nat
            /\ d.pc = plain.pc /\ d.a = plain.a
        BY <4>1 DEF Poller
      <4> HIDE DEF d
      <4>3. d.start <= d.cycles BY <4>2
      <4>4. plain' = d BY <3>1 DEF d
      <4> QED BY <4>1, <4>2, <4>3, <4>4 DEF Sound
    <3>6. Reach(plain', plain', byte', htime) BY ReachSelf
    <3> QED BY <3>4, <3>5, <3>6 DEF Behind
  <2> QED BY <1>2, <2>6, <2>7, <2>8 DEF Idle!Next
<1> QED BY <1>1, <1>2 DEF MCNext, idleVars

\* For any timing of the bus and of the scanline, wherever the loop is entered and whatever
\* the byte becomes: as long as no interrupt is due where the fast path may skip, it is
\* invisible at the end of every scanline (cpu/mod.rs:212-258).
THEOREM SkipsAreAligned == MCSpec => []SkipAligned
<1>1. IdleInv => SkipAligned
  <2> SUFFICES ASSUME IdleInv, Idle!LineOver, byte = 0, (htime * Line) \div Dots >= Line - Margin
               PROVE  plain = skip
    BY DEF SkipAligned, Idle!SkipAligned
  <2>1. Late(htime) BY DEF Late
  <2>2. Reach(skip, plain, byte, htime) BY <2>1 DEF IdleInv, Behind
  <2> QED BY <2>2, ReachEnd DEF Idle!LineOver
<1> QED BY <1>1, IdleInitially, IdleSteps, PTL DEF MCSpec

-----------------------------------------------------------------------------
(* Handlers that save what they use.                                       *)

\* Stack addresses: one below another, and the i-th above.
Under(e, v) == IF e THEN 256 + (Plus(v, 65535) % 256) ELSE Plus(v, 65535)
Over(e, v, i) == IF e THEN 256 + (Plus(v, i) % 256) ELSE Plus(v, i)

\* The stack of a mode is a range of addresses, which the pointer goes around.
Bottom(e) == IF e THEN 256 ELSE 0
Ceiling(e) == IF e THEN 511 ELSE 65535
OnStack(e, v) == v \in Int /\ Bottom(e) <= v /\ v <= Ceiling(e)

LEMMA StackRange ==
  ASSUME NEW e \in BOOLEAN
  PROVE  Bottom(e) \in Int /\ Ceiling(e) \in Int /\ Bottom(e) + 4 <= Ceiling(e)
<1>1. CASE e = TRUE BY <1>1, SMT DEF Bottom, Ceiling
<1>2. CASE e = FALSE BY <1>2, SMT DEF Bottom, Ceiling
<1> QED BY <1>1, <1>2

LEMMA StackWord ==
  ASSUME NEW e \in BOOLEAN, NEW v
  PROVE  OnStack(e, v) <=> v \in Word16 /\ (e = TRUE => Hi(v) = 1)
<1>1. CASE e = TRUE BY <1>1, Ranges, SMT DEF OnStack, Bottom, Ceiling, Hi
<1>2. CASE e = FALSE BY <1>2, Ranges, SMT DEF OnStack, Bottom, Ceiling
<1> QED BY <1>1, <1>2

LEMMA UnderIs ==
  ASSUME NEW e \in BOOLEAN, NEW v, OnStack(e, v)
  PROVE  Under(e, v) = IF v = Bottom(e) THEN Ceiling(e) ELSE v - 1
<1>1. CASE e = TRUE BY <1>1, SMT DEF OnStack, Bottom, Ceiling, Under, Plus
<1>2. CASE e = FALSE BY <1>2, SMT DEF OnStack, Bottom, Ceiling, Under, Plus
<1> QED BY <1>1, <1>2

LEMMA OverIs ==
  ASSUME NEW e \in BOOLEAN, NEW v, OnStack(e, v), NEW i \in 1..4
  PROVE  Over(e, v, i) = IF v + i > Ceiling(e) THEN v + i - Ceiling(e) + Bottom(e) - 1 ELSE v + i
<1>1. CASE e = TRUE BY <1>1, SMT DEF OnStack, Bottom, Ceiling, Over, Plus
<1>2. CASE e = FALSE BY <1>2, SMT DEF OnStack, Bottom, Ceiling, Over, Plus
<1> QED BY <1>1, <1>2

\* Going up comes back to where going down began, around the end of the page or the bank.
LEMMA UpAgain ==
  ASSUME NEW e \in BOOLEAN, NEW v, OnStack(e, v),
         NEW a, a = Under(e, v), NEW b, b = Under(e, a), NEW c, c = Under(e, b),
         NEW d, d = Under(e, c)
  PROVE  /\ OnStack(e, a) /\ OnStack(e, b) /\ OnStack(e, c) /\ OnStack(e, d)
         /\ Over(e, c, 1) = b /\ Over(e, c, 2) = a /\ Over(e, c, 3) = v
         /\ Over(e, d, 1) = c /\ Over(e, d, 2) = b /\ Over(e, d, 3) = a /\ Over(e, d, 4) = v
         /\ v # a /\ v # b /\ v # c /\ a # b /\ a # c /\ b # c
<1> DEFINE z == Bottom(e)
           y == Ceiling(e)
           down(u) == IF u = z THEN y ELSE u - 1
<1>1. z \in Int /\ y \in Int /\ z + 4 <= y BY StackRange
<1>2. v \in Int /\ z <= v /\ v <= y BY DEF OnStack
<1>3. \A u : OnStack(e, u) <=> u \in Int /\ z <= u /\ u <= y BY DEF OnStack
<1>4. \A u : OnStack(e, u) => Under(e, u) = down(u) BY UnderIs
<1> HIDE DEF z, y
<1>5. \A u : OnStack(e, u) => OnStack(e, down(u)) BY <1>1, <1>3, SMT
<1>6. OnStack(e, a) /\ a = down(v) BY <1>4, <1>5
<1>7. OnStack(e, b) /\ b = down(a) BY <1>4, <1>5, <1>6
<1>8. OnStack(e, c) /\ c = down(b) BY <1>4, <1>5, <1>7
<1>9. OnStack(e, d) /\ d = down(c) BY <1>4, <1>5, <1>8
<1>10. \A i \in 1..4 : Over(e, c, i) = IF c + i > y THEN c + i - y + z - 1 ELSE c + i
  BY <1>8, OverIs DEF z, y
<1>11. \A i \in 1..4 : Over(e, d, i) = IF d + i > y THEN d + i - y + z - 1 ELSE d + i
  BY <1>9, OverIs DEF z, y
<1>12. 1 \in 1..4 /\ 2 \in 1..4 /\ 3 \in 1..4 /\ 4 \in 1..4 OBVIOUS
<1>13. a \in Int /\ b \in Int /\ c \in Int /\ d \in Int BY <1>3, <1>6, <1>7, <1>8, <1>9
<1> HIDE DEF down
<1>17. \A u : down(u) = IF u = z THEN y ELSE u - 1 BY DEF down
<1>18. /\ a = IF v = z THEN y ELSE v - 1
       /\ b = IF a = z THEN y ELSE a - 1
       /\ c = IF b = z THEN y ELSE b - 1
       /\ d = IF c = z THEN y ELSE c - 1
  BY <1>6, <1>7, <1>8, <1>9, <1>17
<1>14. v # a /\ v # b /\ v # c /\ a # b /\ a # c /\ b # c BY <1>1, <1>2, <1>13, <1>18, SMT
<1>15. Over(e, c, 1) = b /\ Over(e, c, 2) = a /\ Over(e, c, 3) = v
  <2>1. /\ Over(e, c, 1) = IF c + 1 > y THEN c + 1 - y + z - 1 ELSE c + 1
        /\ Over(e, c, 2) = IF c + 2 > y THEN c + 2 - y + z - 1 ELSE c + 2
        /\ Over(e, c, 3) = IF c + 3 > y THEN c + 3 - y + z - 1 ELSE c + 3
    BY <1>10, <1>12
  <2> QED BY <1>1, <1>2, <1>13, <1>18, <2>1, SMT
<1>16. Over(e, d, 1) = c /\ Over(e, d, 2) = b /\ Over(e, d, 3) = a /\ Over(e, d, 4) = v
  <2>1. /\ Over(e, d, 1) = IF d + 1 > y THEN d + 1 - y + z - 1 ELSE d + 1
        /\ Over(e, d, 2) = IF d + 2 > y THEN d + 2 - y + z - 1 ELSE d + 2
        /\ Over(e, d, 3) = IF d + 3 > y THEN d + 3 - y + z - 1 ELSE d + 3
        /\ Over(e, d, 4) = IF d + 4 > y THEN d + 4 - y + z - 1 ELSE d + 4
    BY <1>11, <1>12
  <2> QED BY <1>1, <1>2, <1>13, <1>18, <2>1, SMT
<1> QED BY <1>6, <1>7, <1>8, <1>9, <1>14, <1>15, <1>16

\* Pulls go up one at a time.
LEMMA OneUp ==
  ASSUME NEW e \in BOOLEAN, NEW v, OnStack(e, v), NEW i \in 1..3
  PROVE  Over(e, Over(e, v, i), 1) = Over(e, v, i + 1)
<1> DEFINE z == Bottom(e)
           y == Ceiling(e)
           w == Over(e, v, i)
<1>1. z \in Int /\ y \in Int /\ z + 4 <= y BY StackRange
<1>2. v \in Int /\ z <= v /\ v <= y BY DEF OnStack
<1>3. i \in 1..4 /\ i + 1 \in 1..4 /\ 1 \in 1..4 OBVIOUS
<1>4. w = IF v + i > y THEN v + i - y + z - 1 ELSE v + i BY <1>3, OverIs
<1>5. Over(e, v, i + 1) = IF v + (i + 1) > y THEN v + (i + 1) - y + z - 1 ELSE v + (i + 1) BY <1>3, OverIs
<1>6. OnStack(e, w) <=> w \in Int /\ z <= w /\ w <= y BY DEF OnStack
<1>7. OnStack(e, w) => Over(e, w, 1) = IF w + 1 > y THEN w + 1 - y + z - 1 ELSE w + 1 BY <1>3, OverIs
<1> HIDE DEF z, y, w
<1>8. OnStack(e, w) BY <1>1, <1>2, <1>4, <1>6, SMT
<1>9. Over(e, w, 1) = Over(e, v, i + 1) BY <1>1, <1>2, <1>4, <1>5, <1>7, <1>8, SMT
<1> QED BY <1>9 DEF w

\* What memory holds, after a byte is put into it.
LEMMA PutHeld ==
  ASSUME NEW mem, NEW k, NEW v, NEW j
  PROVE  Held(Put(mem, k, v), j) = IF j = k THEN v ELSE Held(mem, j)
<1>1. DOMAIN Put(mem, k, v) = DOMAIN mem \cup {k} BY DEF Put
<1>2. \A i \in DOMAIN mem \cup {k} : Put(mem, k, v)[i] = IF i = k THEN v ELSE mem[i] BY DEF Put
<1> HIDE DEF Put
<1> QED BY <1>1, <1>2 DEF Held

LEMMA ReadHeld ==
  ASSUME NEW s, NEW v \in Int
  PROVE  Read(s, 0, v) = Held(s.mem, v)
<1>1. 0 * 65536 + v = v BY SMT
<1> QED BY <1>1, SMT DEF Read, Held

\* A push, as a change of the machine.
Pushed(s, t, v) ==
  /\ t.mem = Put(s.mem, s.sp, v) /\ t.sp = Under(s.e, s.sp)
  /\ t.a = s.a /\ t.x = s.x /\ t.y = s.y /\ t.dp = s.dp /\ t.dbr = s.dbr /\ t.e = s.e
  /\ t.p = s.p /\ t.pbr = s.pbr /\ t.stopped = s.stopped

LEMMA PushIs ==
  ASSUME NEW s, Good(s), NEW v \in Byte
  PROVE  Good(PushByte(s, v)) /\ Pushed(s, PushByte(s, v), v)
<1> DEFINE m == Put(s.mem, 0 * 65536 + s.sp, v)
           t == Write(s, 0, s.sp, v)
           w == Page1(t, Plus(t.sp, 65535))
<1>1. s \in Machine BY DEF Good
<1>2. s.sp \in Int BY Fields, Numbers
<1>3. m = Put(s.mem, s.sp, v)
  <2>1. 0 * 65536 + s.sp = s.sp BY <1>2, SMT
  <2> HIDE DEF Put
  <2> QED BY <2>1, SMT
<1>4. t = [s EXCEPT !.mem = m] BY DEF Write
<1> HIDE DEF m, t
<1>5. /\ t.mem = m /\ t.sp = s.sp /\ t.a = s.a /\ t.x = s.x /\ t.y = s.y /\ t.dp = s.dp
      /\ t.dbr = s.dbr /\ t.e = s.e /\ t.p = s.p /\ t.pbr = s.pbr /\ t.stopped = s.stopped
      /\ DOMAIN t = DOMAIN s
  BY <1>1, <1>4 DEF Machine
<1>6. w = Under(s.e, s.sp) BY <1>5 DEF Page1, Under
<1>9. PushByte(s, v) = [t EXCEPT !.sp = Page1(t, Plus(@, 65535))] BY <1>5 DEF PushByte, t, Page1
<1>7. PushByte(s, v) = [t EXCEPT !.sp = w] BY <1>9 DEF w
<1> HIDE DEF w
<1>8. LET u == [t EXCEPT !.sp = w]
      IN  /\ u.sp = w /\ u.mem = t.mem /\ u.a = t.a /\ u.x = t.x /\ u.y = t.y /\ u.dp = t.dp
          /\ u.dbr = t.dbr /\ u.e = t.e /\ u.p = t.p /\ u.pbr = t.pbr
          /\ u.stopped = t.stopped
  BY <1>1, <1>5 DEF Machine
<1> QED BY <1>3, <1>5, <1>6, <1>7, <1>8, PushByteGood DEF Pushed

\* The machine s has entered a handler, which is t, having pushed the status byte p.
Framed(s, t, p) ==
  /\ t.a = s.a /\ t.x = s.x /\ t.y = s.y /\ t.dp = s.dp /\ t.dbr = s.dbr /\ t.e = s.e
  /\ t.stopped = s.stopped /\ OnStack(s.e, t.sp)
  /\ Held(t.mem, Over(s.e, t.sp, 1)) = p
  /\ Held(t.mem, Over(s.e, t.sp, 2)) = s.pc % 256
  /\ Held(t.mem, Over(s.e, t.sp, 3)) = Hi(s.pc)
  /\ s.e = TRUE => t.pbr = s.pbr /\ Over(s.e, t.sp, 3) = s.sp
  /\ s.e = FALSE => Held(t.mem, Over(s.e, t.sp, 4)) = s.pbr /\ Over(s.e, t.sp, 4) = s.sp

LEMMA GoodStack ==
  ASSUME NEW s, Good(s) PROVE OnStack(s.e, s.sp) /\ s.e \in BOOLEAN
<1>1. s.e \in BOOLEAN /\ s.sp \in Word16 BY Fields
<1>2. s.e = TRUE => Hi(s.sp) = 1 BY DEF Good, Confined
<1> QED BY <1>1, <1>2, StackWord

LEMMA EnterFrames ==
  ASSUME NEW s, Good(s), NEW p \in Byte, NEW vecE, NEW vecN
  PROVE  Framed(s, Enter(s, p, vecE, vecN), p)
<1> DEFINE r == IF s.e THEN s ELSE PushByte(s, s.pbr)
           h == PushByte(r, Hi(s.pc))
           l == PushByte(h, s.pc % 256)
           u == PushByte(l, p)
           t == Enter(s, p, vecE, vecN)
<1>1. s.e \in BOOLEAN /\ OnStack(s.e, s.sp) BY GoodStack
<1>2. Hi(s.pc) \in Byte /\ s.pc % 256 \in Byte /\ s.pbr \in Byte BY Fields, HalfType
<1>3. Good(r) BY <1>2, PushByteGood
<1>4. s.e = TRUE => r = s BY DEF r
<1>5. s.e = FALSE => Pushed(s, r, s.pbr) BY <1>2, PushIs
<1>6. r.e = s.e BY <1>1, <1>4, <1>5 DEF Pushed
<1> HIDE DEF r
<1>7. Good(h) /\ Pushed(r, h, Hi(s.pc)) BY <1>2, <1>3, PushIs
<1> HIDE DEF h
<1>8. Good(l) /\ Pushed(h, l, s.pc % 256) BY <1>2, <1>7, PushIs
<1> HIDE DEF l
<1>9. Good(u) /\ Pushed(l, u, p) BY <1>8, PushIs
<1> HIDE DEF u
<1>10. /\ t.mem = u.mem /\ t.sp = u.sp /\ t.a = u.a /\ t.x = u.x /\ t.y = u.y /\ t.dp = u.dp
       /\ t.dbr = u.dbr /\ t.e = u.e /\ t.stopped = u.stopped /\ (s.e = TRUE => t.pbr = u.pbr)
  <2> DEFINE q == Masked(u.p)
             b == IF s.e THEN u.pbr ELSE 0
             k == ReadWord(u, 0, IF s.e THEN vecE ELSE vecN)
  <2>1. t = [u EXCEPT !.p = q, !.pbr = b, !.pc = k] BY DEF Enter, u, l, h, r, PushWord
  <2>2. u \in Machine BY <1>9 DEF Good
  <2>3. s.e = TRUE => b = u.pbr OBVIOUS
  <2> HIDE DEF q, b, k, t
  <2> QED BY <2>1, <2>2, <2>3 DEF Machine
<1> HIDE DEF t
<1>11. /\ h.e = s.e /\ l.e = s.e /\ u.e = s.e
  BY <1>6, <1>7, <1>8, <1>9 DEF Pushed
<1>12. h.sp = Under(s.e, r.sp) /\ l.sp = Under(s.e, h.sp) /\ u.sp = Under(s.e, l.sp)
  BY <1>6, <1>7, <1>8, <1>9, <1>11 DEF Pushed
<1>13. /\ t.a = s.a /\ t.x = s.x /\ t.y = s.y /\ t.dp = s.dp /\ t.dbr = s.dbr /\ t.e = s.e
       /\ t.stopped = s.stopped
  BY <1>1, <1>4, <1>5, <1>7, <1>8, <1>9, <1>10, <1>11 DEF Pushed
<1>14. \A j : Held(u.mem, j) = IF j = l.sp THEN p ELSE IF j = h.sp THEN s.pc % 256
                               ELSE IF j = r.sp THEN Hi(s.pc) ELSE Held(r.mem, j)
  <2>1. u.mem = Put(l.mem, l.sp, p) /\ l.mem = Put(h.mem, h.sp, s.pc % 256)
        /\ h.mem = Put(r.mem, r.sp, Hi(s.pc))
    BY <1>7, <1>8, <1>9 DEF Pushed
  <2>2. \A j : Held(u.mem, j) = IF j = l.sp THEN p ELSE Held(l.mem, j) BY <2>1, PutHeld
  <2>3. \A j : Held(l.mem, j) = IF j = h.sp THEN s.pc % 256 ELSE Held(h.mem, j) BY <2>1, PutHeld
  <2>4. \A j : Held(h.mem, j) = IF j = r.sp THEN Hi(s.pc) ELSE Held(r.mem, j) BY <2>1, PutHeld
  <2> QED BY <2>2, <2>3, <2>4
<1>15. CASE s.e = TRUE
  <2>1. r = s BY <1>4, <1>15
  <2>2. /\ OnStack(s.e, u.sp)
        /\ Over(s.e, u.sp, 1) = l.sp /\ Over(s.e, u.sp, 2) = h.sp /\ Over(s.e, u.sp, 3) = s.sp
        /\ s.sp # h.sp /\ s.sp # l.sp /\ h.sp # l.sp
    BY <1>1, <1>12, <2>1, UpAgain
  <2>3. t.pbr = s.pbr BY <1>7, <1>8, <1>9, <1>10, <1>15, <2>1 DEF Pushed
  <2>4. Held(u.mem, l.sp) = p /\ Held(u.mem, h.sp) = s.pc % 256 /\ Held(u.mem, s.sp) = Hi(s.pc)
    BY <1>14, <2>1, <2>2
  <2>5. Framed(s, t, p) BY <1>10, <1>13, <1>15, <2>2, <2>3, <2>4, SMT DEF Framed
  <2> QED BY <2>5 DEF t
<1>16. CASE s.e = FALSE
  <2>1. r.sp = Under(s.e, s.sp) /\ r.mem = Put(s.mem, s.sp, s.pbr) BY <1>5, <1>16 DEF Pushed
  <2>2. /\ OnStack(s.e, u.sp)
        /\ Over(s.e, u.sp, 1) = l.sp /\ Over(s.e, u.sp, 2) = h.sp /\ Over(s.e, u.sp, 3) = r.sp
        /\ Over(s.e, u.sp, 4) = s.sp
        /\ s.sp # r.sp /\ s.sp # h.sp /\ s.sp # l.sp /\ r.sp # h.sp /\ r.sp # l.sp /\ h.sp # l.sp
    BY <1>1, <1>12, <2>1, UpAgain
  <2>3. Held(r.mem, s.sp) = s.pbr BY <2>1, PutHeld
  <2>4. /\ Held(u.mem, l.sp) = p /\ Held(u.mem, h.sp) = s.pc % 256 /\ Held(u.mem, r.sp) = Hi(s.pc)
        /\ Held(u.mem, s.sp) = s.pbr
    BY <1>14, <2>2, <2>3
  <2>5. Framed(s, t, p) BY <1>10, <1>13, <1>16, <2>2, <2>4, SMT DEF Framed
  <2> QED BY <2>5 DEF t
<1> QED BY <1>1, <1>15, <1>16 DEF t

\* The bits of a number made of bits.
MadeOf(b, b7, b6, b5, b4, b3, b2, b1, b0) ==
  /\ {b7, b6, b5, b4, b3, b2, b1, b0} \subseteq {0, 1}
  /\ b = 128 * b7 + 64 * b6 + 32 * b5 + 16 * b4 + 8 * b3 + 4 * b2 + 2 * b1 + b0
HasBits(b, b7, b6, b5, b4, b3, b2, b1, b0) ==
  /\ Bit(b, 128) <=> b7 = 1
  /\ Bit(b, 64) <=> b6 = 1
  /\ Bit(b, 32) <=> b5 = 1
  /\ Bit(b, 16) <=> b4 = 1
  /\ Bit(b, 8) <=> b3 = 1
  /\ Bit(b, 4) <=> b2 = 1
  /\ Bit(b, 2) <=> b1 = 1
  /\ Bit(b, 1) <=> b0 = 1

LEMMA BitsOf ==
  ASSUME NEW b, NEW b7, NEW b6, NEW b5, NEW b4, NEW b3, NEW b2, NEW b1, NEW b0,
         MadeOf(b, b7, b6, b5, b4, b3, b2, b1, b0)
  PROVE  HasBits(b, b7, b6, b5, b4, b3, b2, b1, b0)
<1>0. /\ b7 \in {0, 1} /\ b6 \in {0, 1} /\ b5 \in {0, 1} /\ b4 \in {0, 1}
      /\ b3 \in {0, 1} /\ b2 \in {0, 1} /\ b1 \in {0, 1} /\ b0 \in {0, 1}
      /\ b = 128 * b7 + 64 * b6 + 32 * b5 + 16 * b4 + 8 * b3 + 4 * b2 + 2 * b1 + b0
  BY DEF MadeOf
<1>1. /\ b \div 128 = b7
      /\ b \div 64 = 2 * b7 + b6
      /\ b \div 32 = 4 * b7 + 2 * b6 + b5
      /\ b \div 16 = 8 * b7 + 4 * b6 + 2 * b5 + b4
      /\ b \div 8 = 16 * b7 + 8 * b6 + 4 * b5 + 2 * b4 + b3
      /\ b \div 4 = 32 * b7 + 16 * b6 + 8 * b5 + 4 * b4 + 2 * b3 + b2
      /\ b \div 2 = 64 * b7 + 32 * b6 + 16 * b5 + 8 * b4 + 4 * b3 + 2 * b2 + b1
      /\ b \div 1 = b
  BY <1>0, SMT
<1>2. \A q \in Int : (2 * q) % 2 = 0 /\ (2 * q + 1) % 2 = 1 BY SMT
<1>3. /\ (b \div 128) % 2 = b7 /\ (b \div 64) % 2 = b6 /\ (b \div 32) % 2 = b5 /\ (b \div 16) % 2 = b4
      /\ (b \div 8) % 2 = b3 /\ (b \div 4) % 2 = b2 /\ (b \div 2) % 2 = b1 /\ (b \div 1) % 2 = b0
  BY <1>0, <1>1, SMT
<1> QED BY <1>3 DEF Bit, HasBits

\* A status read from its byte: in emulation mode the bit of X may be either, as B is there.
LEMMA StatusAgain ==
  ASSUME NEW p \in Status, NEW e \in BOOLEAN, e = TRUE => Narrow(p), NEW b,
         NEW x \in {0, 1}, b = ToByte(p, e) + 16 * (x - Num(p.x)), e = FALSE => x = Num(p.x)
  PROVE  FromByte(b, e) = p
<1>2. \A u \in BOOLEAN : Num(u) \in {0, 1} /\ (Num(u) = 1 <=> u = TRUE) BY DEF Num
<1>3. /\ p.n \in BOOLEAN /\ p.v \in BOOLEAN /\ p.m \in BOOLEAN /\ p.x \in BOOLEAN
      /\ p.d \in BOOLEAN /\ p.i \in BOOLEAN /\ p.z \in BOOLEAN /\ p.c \in BOOLEAN
  BY Flags
<1> DEFINE m == e \/ p.m
<1>4. m \in BOOLEAN BY <1>3, Zenon
<1>5. /\ Num(p.n) \in {0, 1} /\ Num(p.v) \in {0, 1} /\ Num(m) \in {0, 1} /\ Num(p.x) \in {0, 1}
      /\ Num(p.d) \in {0, 1} /\ Num(p.i) \in {0, 1} /\ Num(p.z) \in {0, 1} /\ Num(p.c) \in {0, 1}
  BY <1>2, <1>3, <1>4
<1>6. ToByte(p, e) = 128 * Num(p.n) + 64 * Num(p.v) + 32 * Num(m) + 16 * Num(p.x)
                     + 8 * Num(p.d) + 4 * Num(p.i) + 2 * Num(p.z) + Num(p.c)
  BY DEF ToByte
<1> HIDE DEF m
<1>7. MadeOf(b, Num(p.n), Num(p.v), Num(m), x, Num(p.d), Num(p.i), Num(p.z), Num(p.c))
  BY <1>5, <1>6 DEF MadeOf
<1>8. HasBits(b, Num(p.n), Num(p.v), Num(m), x, Num(p.d), Num(p.i), Num(p.z), Num(p.c))
  BY <1>7, BitsOf
<1>9. /\ Bit(b, 128) <=> p.n = TRUE
      /\ Bit(b, 64) <=> p.v = TRUE
      /\ Bit(b, 32) <=> m = TRUE
      /\ Bit(b, 8) <=> p.d = TRUE
      /\ Bit(b, 4) <=> p.i = TRUE
      /\ Bit(b, 2) <=> p.z = TRUE
      /\ Bit(b, 1) <=> p.c = TRUE
  BY <1>2, <1>3, <1>4, <1>8 DEF HasBits
<1>10. \A w : Bit(b, w) \in BOOLEAN BY DEF Bit
<1>11. /\ Bit(b, 128) = p.n /\ Bit(b, 64) = p.v /\ Bit(b, 32) = m /\ Bit(b, 8) = p.d
       /\ Bit(b, 4) = p.i /\ Bit(b, 2) = p.z /\ Bit(b, 1) = p.c
  BY <1>3, <1>4, <1>9, <1>10, Zenon
<1>12. (e \/ m) = p.m /\ (e \/ Bit(b, 16)) = p.x
  <2>1. CASE e = TRUE
    <3>1. p.m = TRUE /\ p.x = TRUE BY <2>1 DEF Narrow
    <3> QED BY <2>1, <3>1, Zenon
  <2>2. CASE e = FALSE
    <3>1. Bit(b, 16) <=> p.x = TRUE
      <4>1. x = Num(p.x) BY <2>2
      <4> QED BY <1>2, <1>3, <1>8, <4>1 DEF HasBits
    <3>2. Bit(b, 16) = p.x BY <1>3, <1>10, <3>1, Zenon
    <3>3. m = p.m BY <1>3, <2>2, Zenon DEF m
    <3> QED BY <1>3, <1>10, <2>2, <3>2, <3>3, Zenon
  <2> QED BY <2>1, <2>2
<1>13. FromByte(b, e) = [n |-> p.n, v |-> p.v, m |-> p.m, x |-> p.x,
                         d |-> p.d, i |-> p.i, z |-> p.z, c |-> p.c]
  BY <1>11, <1>12, Zenon DEF FromByte
<1> QED BY <1>13 DEF Status

\* Every way into a handler saves a status byte that stands for the status.
LEMMA EntryFrames ==
  ASSUME NEW s, Good(s), NEW t \in Entries(s)
  PROVE  \E p : Framed(s, t, p) /\ FromByte(p, s.e) = s.p
<1> DEFINE b == ToByte(s.p, s.e)
           i == IF s.e /\ s.p.x THEN b - 16 ELSE b
           k == IF s.e /\ ~s.p.x THEN b + 16 ELSE b
<1>1. s.p \in Status /\ s.e \in BOOLEAN /\ s.p.x \in BOOLEAN /\ (s.e = TRUE => Narrow(s.p))
  BY Fields, Flags DEF Good, Confined
<1>2. b \in Byte /\ i \in Byte /\ k \in Byte BY <1>1, ToByteType
<1>3. Num(TRUE) = 1 /\ Num(FALSE) = 0 BY DEF Num
<1>4. b \in Int BY <1>2, Ranges
<1> HIDE DEF b
<1>5. i = b \/ (s.e = TRUE /\ s.p.x = TRUE /\ i = b + 16 * (0 - 1)) BY <1>1, <1>4
<1>6. k = b BY <1>1 DEF Narrow
<1> HIDE DEF i, k
<1>7. Num(s.p.x) \in {0, 1} /\ b = b + 16 * (Num(s.p.x) - Num(s.p.x))
  <2>1. Num(s.p.x) \in {0, 1} BY DEF Num
  <2>2. \A n \in {0, 1} : b = b + 16 * (n - n) BY <1>4
  <2> QED BY <2>1, <2>2
<1>8. FromByte(b, s.e) = s.p BY <1>1, <1>7, StatusAgain DEF b
<1>9. FromByte(i, s.e) = s.p
  <2>1. CASE i = b BY <1>8, <2>1
  <2>2. CASE s.e = TRUE /\ s.p.x = TRUE /\ i = b + 16 * (0 - 1)
    <3>1. i = b + 16 * (0 - Num(s.p.x)) /\ s.e # FALSE BY <1>3, <2>2
    <3> QED BY <1>1, <3>1, StatusAgain DEF b
  <2> QED BY <1>5, <2>1, <2>2
<1> DEFINE v == [s EXCEPT !.nmi = FALSE]
           w == [s EXCEPT !.irq = FALSE]
<1>10. Good(v) /\ Good(w) BY DEF Good, Machine, Confined
<1>11. \A u \in {v, w} : /\ u.a = s.a /\ u.x = s.x /\ u.y = s.y /\ u.dp = s.dp /\ u.dbr = s.dbr
                         /\ u.e = s.e /\ u.sp = s.sp /\ u.pc = s.pc /\ u.pbr = s.pbr /\ u.stopped = s.stopped
  BY DEF Good, Machine
<1> HIDE DEF v, w
<1>12. \A vecE, vecN : /\ Framed(s, Enter(s, b, vecE, vecN), b)
                       /\ Framed(v, Enter(v, b, vecE, vecN), b)
                       /\ Framed(w, Enter(w, i, vecE, vecN), i)
  BY <1>2, <1>10, EnterFrames
<1>13. \A u \in {v, w} : \A x, q : Framed(u, x, q) => Framed(s, x, q) BY <1>11 DEF Framed
<1>14. /\ Nmi(s) = Enter(v, b, 65530, 65514) /\ Irq(s) = Enter(w, i, 65534, 65518)
       /\ Brk(s) = Enter(s, k, 65534, 65510) /\ Cop(s) = Enter(s, b, 65524, 65508)
  BY DEF Nmi, Irq, Brk, Cop, v, w, b, i, k
<1>15. Framed(s, t, b) \/ Framed(s, t, i)
  <2>1. Framed(s, Nmi(s), b) BY <1>12, <1>13, <1>14
  <2>2. Framed(s, Irq(s), i) BY <1>12, <1>13, <1>14
  <2>3. Framed(s, Brk(s), b) /\ Framed(s, Cop(s), b) BY <1>6, <1>12, <1>14
  <2> QED BY <2>1, <2>2, <2>3 DEF Entries
<1> QED BY <1>8, <1>9, <1>15

\* RTI, over the frame of the machine s that the handler t was entered from, which has been
\* put back by u.
LEMMA ReturnIs ==
  ASSUME NEW s, Good(s), NEW t \in Entries(s), NEW u, Good(u), PutBackBy(u, t), NEW pc
  PROVE  Registers(ReturnInterrupt([u EXCEPT !.pc = pc])) = Registers(s)
<1>1. PICK p : Framed(s, t, p) /\ FromByte(p, s.e) = s.p BY EntryFrames
<1> DEFINE e == s.e
           up(i) == Over(e, t.sp, i)
           v == [u EXCEPT !.pc = pc]
<1>2. /\ u.a = t.a /\ u.x = t.x /\ u.y = t.y /\ u.sp = t.sp /\ u.dp = t.dp /\ u.dbr = t.dbr /\ u.e = t.e
  BY DEF PutBackBy
<1>3. t.e = e /\ e \in BOOLEAN /\ OnStack(e, t.sp) BY <1>1, GoodStack DEF Framed
<1>4. /\ v.a = s.a /\ v.x = s.x /\ v.y = s.y /\ v.dp = s.dp /\ v.dbr = s.dbr /\ v.e = e
      /\ v.sp = t.sp /\ v.mem = u.mem /\ v.pbr = u.pbr
      /\ DOMAIN v = {"a", "x", "y", "sp", "dp", "pc", "pbr", "dbr", "p", "e", "nmi", "irq",
                      "stopped", "waiting", "mem"}
  BY <1>1, <1>2, <1>3 DEF Good, Machine, Framed
\* Pulls.
<1>5. \A i \in 1..4 : up(i) \in Int
  <2>1. \A i \in 1..4 : up(i) = IF t.sp + i > Ceiling(e) THEN t.sp + i - Ceiling(e) + Bottom(e) - 1 ELSE t.sp + i
    BY <1>3, OverIs
  <2> QED BY <1>3, <2>1, StackRange DEF OnStack
<1>6. \A i \in 1..3 : Over(e, up(i), 1) = up(i + 1) BY <1>3, OneUp
<1>7. 2 = 1 + 1 /\ 3 = 2 + 1 /\ 4 = 3 + 1 /\ 1 \in 1..3 /\ 2 \in 1..3 /\ 3 \in 1..3 /\ 4 \in 1..4
      /\ 1 \in 1..4 /\ 2 \in 1..4 /\ 3 \in 1..4
  OBVIOUS
<1> HIDE DEF v
<1>8. \A w : w.e = e => Pull1(w) = [w EXCEPT !.sp = Over(e, w.sp, 1)]
  BY DEF Pull1, Page1, Over
<1> DEFINE at(i) == [v EXCEPT !.sp = up(i)]
<1>9. \A i : /\ at(i).sp = up(i) /\ at(i).e = e /\ at(i).mem = v.mem /\ at(i).pbr = v.pbr
             /\ DOMAIN at(i) = DOMAIN v
  BY <1>4
<1>10. Pull1(v) = at(1) BY <1>4, <1>8
<1>11. \A i \in 1..3 : Pull1(at(i)) = at(i + 1)
  <2> TAKE i \in 1..3
  <2>1. Pull1(at(i)) = [at(i) EXCEPT !.sp = Over(e, at(i).sp, 1)] BY <1>8, <1>9
  <2>2. Over(e, at(i).sp, 1) = up(i + 1) BY <1>6, <1>9
  <2> QED BY <2>1, <2>2
<1>12. Pull1(at(1)) = at(2) /\ Pull1(at(2)) = at(3) /\ Pull1(at(3)) = at(4) BY <1>7, <1>11
\* What they find.
<1>13. \A i \in 1..4 : i <= (IF e THEN 3 ELSE 4) => Held(v.mem, up(i)) = Held(t.mem, up(i))
  <2> SUFFICES ASSUME NEW i \in 1..4, i <= (IF e THEN 3 ELSE 4)
               PROVE  Held(v.mem, up(i)) = Held(t.mem, up(i))
    OBVIOUS
  <2>1. up(i) \in Frame(t)
    <3>1. Page1(t, Plus(t.sp, i)) = up(i) BY <1>3 DEF Page1, Over
    <3>2. i \in 1..(IF t.e THEN 3 ELSE 4) BY <1>3
    <3> QED BY <3>1, <3>2 DEF Frame
  <2>2. Read(u, 0, up(i)) = Read(t, 0, up(i)) BY <2>1 DEF PutBackBy
  <2> QED BY <1>4, <1>5, <2>2, ReadHeld
<1> HIDE DEF up, at
<1>14. \A i \in 1..4 : Top(at(i)) = Held(v.mem, up(i)) BY <1>5, <1>9, ReadHeld DEF Top
<1>15. Top(at(1)) = p /\ Top(at(2)) = s.pc % 256 /\ Top(at(3)) = Hi(s.pc)
  <2>1. Held(t.mem, up(1)) = p /\ Held(t.mem, up(2)) = s.pc % 256 /\ Held(t.mem, up(3)) = Hi(s.pc)
    BY <1>1 DEF Framed, up
  <2>2. 1 <= (IF e THEN 3 ELSE 4) /\ 2 <= (IF e THEN 3 ELSE 4) /\ 3 <= (IF e THEN 3 ELSE 4) OBVIOUS
  <2> QED BY <1>7, <1>13, <1>14, <2>1, <2>2
<1>16. Word(s.pc % 256, Hi(s.pc)) = s.pc
  <2>1. s.pc \in Int BY Fields, Numbers
  <2> QED BY <2>1, SMT DEF Word, Hi
\* The instruction.
<1>17. TopWord(at(1)) = s.pc BY <1>12, <1>15, <1>16 DEF TopWord, Pull2
<1>18. Pull2(at(1)) = at(3) BY <1>12 DEF Pull2
<1> DEFINE w == [at(3) EXCEPT !.p = FromByte(Top(at(1)), v.e), !.pc = TopWord(at(1))]
<1>19. w = [at(3) EXCEPT !.p = s.p, !.pc = s.pc] BY <1>1, <1>4, <1>15, <1>17
<1>20. ReturnInterrupt(v) = IF e THEN w ELSE [Pull1(w) EXCEPT !.pbr = Top(Pull1(w))]
  BY <1>4, <1>10, <1>18 DEF ReturnInterrupt
<1> HIDE DEF w
<1> DEFINE Restored(r) == /\ r.a = s.a /\ r.x = s.x /\ r.y = s.y /\ r.sp = s.sp /\ r.dp = s.dp /\ r.pc = s.pc
                          /\ r.pbr = s.pbr /\ r.dbr = s.dbr /\ r.p = s.p /\ r.e = s.e
<1>21. Restored(ReturnInterrupt(v))
  <2>1. CASE e = TRUE
    <3>1. up(3) = s.sp /\ t.pbr = s.pbr BY <1>1, <2>1 DEF Framed, up
    <3>2. v.pbr = s.pbr BY <1>2, <1>3, <1>4, <2>1, <3>1 DEF PutBackBy
    <3>3. ReturnInterrupt(v) = [[v EXCEPT !.sp = s.sp] EXCEPT !.p = s.p, !.pc = s.pc]
      BY <1>19, <1>20, <2>1, <3>1 DEF at
    <3> QED BY <1>4, <3>2, <3>3
  <2>2. CASE e = FALSE
    <3>1. up(4) = s.sp /\ Held(t.mem, up(4)) = s.pbr BY <1>1, <2>2 DEF Framed, up
    <3>2. Held(v.mem, up(4)) = s.pbr
      <4>1. 4 <= (IF e THEN 3 ELSE 4) BY <2>2
      <4> QED BY <1>7, <1>13, <3>1, <4>1
    <3>3. w.e = e /\ w.sp = up(3) /\ w.mem = v.mem BY <1>4, <1>9, <1>19
    <3>4. Pull1(w) = [w EXCEPT !.sp = s.sp]
      <4>1. Over(e, up(3), 1) = up(4) BY <1>6, <1>7
      <4> QED BY <1>8, <3>1, <3>3, <4>1
    <3>5. Top(Pull1(w)) = s.pbr
      <4>1. Pull1(w).mem = v.mem /\ Pull1(w).sp = up(4) BY <1>4, <1>9, <1>19, <3>1, <3>3, <3>4
      <4> QED BY <1>5, <1>7, <3>2, <4>1, ReadHeld DEF Top
    <3>6. ReturnInterrupt(v)
          = [[[[v EXCEPT !.sp = up(3)] EXCEPT !.p = s.p, !.pc = s.pc] EXCEPT !.sp = s.sp] EXCEPT !.pbr = s.pbr]
      BY <1>19, <1>20, <2>2, <3>4, <3>5 DEF at
    <3> QED BY <1>4, <3>6
  <2> QED BY <1>3, <2>1, <2>2
<1>22. \A r : Restored(r) => Registers(r) = Registers(s) BY DEF Registers
<1> QED BY <1>21, <1>22 DEF v

\* The handlers that have not returned were entered from machines that are Good.
Machines == {s \in Machine : Confined(s)}
EnteredInv == Inv /\ entered \in Seq(Machines)

LEMMA EnteredSteps == EnteredInv /\ [Next]_vars => EnteredInv'
<1> SUFFICES ASSUME EnteredInv, [Next]_vars PROVE EnteredInv' OBVIOUS
<1>1. Inv' BY StepInv DEF EnteredInv
<1>2. Good(cpu) /\ entered \in Seq(Machines) /\ program \in Names BY DEF EnteredInv, Inv
<1>3. \A s : Good(s) => <<s>> \o entered \in Seq(Machines)
  <2> SUFFICES ASSUME NEW s, Good(s) PROVE <<s>> \o entered \in Seq(Machines) OBVIOUS
  <2>1. s \in Machines BY DEF Good, Machines
  <2> HIDE DEF Machines
  <2> QED BY <1>2, <2>1
<1> HIDE DEF Machines
<1>4. CASE Request \/ UNCHANGED vars BY <1>1, <1>2, <1>4 DEF Request, vars, EnteredInv
<1>5. CASE TakeNmi \/ TakeIrq
  <2>1. Good([cpu EXCEPT !.waiting = FALSE]) BY <1>2 DEF Good, Machine, Confined
  <2> QED BY <1>1, <1>3, <1>5, <2>1 DEF TakeNmi, TakeIrq, EnteredInv
<1>6. CASE Instruction
  <2>1. Decoded(It.code[Here]) BY <1>2, <1>6, CpuAssumption DEF Instruction, It
  <2>2. Good(Fetched(cpu, It.code[Here])) BY <1>2, <2>1, FetchedGood
  <2>3. entered # <<>> => Tail(entered) \in Seq(Machines) BY <1>2
  <2> QED BY <1>1, <1>2, <1>3, <1>6, <2>2, <2>3 DEF Instruction, EnteredInv
<1> QED BY <1>4, <1>5, <1>6 DEF Next

\* Only RTI returns.
LEMMA OnlyReturns ==
  ASSUME EnteredInv, [Next]_vars, Len(entered') < Len(entered)
  PROVE  /\ entered # <<>> /\ entered[1] \in Machines
         /\ \E pc : cpu' = ReturnInterrupt([cpu EXCEPT !.pc = pc])
<1>1. entered \in Seq(Machines) BY DEF EnteredInv
<1> HIDE DEF Machines
<1>2. \A s : Len(<<s>> \o entered) = Len(entered) + 1
  <2> SUFFICES ASSUME NEW s PROVE Len(<<s>> \o entered) = Len(entered) + 1 OBVIOUS
  <2>1. <<s>> \in Seq(Machines \cup {s}) /\ entered \in Seq(Machines \cup {s}) BY <1>1
  <2> QED BY <2>1
<1>3. Len(entered) \in Nat BY <1>1
<1>4. Instruction /\ entered' # entered
  <2>1. entered' # entered BY <1>3
  <2>2. ~Request /\ ~UNCHANGED vars BY <2>1 DEF Request, vars
  <2>3. \A s : entered' # <<s>> \o entered BY <1>2, <1>3
  <2> QED BY <2>1, <2>2, <2>3 DEF Next, TakeNmi, TakeIrq
<1> DEFINE ins == It.code[Here]
<1>5. ins.op = "return" /\ ins.arg = "rti" /\ entered # <<>>
  <2>1. \A s : entered' # <<s>> \o entered BY <1>2, <1>3
  <2> QED BY <1>4, <2>1 DEF Instruction
<1>6. cpu' = ReturnInterrupt(Fetched(cpu, ins)) BY <1>4, <1>5 DEF Instruction, Executed, Return
<1>7. entered[1] \in Machines BY <1>1, <1>5
<1> QED BY <1>5, <1>6, <1>7 DEF Fetched

LEMMA Returned ==
  ASSUME EnteredInv, [Next]_vars, Saves, Len(entered') < Len(entered)
  PROVE  Registers(cpu') = Registers(entered[1])
<1>1. /\ entered # <<>> /\ entered[1] \in Machines
      /\ \E pc : cpu' = ReturnInterrupt([cpu EXCEPT !.pc = pc])
  BY OnlyReturns
<1>2. PICK pc : cpu' = ReturnInterrupt([cpu EXCEPT !.pc = pc]) BY <1>1
<1>3. PICK t \in Entries(entered[1]) : PutBackBy(cpu, t) BY DEF Saves
<1>4. Good(cpu) /\ Good(entered[1]) BY <1>1 DEF EnteredInv, Inv, Machines, Good
<1> QED BY <1>2, <1>3, <1>4, ReturnIs

LEMMA EnteredInitially == Init => EnteredInv
<1>1. <<>> \in Seq(Machines) OBVIOUS
<1> QED BY <1>1, InitInv DEF Init, EnteredInv

\* Every interrupt is invisible to the program it interrupts, nested or not, at any instruction,
\* in any mode and width: RTI restores every register from what the entry has saved, if the
\* handler has kept the others and its frame (cpu/mod.rs:388-434, instructions.rs:640-650).
THEOREM InterruptsAreTransparent == Spec /\ HandlersSave => InterruptTransparent
<1>1. EnteredInv /\ [Next]_vars /\ [Saves]_vars
      => [Len(entered') < Len(entered) => Registers(cpu') = Registers(entered[1])]_vars
  BY Returned
<1> QED BY <1>1, EnteredInitially, EnteredSteps, PTL DEF Spec, HandlersSave, InterruptTransparent

-----------------------------------------------------------------------------
(* Block moves.                                                            *)

\* Where the program is, when i bytes have been moved.
Wide(s) == s.e = FALSE /\ s.p.m = FALSE /\ s.p.x = FALSE
X0(k, s) == Wide(s) /\ s.x = k.x
Y0(k, s) == X0(k, s) /\ s.y = k.y
Within(k, s, i) ==
  /\ Wide(s) /\ i \in 0..k.n /\ s.x = (k.x + Along(k, i)) % 65536 /\ s.y = (k.y + Along(k, i)) % 65536
  /\ i < k.n => s.a = k.n - 1 - i
  /\ i = k.n => s.a = 65535 /\ s.dbr = k.dst

PlaceIn(k, s, i) ==
  /\ s.pbr = 0
  /\ \/ s.pc = Entry /\ i = 0 /\ s.e = TRUE
     \/ s.pc = Entry + 1 /\ i = 0 /\ s.e = TRUE /\ s.p.c = FALSE
     \/ s.pc = Entry + 2 /\ i = 0 /\ s.e = FALSE
     \/ s.pc = Entry + 4 /\ i = 0 /\ Wide(s)
     \/ s.pc = Entry + 7 /\ i = 0 /\ X0(k, s)
     \/ s.pc = Entry + 10 /\ i = 0 /\ Y0(k, s)
     \/ s.pc = Entry + 13 /\ i < k.n /\ Within(k, s, i)
     \/ s.pc \in {Entry + 16, Entry + 17} /\ i = k.n /\ Within(k, s, i)

\* The bytes before the i-th have arrived, and the others have not been touched.
Arrived(k, mem, i) ==
  \A j \in 0..k.n-1 :
    /\ j < i => Held(mem, Destination(k, j)) = Held(Program(k).mem, Source(k, j))
    /\ j >= i => Held(mem, Source(k, j)) = Held(Program(k).mem, Source(k, j))

\* The program itself, which interrupts may have cut.
Main == IF entered = <<>> THEN cpu ELSE entered[Len(entered)]

OnTheWay(k, s, mem) == \E i \in 0..k.n : PlaceIn(k, s, i) /\ Arrived(k, mem, i)
MoveInv ==
  /\ EnteredInv
  /\ program.kind = "move" =>
       /\ OnTheWay(program, Main, cpu.mem)
       /\ cpu.stopped <=> entered = <<>> /\ Main.pc = Entry + 17
       /\ entered # <<>> => Main.pc # Entry + 17

\* The parameters of a move.
LEMMA MoveType ==
  ASSUME NEW k \in Names, k.kind = "move"
  PROVE  /\ Forward(k) /\ IsMove(k) /\ k.x \in Word16 /\ k.y \in Word16 /\ k.src \in Byte /\ k.dst \in Byte
         /\ k.up \in BOOLEAN /\ k.n \in Nat \ {0} /\ k.n - 1 \in Word16
BY MovesAreSetUp, Zenon DEF IsBlock

LEMMA MoveNumbers ==
  ASSUME NEW k \in Names, k.kind = "move"
  PROVE  /\ k.n \in Nat /\ 1 <= k.n /\ k.n <= 65536
         /\ k.x \in Int /\ 0 <= k.x /\ k.x < 65536 /\ k.y \in Int /\ 0 <= k.y /\ k.y < 65536
<1>1. k.x \in Word16 /\ k.y \in Word16 /\ k.n \in Nat \ {0} /\ k.n - 1 \in Word16 BY MoveType, Zenon
<1> QED BY <1>1, Ranges, SMT

LEMMA AlongIs ==
  ASSUME NEW k
  PROVE  /\ \A i \in Int : Along(k, i) = (IF k.up THEN i ELSE 0 - i) /\ Along(k, i) \in Int
         /\ Along(k, 0) = 0
<1>1. \A i : Along(k, i) = IF k.up THEN i ELSE 0 - i BY DEF Along
<1>2. \A i \in Int : 0 - i \in Int OBVIOUS
<1>3. 0 - 0 = 0 OBVIOUS
<1>4. \A i \in Int : Along(k, i) \in Int
  <2>1. CASE k.up BY <1>1, <1>2, <2>1
  <2>2. CASE ~k.up BY <1>1, <1>2, <2>2
  <2> QED BY <2>1, <2>2
<1>5. Along(k, 0) = 0 BY <1>1, <1>3
<1> QED BY <1>1, <1>4, <1>5

\* The instruction at an address of the program.
InsAt(k, at) == Program(k).code[at]
Coded(k, at, op, arg, mode, n, bank) ==
  /\ at \in DOMAIN Program(k).code /\ Decoded(InsAt(k, at))
  /\ InsAt(k, at).op = op /\ InsAt(k, at).arg = arg /\ InsAt(k, at).mode = mode
  /\ InsAt(k, at).n = n /\ InsAt(k, at).bank = bank

LEMMA CodeIs ==
  ASSUME NEW k \in Names, k.kind = "move"
  PROVE  /\ Coded(k, Entry, "flag", <<"c", FALSE>>, "imp", 0, 0)
         /\ Coded(k, Entry + 1, "xce", "", "imp", 0, 0)
         /\ Coded(k, Entry + 2, "bits", "rep", "byte", 48, 0)
         /\ Coded(k, Entry + 4, "load", "x", "imm", k.x, 0)
         /\ Coded(k, Entry + 7, "load", "y", "imm", k.y, 0)
         /\ Coded(k, Entry + 10, "load", "a", "imm", k.n - 1, 0)
         /\ Coded(k, Entry + 13, "move", IF k.up THEN "mvn" ELSE "mvp", "banks", k.dst, k.src)
         /\ Coded(k, Entry + 16, "stp", "", "imp", 0, 0)
<1>1. ASSUME NEW at, NEW op, NEW arg, NEW mode, NEW n, NEW bank, NEW len,
             Has(k, at, Ins(op, arg, mode, n, bank, len))
      PROVE  Coded(k, at, op, arg, mode, n, bank)
  <2>1. at \in DOMAIN Program(k).code /\ InsAt(k, at) = Ins(op, arg, mode, n, bank, len).ins
    BY <1>1 DEF Has, InsAt
  <2>2. Decoded(InsAt(k, at)) BY <2>1, CpuAssumption DEF InsAt
  <2>3. InsAt(k, at) = [op |-> op, arg |-> arg, mode |-> mode, n |-> n, bank |-> bank] BY <2>1 DEF Ins
  <2> HIDE DEF InsAt
  <2> QED BY <2>1, <2>2, <2>3 DEF Coded
<1>2. /\ Flag("c", FALSE) = Ins("flag", <<"c", FALSE>>, "imp", 0, 0, 1)
      /\ Imp("xce", "") = Ins("xce", "", "imp", 0, 0, 1)
      /\ Imp("stp", "") = Ins("stp", "", "imp", 0, 0, 1)
      /\ Bits("rep", 48) = Ins("bits", "rep", "byte", 48, 0, 2)
      /\ \A arg, n : Imm("load", arg, n, FALSE) = Ins("load", arg, "imm", n, 0, 3)
  BY DEF Flag, Imp, Bits, Imm
<1>3. IsMove(k) BY MoveType
<1> QED BY <1>1, <1>2, <1>3 DEF IsMove

\* The fetch.
AllBut(s, t) ==
  /\ t.a = s.a /\ t.x = s.x /\ t.y = s.y /\ t.dbr = s.dbr /\ t.pbr = s.pbr /\ t.e = s.e /\ t.p = s.p
  /\ t.mem = s.mem /\ t.stopped = s.stopped

LEMMA FetchIs ==
  ASSUME NEW s, Good(s), NEW ins, Decoded(ins)
  PROVE  /\ Good(Fetched(s, ins)) /\ AllBut(s, Fetched(s, ins))
         /\ Fetched(s, ins).pc = Plus(s.pc, Size(s, ins))
BY FetchedGood DEF Fetched, AllBut, Good, Machine

\* A step of the program: from s with the instruction that it is at.
Stepped(k, s) == Executed(Fetched(s, InsAt(k, s.pc)), InsAt(k, s.pc))

\* CLC and XCE leave emulation mode; REP widens the registers.
LEMMA ClearIs ==
  ASSUME NEW k \in Names, k.kind = "move", NEW s, Good(s), s.pc = Entry, s.pbr = 0, s.e = TRUE
  PROVE  PlaceIn(k, Stepped(k, s), 0) /\ Stepped(k, s).stopped = s.stopped /\ Stepped(k, s).mem = s.mem
<1> DEFINE ins == InsAt(k, s.pc)
           f == Fetched(s, ins)
<1>1. Coded(k, Entry, "flag", <<"c", FALSE>>, "imp", 0, 0) BY CodeIs
<1>2. /\ Decoded(ins) /\ ins.op = "flag" /\ ins.arg = <<"c", FALSE>> /\ ins.mode = "imp" BY <1>1 DEF Coded
<1> HIDE DEF ins
<1>3. Size(s, ins) = 1 BY <1>2 DEF Size
<1>4. Good(f) /\ AllBut(s, f) /\ f.pc = Plus(s.pc, 1) BY <1>2, <1>3, FetchIs
<1>5. Plus(s.pc, 1) = Entry + 1 BY SMT DEF Plus, Entry
<1> HIDE DEF f
<1>6. Stepped(k, s) = [f EXCEPT !.p = [@ EXCEPT !.c = FALSE]]
  <2>1. Executed(f, ins) = SetFlag(f, ins) BY <1>2 DEF Executed
  <2>2. SetFlag(f, ins) = [f EXCEPT !.p = [@ EXCEPT !["c"] = FALSE]]
    BY <1>2 DEF SetFlag
  <2> QED BY <2>1, <2>2 DEF Stepped, ins, f
<1> DEFINE t == [f EXCEPT !.p = [@ EXCEPT !.c = FALSE]]
<1>7. /\ t.pc = Entry + 1 /\ t.pbr = 0 /\ t.e = TRUE /\ t.p.c = FALSE /\ t.stopped = s.stopped
      /\ t.mem = s.mem
  BY <1>4, <1>5 DEF Good, Machine, Status, AllBut
<1> HIDE DEF t
<1> QED BY <1>6, <1>7 DEF t, PlaceIn

LEMMA NativeIs ==
  ASSUME NEW k \in Names, k.kind = "move", NEW s, Good(s), s.pc = Entry + 1, s.pbr = 0,
         s.e = TRUE, s.p.c = FALSE
  PROVE  PlaceIn(k, Stepped(k, s), 0) /\ Stepped(k, s).stopped = s.stopped /\ Stepped(k, s).mem = s.mem
<1> DEFINE ins == InsAt(k, s.pc)
           f == Fetched(s, ins)
<1>1. Coded(k, Entry + 1, "xce", "", "imp", 0, 0) BY CodeIs
<1>2. Decoded(ins) /\ ins.op = "xce" /\ ins.mode = "imp" BY <1>1 DEF Coded
<1> HIDE DEF ins
<1>3. Size(s, ins) = 1 BY <1>2 DEF Size
<1>4. Good(f) /\ AllBut(s, f) /\ f.pc = Plus(s.pc, 1) BY <1>2, <1>3, FetchIs
<1>5. Plus(s.pc, 1) = Entry + 2 BY SMT DEF Plus, Entry
<1> HIDE DEF f
<1> DEFINE q == WithC(f.p, f.e)
           t == [f EXCEPT !.p = q, !.e = FALSE]
<1>6. Stepped(k, s) = t
  <2>1. Executed(f, ins) = ExchangeCE(f) BY <1>2 DEF Executed
  <2>2. ExchangeCE(f) = [f EXCEPT !.p = WithC(@, f.e), !.e = FALSE] BY <1>4 DEF ExchangeCE, AllBut
  <2> QED BY <2>1, <2>2 DEF Stepped, ins, f
<1> HIDE DEF q
<1>7. t.pc = Entry + 2 /\ t.pbr = 0 /\ t.e = FALSE /\ t.stopped = s.stopped /\ t.mem = s.mem
  BY <1>4, <1>5 DEF Good, Machine, AllBut
<1> HIDE DEF t
<1> QED BY <1>6, <1>7 DEF PlaceIn

LEMMA WidenIs ==
  ASSUME NEW k \in Names, k.kind = "move", NEW s, Good(s), s.pc = Entry + 2, s.pbr = 0, s.e = FALSE
  PROVE  PlaceIn(k, Stepped(k, s), 0) /\ Stepped(k, s).stopped = s.stopped /\ Stepped(k, s).mem = s.mem
<1> DEFINE ins == InsAt(k, s.pc)
           f == Fetched(s, ins)
<1>1. Coded(k, Entry + 2, "bits", "rep", "byte", 48, 0) BY CodeIs
<1>2. Decoded(ins) /\ ins.op = "bits" /\ ins.arg = "rep" /\ ins.mode = "byte" /\ ins.n = 48
  BY <1>1 DEF Coded
<1> HIDE DEF ins
<1>3. Size(s, ins) = 2 BY <1>2 DEF Size
<1>4. Good(f) /\ AllBut(s, f) /\ f.pc = Plus(s.pc, 2) BY <1>2, <1>3, FetchIs
<1>5. Plus(s.pc, 2) = Entry + 4 BY SMT DEF Plus, Entry
<1> HIDE DEF f
<1> DEFINE b == LogicByte("and", ToByte(f.p, f.e), 207)
           q == FromByte(b, f.e)
           t == [f EXCEPT !.p = q]
<1>6. Stepped(k, s) = t
  <2>1. Executed(f, ins) = SetBits(f, ins) BY <1>2 DEF Executed
  <2>2. 255 - 48 = 207 OBVIOUS
  <2>3. SetBits(f, ins) = [f EXCEPT !.p = FromByte(LogicByte("and", ToByte(f.p, f.e), 255 - ins.n), f.e)]
    BY <1>2 DEF SetBits
  <2>4. SetBits(f, ins) = t BY <1>2, <2>2, <2>3
  <2> QED BY <2>1, <2>4 DEF Stepped, ins, f
<1>7. q.m = FALSE /\ q.x = FALSE
  <2> DEFINE c == ToByte(f.p, f.e)
             r(w) == Num(Bit(c, w) /\ Bit(207, w))
  <2> HIDE DEF c
  <2>1. \A w : r(w) \in {0, 1} BY DEF Num
  <2>2. Bit(207, 32) = FALSE /\ Bit(207, 16) = FALSE BY DEF Bit
  <2>3. r(32) = 0 /\ r(16) = 0 BY <2>2 DEF Num
  <2>4. b = 128 * r(128) + 64 * r(64) + 32 * r(32) + 16 * r(16) + 8 * r(8) + 4 * r(4) + 2 * r(2) + 1 * r(1)
    BY DEF LogicByte, LogicBit, c
  <2> HIDE DEF r, b
  <2>5. b = 128 * r(128) + 64 * r(64) + 32 * 0 + 16 * 0 + 8 * r(8) + 4 * r(4) + 2 * r(2) + r(1)
    BY <2>1, <2>3, <2>4
  <2>6. MadeOf(b, r(128), r(64), 0, 0, r(8), r(4), r(2), r(1)) BY <2>1, <2>5 DEF MadeOf
  <2>7. HasBits(b, r(128), r(64), 0, 0, r(8), r(4), r(2), r(1)) BY <2>6, BitsOf
  <2>8. ~Bit(b, 32) /\ ~Bit(b, 16) BY <2>7 DEF HasBits
  <2>9. f.e = FALSE BY <1>4 DEF AllBut
  <2> QED BY <2>8, <2>9 DEF FromByte
<1> HIDE DEF q
<1>8. /\ t.pc = Entry + 4 /\ t.pbr = 0 /\ t.e = FALSE /\ t.stopped = s.stopped /\ t.mem = s.mem /\ t.p = q
  BY <1>4, <1>5 DEF Good, Machine, AllBut
<1> HIDE DEF t
<1> QED BY <1>6, <1>7, <1>8 DEF PlaceIn, Wide

\* A load of a wide register.
LEMMA LoadIs ==
  ASSUME NEW s, Good(s), Wide(s), NEW ins, Decoded(ins), ins.op = "load", ins.mode = "imm",
         ins.arg \in {"x", "y", "a"}
  PROVE  LET t == Executed(Fetched(s, ins), ins)
         IN  /\ t.pc = Plus(s.pc, 3) /\ t.pbr = s.pbr /\ Wide(t) /\ t.stopped = s.stopped /\ t.mem = s.mem
             /\ t.x = IF ins.arg = "x" THEN ins.n ELSE s.x
             /\ t.y = IF ins.arg = "y" THEN ins.n ELSE s.y
             /\ t.a = IF ins.arg = "a" THEN ins.n ELSE s.a
<1> DEFINE f == Fetched(s, ins)
           r == ins.arg
           g == [f EXCEPT ![r] = ins.n]
           q == WithNZ(g.p, ins.n, FALSE)
           t == [g EXCEPT !.p = q]
<1>1. /\ M8(s) = FALSE /\ X8(s) = FALSE BY DEF Wide, M8, X8
<1>2. Size(s, ins) = 3 BY <1>1 DEF Size, Width
<1>3. Good(f) /\ AllBut(s, f) /\ f.pc = Plus(s.pc, 3) BY <1>2, FetchIs
<1> HIDE DEF f
<1>4. M8(f) = FALSE /\ X8(f) = FALSE BY <1>3 DEF Wide, M8, X8, AllBut
<1>5. Width(f, r) = FALSE BY <1>4 DEF Width
<1>6. Operand(f, ins, FALSE) = ins.n
  <2>1. ins.n \in Word16
    <3>1. ins.n \in (IF ins.mode \in OneByte THEN Byte ELSE Word16) BY DEF Decoded
    <3> QED BY <3>1 DEF OneByte
  <2>2. \A v \in Word16 : Trim(v, FALSE) = v BY Ranges, SMT DEF Trim, Mod
  <2>3. Operand(f, ins, FALSE) = Trim(ins.n, FALSE) BY DEF Operand
  <2> QED BY <2>1, <2>2, <2>3
<1>7. Executed(f, ins) = LoadReg(f, r, ins.n)
  <2>1. Executed(f, ins) = Load(f, ins) BY DEF Executed
  <2> QED BY <1>5, <1>6, <2>1 DEF Load
<1>8. LoadReg(f, r, ins.n) = t
  <2>1. CASE r = "a"
    <3>1. LoadReg(f, r, ins.n) = SetA(f, ins.n, FALSE) BY <1>4, <2>1 DEF LoadReg
    <3>2. SetA(f, ins.n, FALSE) = NZ([f EXCEPT !.a = ins.n], ins.n, FALSE) BY DEF SetA, Keep
    <3>3. g = [f EXCEPT !.a = ins.n] BY <2>1
    <3> QED BY <3>1, <3>2, <3>3 DEF NZ
  <2>2. CASE r # "a" BY <1>4, <2>2 DEF LoadReg, NZ
  <2> QED BY <2>1, <2>2
<1>9. /\ g.p = f.p /\ g.e = f.e /\ g.pc = f.pc /\ g.pbr = f.pbr /\ g.stopped = f.stopped /\ g.mem = f.mem
      /\ g.x = (IF r = "x" THEN ins.n ELSE f.x)
      /\ g.y = (IF r = "y" THEN ins.n ELSE f.y)
      /\ g.a = (IF r = "a" THEN ins.n ELSE f.a)
      /\ DOMAIN g = DOMAIN f
  BY <1>3 DEF Good, Machine
<1> HIDE DEF g
<1>10. q.m = f.p.m /\ q.x = f.p.x BY <1>3, <1>9, Fields DEF WithNZ, Status
<1> HIDE DEF q
<1>11. /\ t.p = q /\ t.e = g.e /\ t.pc = g.pc /\ t.pbr = g.pbr /\ t.stopped = g.stopped /\ t.mem = g.mem
       /\ t.x = g.x /\ t.y = g.y /\ t.a = g.a
  BY <1>3, <1>9 DEF Good, Machine
<1> HIDE DEF t
<1>12. /\ t.pc = Plus(s.pc, 3) /\ t.pbr = s.pbr /\ Wide(t) /\ t.stopped = s.stopped /\ t.mem = s.mem
       /\ t.x = (IF r = "x" THEN ins.n ELSE s.x)
       /\ t.y = (IF r = "y" THEN ins.n ELSE s.y)
       /\ t.a = (IF r = "a" THEN ins.n ELSE s.a)
  BY <1>3, <1>9, <1>10, <1>11 DEF AllBut, Wide
<1> QED BY <1>7, <1>8, <1>12 DEF f

\* LDX, LDY and LDA give the move its parameters.
LEMMA LoadsAre ==
  ASSUME NEW k \in Names, k.kind = "move", NEW s, Good(s), s.pbr = 0,
         \/ s.pc = Entry + 4 /\ Wide(s)
         \/ s.pc = Entry + 7 /\ X0(k, s)
         \/ s.pc = Entry + 10 /\ Y0(k, s)
  PROVE  PlaceIn(k, Stepped(k, s), 0) /\ Stepped(k, s).stopped = s.stopped /\ Stepped(k, s).mem = s.mem
<1> DEFINE ins == InsAt(k, s.pc)
           t == Stepped(k, s)
<1>1. /\ Coded(k, Entry + 4, "load", "x", "imm", k.x, 0)
      /\ Coded(k, Entry + 7, "load", "y", "imm", k.y, 0)
      /\ Coded(k, Entry + 10, "load", "a", "imm", k.n - 1, 0)
  BY CodeIs
<1>2. Wide(s) BY DEF X0, Y0
<1>3. /\ Decoded(ins) /\ ins.op = "load" /\ ins.mode = "imm"
      /\ \/ s.pc = Entry + 4 /\ ins.arg = "x" /\ ins.n = k.x
         \/ s.pc = Entry + 7 /\ X0(k, s) /\ ins.arg = "y" /\ ins.n = k.y
         \/ s.pc = Entry + 10 /\ Y0(k, s) /\ ins.arg = "a" /\ ins.n = k.n - 1
  BY <1>1 DEF Coded
<1>4. t = Executed(Fetched(s, ins), ins) BY DEF Stepped
<1> HIDE DEF ins, t
<1>5. /\ t.pc = Plus(s.pc, 3) /\ t.pbr = s.pbr /\ Wide(t) /\ t.stopped = s.stopped /\ t.mem = s.mem
      /\ t.x = (IF ins.arg = "x" THEN ins.n ELSE s.x)
      /\ t.y = (IF ins.arg = "y" THEN ins.n ELSE s.y)
      /\ t.a = (IF ins.arg = "a" THEN ins.n ELSE s.a)
  BY <1>2, <1>3, <1>4, LoadIs
<1>6. Plus(Entry + 4, 3) = Entry + 7 /\ Plus(Entry + 7, 3) = Entry + 10 /\ Plus(Entry + 10, 3) = Entry + 13
  BY SMT DEF Plus, Entry
<1>7. PlaceIn(k, t, 0)
  <2>1. CASE s.pc = Entry + 4 /\ ins.arg = "x" /\ ins.n = k.x
    BY <1>5, <1>6, <2>1 DEF PlaceIn, X0
  <2>2. CASE s.pc = Entry + 7 /\ X0(k, s) /\ ins.arg = "y" /\ ins.n = k.y
    BY <1>5, <1>6, <2>2 DEF PlaceIn, X0, Y0
  <2>3. CASE s.pc = Entry + 10 /\ Y0(k, s) /\ ins.arg = "a" /\ ins.n = k.n - 1
    <3>1. t.pc = Entry + 13 /\ t.pbr = 0 /\ t.x = k.x /\ t.y = k.y /\ t.a = k.n - 1 /\ Wide(t)
      BY <1>5, <1>6, <2>3 DEF X0, Y0
    <3>2. 0 < k.n /\ 0 \in 0..k.n /\ k.n - 1 - 0 = k.n - 1 BY MoveNumbers
    <3>3. Along(k, 0) = 0 BY AlongIs
    <3>4. (k.x + 0) % 65536 = k.x /\ (k.y + 0) % 65536 = k.y BY MoveNumbers, SMT
    <3>5. (k.x + Along(k, 0)) % 65536 = k.x /\ (k.y + Along(k, 0)) % 65536 = k.y BY <3>3, <3>4, SMT
    <3>6. Within(k, t, 0) BY <3>1, <3>2, <3>5, SMT DEF Within
    <3> QED BY <3>1, <3>2, <3>6 DEF PlaceIn
  <2> QED BY <1>3, <2>1, <2>2, <2>3
<1> QED BY <1>5, <1>7 DEF t

\* STP stops behind the move.
LEMMA StopIs ==
  ASSUME NEW k \in Names, k.kind = "move", NEW s, Good(s), s.pbr = 0, s.pc = Entry + 16,
         NEW i, i = k.n, Within(k, s, i)
  PROVE  /\ PlaceIn(k, Stepped(k, s), i) /\ Stepped(k, s).pc = Entry + 17
         /\ Stepped(k, s).stopped = TRUE /\ Stepped(k, s).mem = s.mem
<1> DEFINE ins == InsAt(k, s.pc)
           f == Fetched(s, ins)
           t == [f EXCEPT !.stopped = TRUE]
<1>1. Coded(k, Entry + 16, "stp", "", "imp", 0, 0) BY CodeIs
<1>2. Decoded(ins) /\ ins.op = "stp" /\ ins.mode = "imp" BY <1>1 DEF Coded
<1> HIDE DEF ins
<1>3. Size(s, ins) = 1 BY <1>2 DEF Size
<1>4. Good(f) /\ AllBut(s, f) /\ f.pc = Plus(s.pc, 1) BY <1>2, <1>3, FetchIs
<1>5. Plus(s.pc, 1) = Entry + 17 BY SMT DEF Plus, Entry
<1> HIDE DEF f
<1>6. Stepped(k, s) = t BY <1>2 DEF Executed, Stepped, ins, f
<1>7. /\ t.pc = Entry + 17 /\ t.pbr = 0 /\ t.stopped = TRUE /\ t.mem = s.mem /\ t.a = s.a /\ t.x = s.x
      /\ t.y = s.y /\ t.dbr = s.dbr /\ t.e = s.e /\ t.p = s.p
  BY <1>4, <1>5 DEF Good, Machine, AllBut
<1> HIDE DEF t
<1>8. Within(k, t, i)
  <2> DEFINE x == (k.x + Along(k, i)) % 65536
             y == (k.y + Along(k, i)) % 65536
             A == i = k.n => s.a = 65535 /\ s.dbr = k.dst
  <2>1. Wide(s) /\ i \in 0..k.n /\ s.x = x /\ s.y = y /\ (i < k.n => s.a = k.n - 1 - i) /\ A
    BY DEF Within
  <2>2. Wide(t) BY <1>7, <2>1 DEF Wide
  <2> QED BY <1>7, <2>1, <2>2, SMT DEF Within
<1> QED BY <1>6, <1>7, <1>8 DEF PlaceIn

\* The next byte is one further.
LEMMA NextByte ==
  ASSUME NEW k \in Names, k.kind = "move", NEW i \in 0..k.n-1, NEW v \in Word16,
         NEW d, d = IF k.up THEN 1 ELSE 65535
  PROVE  Plus((v + Along(k, i)) % 65536, d) = (v + Along(k, i + 1)) % 65536
<1>1. v \in Int /\ i \in Int /\ i + 1 \in Int BY Ranges, MoveNumbers, SMT
<1>2. Along(k, i) = (IF k.up THEN i ELSE 0 - i) /\ Along(k, i + 1) = (IF k.up THEN i + 1 ELSE 0 - (i + 1))
  BY <1>1, AlongIs
<1>3. \A u \in Int : /\ ((u % 65536) + 1) % 65536 = (u + 1) % 65536
                      /\ ((u % 65536) + 65535) % 65536 = (u - 1) % 65536
  BY SMT
<1>4. CASE k.up
  <2>1. Along(k, i) = i /\ Along(k, i + 1) = i + 1 BY <1>2, <1>4
  <2>4. d = 1 BY <1>4, SMT
  <2>2. (((v + i) % 65536) + 1) % 65536 = ((v + i) + 1) % 65536 BY <1>1, <1>3, SMT
  <2>3. (v + i) + 1 = v + (i + 1) BY <1>1
  <2> QED BY <2>1, <2>2, <2>3, <2>4, SMT DEF Plus
<1>5. CASE ~k.up
  <2>1. Along(k, i) = 0 - i /\ Along(k, i + 1) = 0 - (i + 1) BY <1>2, <1>5
  <2>4. d = 65535 BY <1>5, SMT
  <2>2. (((v + (0 - i)) % 65536) + 65535) % 65536 = ((v + (0 - i)) - 1) % 65536 BY <1>1, <1>3, SMT
  <2>3. (v + (0 - i)) - 1 = v + (0 - (i + 1)) BY <1>1
  <2> QED BY <2>1, <2>2, <2>3, <2>4, SMT DEF Plus
<1> QED BY <1>4, <1>5, SMT

\* Two bytes of a move do not arrive at one place.
LEMMA ApartFrom ==
  ASSUME NEW k \in Names, k.kind = "move", NEW i \in 0..k.n-1, NEW j \in 0..k.n-1, i # j
  PROVE  Destination(k, i) # Destination(k, j)
<1>1. k.n \in Nat /\ k.n <= 65536 /\ k.y \in Int /\ k.dst \in Int
  <2>1. k.dst \in Byte BY MoveType
  <2> QED BY <2>1, MoveNumbers, Numbers, SMT
<1>3. i \in Int /\ j \in Int /\ i - j < 65536 /\ j - i < 65536 BY <1>1, SMT
<1>2. Along(k, i) = (IF k.up THEN i ELSE 0 - i) /\ Along(k, j) = (IF k.up THEN j ELSE 0 - j)
  BY <1>3, AlongIs
<1> DEFINE u == k.y + Along(k, i)
           w == k.y + Along(k, j)
<1>4. u \in Int /\ w \in Int /\ u # w /\ u - w < 65536 /\ w - u < 65536
  <2>1. CASE k.up
    <3>1. u = k.y + i /\ w = k.y + j BY <1>2, <2>1, SMT
    <3> HIDE DEF u, w
    <3> QED BY <1>1, <1>3, <3>1, SMT
  <2>2. CASE ~k.up
    <3>1. u = k.y + (0 - i) /\ w = k.y + (0 - j) BY <1>2, <2>2, SMT
    <3> HIDE DEF u, w
    <3> QED BY <1>1, <1>3, <3>1, SMT
  <2> HIDE DEF u, w
  <2> QED BY <2>1, <2>2, SMT
<1> HIDE DEF u, w
<1> DEFINE b == k.dst * 65536
           p == u % 65536
           q == w % 65536
<1>5. p # q /\ p \in Int /\ q \in Int /\ b \in Int BY <1>1, <1>4, SMT
<1>6. Destination(k, i) = b + p /\ Destination(k, j) = b + q BY SMT DEF Destination, u, w
<1> HIDE DEF b, p, q
<1>7. b + p # b + q BY <1>5
<1> QED BY <1>6, <1>7

\* A step of the move itself: a byte arrives, on its place and on no other of the move.
LEMMA Carried ==
  ASSUME NEW k \in Names, k.kind = "move", NEW i \in 0..k.n-1, NEW mem, Arrived(k, mem, i),
         NEW new, new = Put(mem, Destination(k, i), Held(mem, Source(k, i)))
  PROVE  Arrived(k, new, i + 1)
<1>1. \A b : Held(new, b) = IF b = Destination(k, i) THEN Held(mem, Source(k, i)) ELSE Held(mem, b)
  BY PutHeld
<1>2. Held(mem, Source(k, i)) = Held(Program(k).mem, Source(k, i))
  <2>1. i >= i OBVIOUS
  <2> QED BY <2>1 DEF Arrived
<1>3. ASSUME NEW j \in 0..k.n-1, j < i + 1
      PROVE  Held(new, Destination(k, j)) = Held(Program(k).mem, Source(k, j))
  <2>1. CASE j = i BY <1>1, <1>2, <2>1
  <2>2. CASE j # i
    <3>1. Destination(k, j) # Destination(k, i) BY <2>2, ApartFrom
    <3>2. j < i BY <1>3, <2>2
    <3> QED BY <1>1, <3>1, <3>2 DEF Arrived
  <2> QED BY <2>1, <2>2
<1>4. ASSUME NEW j \in 0..k.n-1, j >= i + 1
      PROVE  Held(new, Source(k, j)) = Held(Program(k).mem, Source(k, j))
  <2>1. i < j /\ j >= i BY <1>4
  <2>2. Destination(k, i) # Source(k, j) BY <2>1, MoveType DEF Forward
  <2> QED BY <1>1, <2>1, <2>2 DEF Arrived
<1> QED BY <1>3, <1>4 DEF Arrived

\* The registers after it, before the program counter is put back.
LEMMA OneMoved ==
  ASSUME NEW s, Good(s), NEW ins, Decoded(ins), ins.op = "move", NEW up, NEW d,
         d = IF ins.arg = "mvn" THEN 1 ELSE 65535, up = Executed(Fetched(s, ins), ins)
  PROVE  /\ up.mem = Put(s.mem, ins.n * 65536 + s.y, Read(s, ins.bank, s.x))
         /\ up.x = Plus(s.x, d) /\ up.y = Plus(s.y, d) /\ up.a = Plus(s.a, 65535) /\ up.dbr = ins.n
         /\ up.pbr = s.pbr /\ up.e = s.e /\ up.p = s.p /\ up.stopped = s.stopped
         /\ up.pc = IF up.a = 65535 THEN Plus(s.pc, 3) ELSE Plus(Plus(s.pc, 3), 65533)
<1> DEFINE f == Fetched(s, ins)
           m == Put(f.mem, ins.n * 65536 + f.y, Read(f, ins.bank, f.x))
           w == Write(f, ins.n, f.y, Read(f, ins.bank, f.x))
           t == [w EXCEPT !.dbr = ins.n, !.x = Plus(@, d), !.y = Plus(@, d), !.a = Plus(@, 65535)]
<1>1. ins.mode = "banks" BY Form DEF Decoded
<1>2. Size(s, ins) = 3 BY <1>1 DEF Size
<1>3. Good(f) /\ AllBut(s, f) /\ f.pc = Plus(s.pc, 3) BY <1>2, FetchIs
<1>4. up = IF t.a = 65535 THEN t ELSE [t EXCEPT !.pc = Plus(@, 65533)]
  <2>1. up = BlockMove(f, ins) BY DEF Executed
  <2>2. BlockMove(f, ins) = IF t.a = 65535 THEN t ELSE [t EXCEPT !.pc = Plus(@, 65533)]
    BY DEF BlockMove
  <2> QED BY <2>1, <2>2
<1>5. m = Put(s.mem, ins.n * 65536 + s.y, Read(s, ins.bank, s.x))
  <2>1. Read(f, ins.bank, f.x) = Read(s, ins.bank, s.x) BY <1>3 DEF AllBut, Read
  <2> HIDE DEF f
  <2> QED BY <1>3, <2>1 DEF AllBut
<1> HIDE DEF f
<1>6. w = [f EXCEPT !.mem = m] BY DEF Write
<1> HIDE DEF m, w
<1>7. /\ w.mem = m /\ w.x = f.x /\ w.y = f.y /\ w.a = f.a /\ w.pbr = f.pbr /\ w.e = f.e /\ w.p = f.p
      /\ w.stopped = f.stopped /\ w.pc = f.pc /\ DOMAIN w = DOMAIN f
  BY <1>3, <1>6 DEF Good, Machine
<1> DEFINE x == Plus(w.x, d)
           y == Plus(w.y, d)
           a == Plus(w.a, 65535)
<1>8. t = [w EXCEPT !.dbr = ins.n, !.x = x, !.y = y, !.a = a] OBVIOUS
<1>9. x = Plus(s.x, d) /\ y = Plus(s.y, d) /\ a = Plus(s.a, 65535) BY <1>3, <1>7 DEF AllBut
<1> HIDE DEF x, y, a, t
<1>10. /\ t.mem = m /\ t.x = x /\ t.y = y /\ t.a = a /\ t.dbr = ins.n /\ t.pbr = f.pbr /\ t.e = f.e
       /\ t.p = f.p /\ t.stopped = f.stopped /\ t.pc = f.pc /\ DOMAIN t = DOMAIN f
  BY <1>3, <1>7, <1>8 DEF Good, Machine
<1> DEFINE pc == Plus(t.pc, 65533)
           u == [t EXCEPT !.pc = pc]
<1>11. up = IF t.a = 65535 THEN t ELSE u BY <1>4, SMT
<1>12. pc = Plus(Plus(s.pc, 3), 65533) BY <1>3, <1>10
<1> HIDE DEF pc
<1>13. /\ u.mem = t.mem /\ u.x = t.x /\ u.y = t.y /\ u.a = t.a /\ u.dbr = t.dbr /\ u.pbr = t.pbr
       /\ u.e = t.e /\ u.p = t.p /\ u.stopped = t.stopped /\ u.pc = pc
  BY <1>3, <1>10 DEF Good, Machine
<1> HIDE DEF u
<1>14. CASE t.a = 65535 BY <1>3, <1>5, <1>9, <1>10, <1>11, <1>14, SMT DEF AllBut
<1>15. CASE t.a # 65535 BY <1>3, <1>5, <1>9, <1>10, <1>11, <1>12, <1>13, <1>15, SMT DEF AllBut
<1> QED BY <1>14, <1>15, SMT

LEMMA MoveIs ==
  ASSUME NEW k \in Names, k.kind = "move", NEW s, Good(s), s.pbr = 0, s.pc = Entry + 13,
         NEW i \in 0..k.n-1, Within(k, s, i), Arrived(k, s.mem, i)
  PROVE  /\ PlaceIn(k, Stepped(k, s), i + 1) /\ Stepped(k, s).stopped = s.stopped
         /\ Arrived(k, Stepped(k, s).mem, i + 1) /\ Stepped(k, s).pc # Entry + 17
<1> DEFINE ins == InsAt(k, s.pc)
           t == Stepped(k, s)
           d == IF ins.arg = "mvn" THEN 1 ELSE 65535
<1>1. Coded(k, Entry + 13, "move", IF k.up THEN "mvn" ELSE "mvp", "banks", k.dst, k.src) BY CodeIs
<1>2. /\ Decoded(ins) /\ ins.op = "move" /\ ins.arg = (IF k.up THEN "mvn" ELSE "mvp")
      /\ ins.n = k.dst /\ ins.bank = k.src
  BY <1>1 DEF Coded
<1>3. t = Executed(Fetched(s, ins), ins) BY DEF Stepped
<1> HIDE DEF ins, t
<1>4. d = IF k.up THEN 1 ELSE 65535 BY <1>2, SMT
<1> HIDE DEF d
<1>5. /\ t.mem = Put(s.mem, k.dst * 65536 + s.y, Read(s, k.src, s.x))
      /\ t.x = Plus(s.x, d) /\ t.y = Plus(s.y, d) /\ t.a = Plus(s.a, 65535) /\ t.dbr = k.dst
      /\ t.pbr = s.pbr /\ t.e = s.e /\ t.p = s.p /\ t.stopped = s.stopped
      /\ t.pc = IF t.a = 65535 THEN Plus(s.pc, 3) ELSE Plus(Plus(s.pc, 3), 65533)
  BY <1>2, <1>3, OneMoved DEF d
<1>6. /\ Wide(s) /\ s.x = (k.x + Along(k, i)) % 65536 /\ s.y = (k.y + Along(k, i)) % 65536
      /\ (i < k.n => s.a = k.n - 1 - i)
  BY SMT DEF Within
<1>7. t.x = (k.x + Along(k, i + 1)) % 65536 /\ t.y = (k.y + Along(k, i + 1)) % 65536
  <2>1. k.x \in Word16 /\ k.y \in Word16 BY MoveType
  <2>2. /\ Plus((k.x + Along(k, i)) % 65536, d) = (k.x + Along(k, i + 1)) % 65536
        /\ Plus((k.y + Along(k, i)) % 65536, d) = (k.y + Along(k, i + 1)) % 65536
    BY <1>4, <2>1, NextByte
  <2> QED BY <1>5, <1>6, <2>2, SMT
<1>8. Arrived(k, t.mem, i + 1)
  <2>1. k.dst * 65536 + s.y = Destination(k, i) BY <1>6, SMT DEF Destination
  <2>2. Read(s, k.src, s.x) = Held(s.mem, Source(k, i))
    <3>1. k.src * 65536 + s.x = Source(k, i) BY <1>6, SMT DEF Source
    <3> QED BY <3>1, SMT DEF Read, Held
  <2>3. t.mem = Put(s.mem, Destination(k, i), Held(s.mem, Source(k, i))) BY <1>5, <2>1, <2>2, SMT
  <2> QED BY <2>3, Carried
<1>9. /\ i \in Int /\ k.n \in Nat /\ 0 <= i /\ i < k.n /\ k.n <= 65536 /\ i + 1 \in 0..k.n
      /\ s.a = k.n - 1 - i
  BY <1>6, MoveNumbers, SMT
<1>10. Plus(Entry + 13, 3) = Entry + 16 /\ Plus(Entry + 16, 65533) = Entry + 13 BY SMT DEF Plus, Entry
<1>11. Wide(t) BY <1>5, <1>6 DEF Wide
<1>12. CASE i + 1 < k.n
  <2>1. t.a = k.n - 1 - (i + 1) /\ t.a # 65535 BY <1>5, <1>9, <1>12, SMT DEF Plus
  <2>2. t.pc = Entry + 13 BY <1>5, <1>10, <2>1, SMT
  <2>3. Within(k, t, i + 1) BY <1>7, <1>9, <1>11, <1>12, <2>1, SMT DEF Within
  <2>4. PlaceIn(k, t, i + 1) BY <1>5, <1>12, <2>2, <2>3 DEF PlaceIn
  <2>5. t.pc # Entry + 17 BY <2>2, SMT DEF Entry
  <2> QED BY <1>5, <1>8, <2>4, <2>5 DEF t
<1>13. CASE i + 1 = k.n
  <2>1. t.a = 65535 BY <1>5, <1>9, <1>13, SMT DEF Plus
  <2>2. t.pc = Entry + 16 BY <1>5, <1>10, <2>1, SMT
  <2>3. Within(k, t, i + 1) BY <1>5, <1>7, <1>9, <1>11, <1>13, <2>1, SMT DEF Within
  <2>4. PlaceIn(k, t, i + 1) BY <1>5, <1>13, <2>2, <2>3 DEF PlaceIn
  <2>5. t.pc # Entry + 17 BY <2>2, SMT DEF Entry
  <2> QED BY <1>5, <1>8, <2>4, <2>5 DEF t
<1> QED BY <1>9, <1>12, <1>13

LEMMA Begun ==
  ASSUME NEW k \in Names, k.kind = "move", NEW s, PlaceIn(k, s, 0)
  PROVE  s.pc # Entry + 17
<1>1. 0 # k.n BY MoveNumbers, SMT
<1> QED BY <1>1, SMT DEF PlaceIn, Entry

\* Every instruction of the program, and where it leads.
LEMMA Onwards ==
  ASSUME NEW k \in Names, k.kind = "move", NEW s, Good(s), OnTheWay(k, s, s.mem), s.pc # Entry + 17,
         s.stopped = FALSE
  PROVE  /\ OnTheWay(k, Stepped(k, s), Stepped(k, s).mem)
         /\ Stepped(k, s).stopped <=> Stepped(k, s).pc = Entry + 17
         /\ InsAt(k, s.pc).op \notin {"brk", "cop", "return"}
         /\ s.pbr = 0
<1> DEFINE t == Stepped(k, s)
<1>1. PICK i \in 0..k.n : PlaceIn(k, s, i) /\ Arrived(k, s.mem, i) BY DEF OnTheWay
<1>2. s.pbr = 0 BY <1>1 DEF PlaceIn
<1>3. 0 \in 0..k.n BY MoveNumbers, SMT
<1>4. ASSUME PlaceIn(k, t, 0), t.stopped = s.stopped, t.mem = s.mem, i = 0
      PROVE  OnTheWay(k, t, t.mem) /\ (t.stopped <=> t.pc = Entry + 17)
  BY <1>1, <1>3, <1>4, Begun DEF OnTheWay
<1>5. CASE s.pc = Entry /\ i = 0 /\ s.e = TRUE
  <2>1. Coded(k, Entry, "flag", <<"c", FALSE>>, "imp", 0, 0) BY CodeIs
  <2> QED BY <1>2, <1>4, <1>5, <2>1, ClearIs DEF Coded
<1>6. CASE s.pc = Entry + 1 /\ i = 0 /\ s.e = TRUE /\ s.p.c = FALSE
  <2>1. Coded(k, Entry + 1, "xce", "", "imp", 0, 0) BY CodeIs
  <2> QED BY <1>2, <1>4, <1>6, <2>1, NativeIs DEF Coded
<1>7. CASE s.pc = Entry + 2 /\ i = 0 /\ s.e = FALSE
  <2>1. Coded(k, Entry + 2, "bits", "rep", "byte", 48, 0) BY CodeIs
  <2> QED BY <1>2, <1>4, <1>7, <2>1, WidenIs DEF Coded
<1>8. CASE i = 0 /\ (\/ s.pc = Entry + 4 /\ Wide(s)
                     \/ s.pc = Entry + 7 /\ X0(k, s)
                     \/ s.pc = Entry + 10 /\ Y0(k, s))
  <2>1. /\ Coded(k, Entry + 4, "load", "x", "imm", k.x, 0)
        /\ Coded(k, Entry + 7, "load", "y", "imm", k.y, 0)
        /\ Coded(k, Entry + 10, "load", "a", "imm", k.n - 1, 0)
    BY CodeIs
  <2>2. InsAt(k, s.pc).op = "load" BY <1>8, <2>1 DEF Coded
  <2> QED BY <1>2, <1>4, <1>8, <2>2, LoadsAre
<1>9. CASE s.pc = Entry + 13 /\ i < k.n /\ Within(k, s, i)
  <2>1. Coded(k, Entry + 13, "move", IF k.up THEN "mvn" ELSE "mvp", "banks", k.dst, k.src) BY CodeIs
  <2>2. i \in 0..k.n-1 /\ i + 1 \in 0..k.n BY <1>9, MoveNumbers
  <2>3. /\ PlaceIn(k, t, i + 1) /\ t.stopped = s.stopped /\ Arrived(k, t.mem, i + 1)
        /\ t.pc # Entry + 17
    BY <1>1, <1>2, <1>9, <2>2, MoveIs
  <2> QED BY <1>2, <1>9, <2>1, <2>2, <2>3 DEF Coded, OnTheWay
<1>10. CASE s.pc = Entry + 16 /\ i = k.n /\ Within(k, s, i)
  <2>1. Coded(k, Entry + 16, "stp", "", "imp", 0, 0) BY CodeIs
  <2>2. PlaceIn(k, t, i) /\ t.pc = Entry + 17 /\ t.stopped = TRUE /\ t.mem = s.mem
    BY <1>2, <1>10, StopIs
  <2> QED BY <1>1, <1>2, <1>10, <2>1, <2>2 DEF Coded, OnTheWay
<1> HIDE DEF t
<1>11. \/ s.pc = Entry /\ i = 0 /\ s.e = TRUE
       \/ s.pc = Entry + 1 /\ i = 0 /\ s.e = TRUE /\ s.p.c = FALSE
       \/ s.pc = Entry + 2 /\ i = 0 /\ s.e = FALSE
       \/ i = 0 /\ (\/ s.pc = Entry + 4 /\ Wide(s)
                    \/ s.pc = Entry + 7 /\ X0(k, s)
                    \/ s.pc = Entry + 10 /\ Y0(k, s))
       \/ s.pc = Entry + 13 /\ i < k.n /\ Within(k, s, i)
       \/ s.pc = Entry + 16 /\ i = k.n /\ Within(k, s, i)
  BY <1>1 DEF PlaceIn
<1> QED BY <1>5, <1>6, <1>7, <1>8, <1>9, <1>10, <1>11 DEF t

\* Where the program is, depends on its registers only.
LEMMA PlaceOf ==
  ASSUME NEW k, NEW s, NEW t, Registers(t) = Registers(s), NEW mem, OnTheWay(k, s, mem)
  PROVE  OnTheWay(k, t, mem) /\ t.pc = s.pc
<1>1. \A r \in {"a", "x", "y", "sp", "dp", "pc", "pbr", "dbr", "p", "e"} : t[r] = s[r]
  <2> TAKE r \in {"a", "x", "y", "sp", "dp", "pc", "pbr", "dbr", "p", "e"}
  <2>1. Registers(t)[r] = t[r] /\ Registers(s)[r] = s[r] BY DEF Registers
  <2> QED BY <2>1
<1>2. /\ t.a = s.a /\ t.x = s.x /\ t.y = s.y /\ t.pc = s.pc /\ t.pbr = s.pbr /\ t.dbr = s.dbr
      /\ t.p = s.p /\ t.e = s.e
  BY <1>1
<1>3. \A i : PlaceIn(k, s, i) => PlaceIn(k, t, i)
  <2>1. Wide(s) => Wide(t) BY <1>2 DEF Wide
  <2>2. X0(k, s) => X0(k, t) BY <1>2, <2>1 DEF X0
  <2>3. Y0(k, s) => Y0(k, t) BY <1>2, <2>2 DEF Y0
  <2>4. \A i : Within(k, s, i) => Within(k, t, i) BY <1>2, <2>1, SMT DEF Within
  <2> QED BY <1>2, <2>1, <2>2, <2>3, <2>4 DEF PlaceIn
<1> QED BY <1>2, <1>3 DEF OnTheWay

\* Memory where the bytes of a move are what they were.
LEMMA Untouched ==
  ASSUME NEW k, NEW s, NEW mem, NEW new, OnTheWay(k, s, mem),
         \A b \in Moved(k) : Held(new, b) = Held(mem, b)
  PROVE  OnTheWay(k, s, new)
<1>1. \A j \in 0..k.n-1 : Source(k, j) \in Moved(k) /\ Destination(k, j) \in Moved(k) BY DEF Moved
<1>2. \A i : Arrived(k, mem, i) => Arrived(k, new, i) BY <1>1 DEF Arrived
<1> QED BY <1>2 DEF OnTheWay

LEMMA MoveInitially == Init => MoveInv
<1> SUFFICES ASSUME Init PROVE MoveInv OBVIOUS
<1>1. EnteredInv BY EnteredInitially
<1>2. CASE program.kind = "move"
  <2> DEFINE k == program
             s == Reset(Program(k).mem)
  <2>1. k \in Names /\ cpu = s /\ entered = <<>> BY DEF Init, It
  <2>2. s.pc = Entry BY <1>2, <2>1, MoveType DEF IsMove
  <2>3. s.pbr = 0 /\ s.e = TRUE /\ s.stopped = FALSE /\ s.mem = Program(k).mem BY DEF Reset
  <2> HIDE DEF s
  <2>4. PlaceIn(k, s, 0) BY <2>2, <2>3 DEF PlaceIn
  <2>5. Arrived(k, s.mem, 0) BY <2>3 DEF Arrived
  <2>6. 0 \in 0..k.n BY <1>2, <2>1, MoveNumbers, SMT
  <2>7. OnTheWay(k, s, s.mem) BY <2>4, <2>5, <2>6 DEF OnTheWay
  <2>8. s.pc # Entry + 17 BY <1>2, <2>1, <2>4, Begun
  <2>9. Main = s BY <2>1 DEF Main
  <2> QED BY <1>1, <2>1, <2>3, <2>7, <2>8, <2>9 DEF MoveInv
<1>3. CASE program.kind # "move" BY <1>1, <1>3 DEF MoveInv
<1> QED BY <1>2, <1>3

LEMMA MoveSteps == MoveInv /\ [Next]_vars /\ [Saves /\ LeftAlone]_vars => MoveInv'
<1> SUFFICES ASSUME MoveInv, [Next]_vars, [Saves /\ LeftAlone]_vars PROVE MoveInv' OBVIOUS
<1>1. EnteredInv /\ EnteredInv' BY EnteredSteps DEF MoveInv
<1>2. /\ program \in Names /\ Good(cpu) /\ entered \in Seq(Machines)
  BY <1>1 DEF EnteredInv, Inv
<1>3. program' = program /\ (program.kind = "move" => program'.kind = "move")
  BY DEF Next, Request, TakeNmi, TakeIrq, Instruction, vars
<1>4. CASE program.kind # "move" BY <1>1, <1>3, <1>4 DEF MoveInv
<1>5. CASE UNCHANGED vars BY <1>1, <1>5 DEF MoveInv, Main, vars
<1> SUFFICES ASSUME program.kind = "move", Next, Saves, LeftAlone PROVE MoveInv'
  BY <1>4, <1>5
<1> DEFINE k == program
<1>6. /\ OnTheWay(k, Main, cpu.mem)
      /\ cpu.stopped <=> entered = <<>> /\ Main.pc = Entry + 17
      /\ entered # <<>> => Main.pc # Entry + 17
  BY DEF MoveInv
<1>7. SUFFICES /\ OnTheWay(k, Main', cpu'.mem)
               /\ cpu'.stopped <=> entered' = <<>> /\ Main'.pc = Entry + 17
               /\ entered' # <<>> => Main'.pc # Entry + 17
  BY <1>1, <1>3 DEF MoveInv
<1>8. cpu.stopped \in BOOLEAN BY <1>2 DEF Good, Machine
<1> HIDE DEF Machines
<1>9. \A s : <<s>> \o entered # <<>> /\ (IF entered = <<>> THEN s ELSE entered[Len(entered)])
                                        = (<<s>> \o entered)[Len(<<s>> \o entered)]
  <2> TAKE s
  <2>1. <<s>> \in Seq(Machines \cup {s}) /\ entered \in Seq(Machines \cup {s}) BY <1>2
  <2>2. Len(<<s>> \o entered) = 1 + Len(entered) /\ <<s>> \o entered # <<>> BY <2>1
  <2>3. CASE entered = <<>> BY <2>1, <2>2, <2>3
  <2>4. CASE entered # <<>>
    <3>1. Len(entered) \in Nat /\ Len(entered) >= 1 BY <2>1, <2>4
    <3>2. (<<s>> \o entered)[1 + Len(entered)] = entered[Len(entered)] BY <2>1, <3>1
    <3> QED BY <2>2, <2>4, <3>2
  <2> QED BY <2>3, <2>4
\* A handler is entered.
<1>10. ASSUME NEW s, entered' = <<s>> \o entered, cpu'.stopped = FALSE, Registers(s) = Registers(cpu),
              \A b \in Moved(k) : Held(cpu'.mem, b) = Held(cpu.mem, b), entered = <<>> => cpu.pc # Entry + 17
       PROVE  /\ OnTheWay(k, Main', cpu'.mem)
              /\ cpu'.stopped <=> entered' = <<>> /\ Main'.pc = Entry + 17
              /\ entered' # <<>> => Main'.pc # Entry + 17
  <2>1. entered' # <<>> /\ Main' = IF entered = <<>> THEN s ELSE Main BY <1>9, <1>10 DEF Main
  <2>2. OnTheWay(k, Main, cpu'.mem) BY <1>6, <1>10, Untouched
  <2>3. CASE entered = <<>>
    <3>1. Main = cpu /\ Main' = s BY <2>1, <2>3 DEF Main
    <3>2. OnTheWay(k, s, cpu'.mem) /\ s.pc = cpu.pc BY <1>10, <2>2, <3>1, PlaceOf
    <3> QED BY <1>10, <2>1, <2>3, <3>1, <3>2
  <2>4. CASE entered # <<>> BY <1>6, <1>10, <2>1, <2>2, <2>4
  <2> QED BY <2>3, <2>4
<1>11. CASE Request
  <2>1. /\ cpu'.mem = cpu.mem /\ cpu'.stopped = cpu.stopped /\ Registers(cpu') = Registers(cpu)
        /\ entered' = entered
    <3>1. cpu' = [cpu EXCEPT !.nmi = TRUE] \/ cpu' = [cpu EXCEPT !.irq = TRUE] BY <1>11 DEF Request
    <3>2. entered' = entered BY <1>11 DEF Request
    <3> QED BY <1>2, <3>1, <3>2 DEF Good, Machine, Registers
  <2>2. CASE entered = <<>>
    <3>1. Main = cpu /\ Main' = cpu' BY <2>1, <2>2 DEF Main
    <3>2. OnTheWay(k, cpu', cpu.mem) /\ cpu'.pc = cpu.pc BY <1>6, <2>1, <3>1, PlaceOf
    <3> QED BY <1>6, <2>1, <2>2, <3>1, <3>2
  <2>3. CASE entered # <<>>
    <3>1. Main' = Main BY <2>1, <2>3 DEF Main
    <3> QED BY <1>6, <2>1, <2>3, <3>1
  <2> QED BY <2>2, <2>3
<1>12. CASE TakeNmi \/ TakeIrq
  <2> DEFINE s == [cpu EXCEPT !.waiting = FALSE]
  <2>1. Good(s) /\ Registers(s) = Registers(cpu) /\ s.stopped = cpu.stopped
    BY <1>2 DEF Good, Machine, Confined, Registers
  <2>2. entered' = <<s>> \o entered /\ cpu' \in Entries(s) /\ ~cpu.stopped
    BY <1>12 DEF TakeNmi, TakeIrq, Entries
  <2> HIDE DEF s
  <2>3. cpu'.stopped = FALSE
    <3>1. \E p : Framed(s, cpu', p) BY <2>1, <2>2, EntryFrames
    <3> QED BY <1>8, <2>1, <2>2, <3>1 DEF Framed
  <2>4. ~Instruction BY <1>12 DEF TakeNmi, TakeIrq, Instruction
  <2>5. \A b \in Moved(k) : Held(cpu'.mem, b) = Held(cpu.mem, b) BY <2>4 DEF LeftAlone
  <2>6. entered = <<>> => cpu.pc # Entry + 17 BY <1>6, <2>2 DEF Main
  <2> QED BY <1>10, <2>1, <2>2, <2>3, <2>5, <2>6
<1>13. CASE Instruction /\ entered = <<>>
  <2>1. Main = cpu BY <1>13 DEF Main
  <2>2. cpu.stopped = FALSE /\ cpu.pc # Entry + 17 BY <1>6, <1>8, <1>13, <2>1 DEF Instruction
  <2>3. /\ OnTheWay(k, Stepped(k, cpu), Stepped(k, cpu).mem)
        /\ Stepped(k, cpu).stopped <=> Stepped(k, cpu).pc = Entry + 17
        /\ InsAt(k, cpu.pc).op \notin {"brk", "cop", "return"}
        /\ cpu.pbr = 0
    BY <1>2, <1>6, <2>1, <2>2, Onwards
  <2>4. Here = cpu.pc
    <3>1. cpu.pc \in Int BY <1>2, Fields, Numbers
    <3> QED BY <2>3, <3>1, SMT DEF Here
  <2>5. It.code[Here] = InsAt(k, cpu.pc) BY <2>4 DEF It, InsAt
  <2>6. cpu' = Stepped(k, cpu) BY <1>13, <2>5 DEF Instruction, Stepped
  <2>7. entered' = <<>> BY <1>13, <2>3, <2>5 DEF Instruction
  <2>8. Main' = cpu' BY <2>7 DEF Main
  <2> QED BY <2>3, <2>6, <2>7, <2>8
<1>14. CASE Instruction /\ entered # <<>>
  <2>1. /\ cpu'.stopped = FALSE
        /\ \A b \in Moved(k) : Held(cpu'.mem, b) = Held(cpu.mem, b)
    <3>1. ~cpu'.stopped /\ \A b \in Moved(k) : Held(cpu'.mem, b) = Held(cpu.mem, b)
      BY <1>14 DEF LeftAlone
    <3>2. cpu'.stopped \in BOOLEAN BY <1>1 DEF EnteredInv, Inv, Good, Machine
    <3> QED BY <3>1, <3>2
  <2>2. OnTheWay(k, Main, cpu'.mem) BY <1>6, <2>1, Untouched
  <2>3. Main.pc # Entry + 17 BY <1>6, <1>14
  <2>4. CASE entered' = entered
    <3>1. Main' = Main BY <1>14, <2>4 DEF Main
    <3> QED BY <1>14, <2>1, <2>2, <2>3, <2>4, <3>1
  <2>5. CASE \E s : entered' = <<s>> \o entered
    <3>1. entered' # <<>> /\ Main' = Main BY <1>9, <1>14, <2>5 DEF Main
    <3> QED BY <2>1, <2>2, <2>3, <3>1
  <2>6. CASE entered' = Tail(entered)
    <3>1. Len(entered) \in Nat /\ Len(entered) >= 1 /\ Len(entered') = Len(entered) - 1
          /\ entered' \in Seq(Machines)
      BY <1>2, <1>14, <2>6
    <3>2. CASE Len(entered) = 1
      <4>1. entered' = <<>> BY <3>1, <3>2
      <4>2. Main = entered[1] /\ Main' = cpu' BY <1>14, <3>2, <4>1 DEF Main
      <4>3. Registers(cpu') = Registers(Main)
        <5>1. Len(entered') < Len(entered) BY <3>1
        <5> QED BY <1>1, <4>2, <5>1, Returned
      <4>4. OnTheWay(k, cpu', cpu'.mem) /\ cpu'.pc = Main.pc BY <2>2, <4>3, PlaceOf
      <4> QED BY <2>1, <2>3, <4>1, <4>2, <4>4
    <3>3. CASE Len(entered) # 1
      <4>1. entered' # <<>> /\ entered'[Len(entered')] = entered[Len(entered)]
        <5> DEFINE n == Len(entered)
        <5>1. n \in Nat /\ n - 1 >= 1 /\ n - 1 \in 1..n-1 /\ Len(entered') = n - 1 BY <3>1, <3>3
        <5>2. \A i \in 1..n-1 : Tail(entered)[i] = entered[i + 1] BY <1>2, <1>14
        <5>3. Tail(entered)[n - 1] = entered[n - 1 + 1] BY <5>1, <5>2
        <5>4. n - 1 + 1 = n BY <5>1
        <5>5. entered' # <<>> BY <3>1, <5>1
        <5> QED BY <2>6, <5>1, <5>3, <5>4, <5>5
      <4>2. Main' = Main BY <1>14, <4>1 DEF Main
      <4> QED BY <2>1, <2>2, <2>3, <4>1, <4>2
    <3> QED BY <3>2, <3>3
  <2> QED BY <1>14, <2>4, <2>5, <2>6 DEF Instruction
<1> QED BY <1>11, <1>12, <1>13, <1>14 DEF Next

\* A block move of any length, in either direction, that interrupts cut at any instruction,
\* moves every byte once and leaves the registers behind the last, if it does not overwrite what
\* it has still to move, and nothing else writes to its bytes (instructions.rs:940-976).
THEOREM BlockMovesAreExact == Spec /\ HandlersSave /\ MovesLeftAlone => []BlockMoveExact
<1>1. MoveInv => BlockMoveExact
  <2> SUFFICES ASSUME MoveInv, program.kind = "move", cpu.stopped
               PROVE  LET k == program
                          d(i) == IF k.up THEN i ELSE -i
                      IN  /\ \A i \in 0..k.n-1 : Read(cpu, k.dst, (k.y + d(i)) % 65536)
                                               = Read(Reset(It.mem), k.src, (k.x + d(i)) % 65536)
                          /\ cpu.a = 65535 /\ cpu.dbr = k.dst
                          /\ cpu.x = (k.x + d(k.n)) % 65536 /\ cpu.y = (k.y + d(k.n)) % 65536
    BY DEF BlockMoveExact
  <2> DEFINE k == program
  <2>1. k \in Names /\ Main = cpu /\ cpu.pc = Entry + 17 BY DEF MoveInv, EnteredInv, Inv, Main
  <2>2. PICK i \in 0..k.n : PlaceIn(k, cpu, i) /\ Arrived(k, cpu.mem, i) BY <2>1 DEF MoveInv, OnTheWay
  <2>3. i = k.n /\ Within(k, cpu, i) BY <2>1, <2>2, SMT DEF PlaceIn, Entry
  <2>4. k.n \in Int /\ \A j \in 0..k.n-1 : j \in Int /\ j < k.n BY <2>1, MoveNumbers, SMT
  <2>5. \A j \in Int : (IF k.up THEN j ELSE -j) = Along(k, j)
    <3>1. \A j \in Int : -j = 0 - j OBVIOUS
    <3> QED BY <3>1, AlongIs
  <2>6. ASSUME NEW j \in 0..k.n-1
        PROVE  Read(cpu, k.dst, (k.y + Along(k, j)) % 65536)
               = Read(Reset(It.mem), k.src, (k.x + Along(k, j)) % 65536)
    <3>1. Held(cpu.mem, Destination(k, j)) = Held(Program(k).mem, Source(k, j))
      BY <2>2, <2>3, <2>4, Zenon DEF Arrived
    <3>2. Read(cpu, k.dst, (k.y + Along(k, j)) % 65536) = Held(cpu.mem, Destination(k, j))
      BY SMT DEF Read, Held, Destination
    <3>3. Reset(It.mem).mem = Program(k).mem BY DEF Reset, It
    <3>4. Read(Reset(It.mem), k.src, (k.x + Along(k, j)) % 65536) = Held(Reset(It.mem).mem, Source(k, j))
      BY SMT DEF Read, Held, Source
    <3> QED BY <3>1, <3>2, <3>3, <3>4
  <2>7. /\ cpu.a = 65535 /\ cpu.dbr = k.dst
        /\ cpu.x = (k.x + Along(k, k.n)) % 65536 /\ cpu.y = (k.y + Along(k, k.n)) % 65536
    BY <2>3, SMT DEF Within
  <2> QED BY <2>4, <2>5, <2>6, <2>7, SMT
<1>2. [Saves]_vars /\ [LeftAlone]_vars => [Saves /\ LeftAlone]_vars OBVIOUS
<1> QED BY <1>1, <1>2, MoveInitially, MoveSteps, PTL DEF Spec, HandlersSave, MovesLeftAlone
=============================================================================
