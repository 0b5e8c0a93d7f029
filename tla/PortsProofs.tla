----------------------------- MODULE PortsProofs ----------------------------
(***************************************************************************)
(* The ports keep their promises for programs, data and buttons of any     *)
(* kind and any number of accesses.                                        *)
(*                                                                         *)
(* BlockLands and ReadsBack speak of what has come of the accesses since   *)
(* an address was set; they say nothing of the address, the latch and the  *)
(* flip-flop that the next access will use, and so they are not inductive. *)
(* Each unit has an invariant that does: the address is where that many    *)
(* accesses move it (OamPos, CgramAddr, VWord), a byte waits in the latch  *)
(* exactly when a pair is half written and is the last one written, and    *)
(* the memory holds what the accesses before it have made of it (Holds).   *)
(* The parity of the OAM position is that of the number of accesses        *)
(* because the addresses a program can set are even (OamStart).  VRAM's    *)
(* buffer holds the word before the address.  The scroll registers'        *)
(* invariant says of every latch that it holds the last byte that went     *)
(* through it.                                                             *)
(*                                                                         *)
(* An access belongs to one unit: XStepped proves that it keeps the        *)
(* invariant of that unit, XKept that a step of another unit does, since   *)
(* that step leaves the unit's run alone or replaces it by its own.        *)
(*                                                                         *)
(* Holds grows write by write (HoldsMore), so that no induction over the   *)
(* length of a block is needed: the behaviour is the induction.            *)
(***************************************************************************)
EXTENDS Ports, FiniteSetTheorems, SequenceTheorems, TLAPS

\* What Below(n) holds.
LEMMA Ranges == \A n \in Nat : \A v : v \in Below(n) <=> v \in Int /\ 0 <= v /\ v < n
BY DEF Below

\* Bytes and words are integers in their ranges.
LEMMA Bytes ==
  /\ \A v : v \in Uint8 <=> v \in Int /\ 0 <= v /\ v < 256
  /\ \A v : v \in Uint16 <=> v \in Int /\ 0 <= v /\ v < 65536
BY Ranges DEF Uint8, Uint16

\* What a program writes to a register.
LEMMA WrittenIs ==
  ASSUME program \in Programs, NEW reg, NEW v \in Written(reg)
  PROVE  v \in Uint16 /\ (reg # "scanline" => v \in Uint8)
<1>1. reg \in DOMAIN program /\ v \in program[reg] BY DEF Written
<1>2. program[reg] \subseteq IF reg = "scanline" THEN Uint16 ELSE Uint8
  BY <1>1, PortsAssumption DEF PortsAssumption
<1> QED BY <1>1, <1>2, Bytes

\* What is written to a memory is a byte.
LEMMA DataAre ==
  ASSUME accesses \in Nat, accesses < MaxAccesses PROVE Datum(accesses) \in Uint8
BY PortsAssumption, Ranges DEF PortsAssumption

-----------------------------------------------------------------------------
(* A memory: what has been written to it, in order.                        *)

\* A write changes the byte it is for, and no other.
LEMMA SetByte ==
  ASSUME NEW mem, NEW a, NEW v
  PROVE  \A b : Byte(Set(mem, a, v), b) = IF b = a THEN v ELSE Byte(mem, b)
<1> TAKE b
<1>1. DOMAIN Set(mem, a, v) = DOMAIN mem \cup {a} BY DEF Set
<1>2. \A k \in DOMAIN mem \cup {a} : Set(mem, a, v)[k] = IF k = a THEN v ELSE mem[k] BY DEF Set
<1> HIDE DEF Set
<1> QED BY <1>1, <1>2 DEF Byte

\* mem is what the writes numbered L have made of before.
Holds(before, mem, L, place, value) ==
  /\ \A i \in L : (\A j \in L : j > i => place[j] # place[i]) => Byte(mem, place[i]) = value[i]
  /\ \A a : (\A i \in L : place[i] # a) => Byte(mem, a) = Byte(before, a)

\* Nothing has been written yet.
LEMMA HoldsNone ==
  ASSUME NEW mem, NEW place, NEW value PROVE Holds(mem, mem, {}, place, value)
BY DEF Holds

\* The write numbered m comes after those in L, which stay as they are.
More(L, m, place, value, place2, value2) ==
  /\ L \in SUBSET Int /\ m \in Int
  /\ \A i \in L : i < m /\ place2[i] = place[i] /\ value2[i] = value[i]

\* One more write, to the end of the block or back into it.
LEMMA HoldsMore ==
  ASSUME NEW before, NEW mem, NEW L, NEW place, NEW value, NEW m, NEW place2, NEW value2,
         Holds(before, mem, L, place, value), More(L, m, place, value, place2, value2)
  PROVE  Holds(before, Set(mem, place2[m], value2[m]), L \cup {m}, place2, value2)
<1> USE DEF More
<1> DEFINE mem2 == Set(mem, place2[m], value2[m])
<1>1. \A b : Byte(mem2, b) = IF b = place2[m] THEN value2[m] ELSE Byte(mem, b) BY SetByte
<1> HIDE DEF mem2
<1>2. ASSUME NEW i \in L \cup {m}, \A j \in L \cup {m} : j > i => place2[j] # place2[i]
      PROVE  Byte(mem2, place2[i]) = value2[i]
  <2>1. CASE i = m BY <1>1, <2>1
  <2>2. CASE i # m
    <3>1. i \in L /\ m > i BY <1>2, <2>2
    <3>2. place2[m] # place2[i] BY <1>2, <3>1
    <3>3. \A j \in L : j > i => place[j] # place[i] BY <1>2, <3>1
    <3>4. Byte(mem, place[i]) = value[i] BY <3>1, <3>3 DEF Holds
    <3> QED BY <1>1, <3>1, <3>2, <3>4
  <2> QED BY <2>1, <2>2
<1>3. ASSUME NEW a, \A i \in L \cup {m} : place2[i] # a PROVE Byte(mem2, a) = Byte(before, a)
  <2>1. \A i \in L : place[i] # a BY <1>3
  <2>2. Byte(mem, a) = Byte(before, a) BY <2>1 DEF Holds
  <2> QED BY <1>1, <1>3, <2>2
<1> QED BY <1>2, <1>3 DEF Holds, mem2

\* Holds depends on the places and the values of the writes only.
LEMMA HoldsSame ==
  ASSUME NEW before, NEW mem, NEW L, NEW place, NEW value, NEW place2, NEW value2,
         Holds(before, mem, L, place, value),
         \A i \in L : place2[i] = place[i] /\ value2[i] = value[i]
  PROVE  Holds(before, mem, L, place2, value2)
BY DEF Holds

-----------------------------------------------------------------------------
(* The history.                                                            *)

Item == [op : {"r", "w"}, half : {0, 1}, val : Int]
IsRun(r) ==
  /\ r = [unit |-> r.unit, clean |-> r.clean, start |-> r.start, before |-> r.before, items |-> r.items]
  /\ r.clean \in BOOLEAN /\ r.items \in Seq(Item)

Running(u, r) == r.unit = u /\ r.clean = TRUE

\* An access moves the run of its unit, or begins one.
Touched(u, r, r2) == r2 = r \/ r2.unit = u

\* The run r2 is the run r with one more item.
Extended(r, it, r2) ==
  /\ r2.items = Append(r.items, it) /\ r2.start = r.start /\ r2.before = r.before
  /\ r2.unit = r.unit /\ r2.clean = r.clean

\* Note, Begin and Broken, of the runs before and after.
Notes(u, it, r, r2)        == r2 = IF r.unit = u THEN [r EXCEPT !.items = Append(@, it)] ELSE r
Begins(u, start, mem, r2)  == r2 = [unit |-> u, clean |-> TRUE, start |-> start, before |-> mem, items |-> <<>>]
Breaks(u, r, r2)           == r2 = IF r.unit = u THEN [r EXCEPT !.clean = FALSE] ELSE r

\* A run that takes an item grows by it if it is the unit's, and is left alone otherwise.
LEMMA Noted ==
  ASSUME NEW r, NEW u, NEW it, NEW r2, IsRun(r), it \in Item, Notes(u, it, r, r2)
  PROVE  /\ IsRun(r2) /\ Touched(u, r, r2)
         /\ Running(u, r2) => Running(u, r) /\ Extended(r, it, r2)
<1>1. Append(r.items, it) \in Seq(Item) BY DEF IsRun
<1>2. CASE r.unit = u BY <1>1, <1>2 DEF IsRun, Touched, Notes, Extended, Running
<1>3. CASE r.unit # u BY <1>3 DEF Touched, Notes, Running
<1> QED BY <1>2, <1>3

\* A run that begins.
LEMMA Begun ==
  ASSUME NEW u, NEW start, NEW mem, NEW r2, Begins(u, start, mem, r2)
  PROVE  IsRun(r2) /\ r2.unit = u /\ r2.start = start /\ r2.before = mem /\ r2.items = <<>>
BY DEF IsRun, Begins

\* A run that breaks is no longer one to speak of.
LEMMA Broke ==
  ASSUME NEW r, NEW u, NEW r2, IsRun(r), Breaks(u, r, r2)
  PROVE  IsRun(r2) /\ Touched(u, r, r2) /\ ~Running(u, r2)
<1>1. CASE r.unit = u BY <1>1 DEF IsRun, Touched, Breaks, Running
<1>2. CASE r.unit # u BY <1>2 DEF Touched, Breaks, Running
<1> QED BY <1>1, <1>2

-----------------------------------------------------------------------------
(* What the units share.                                                   *)

\* What every invariant needs of the others.
Common == program \in Programs /\ accesses \in Nat /\ IsRun(run)

IsMemory(mem) == \A a \in Nat : Byte(mem, a) \in Uint8

\* What an earlier program left are bytes.
LEMMA UntouchedIs == IsMemory(Untouched)
<1> SUFFICES ASSUME NEW a \in Nat PROVE Byte(Untouched, a) \in Uint8 BY DEF IsMemory
<1>1. DOMAIN Untouched = {} BY DEF Untouched
<1>2. Left(a) \in Int /\ 0 <= Left(a) /\ Left(a) < 256 BY DEF Left
<1> QED BY <1>1, <1>2, Bytes DEF Byte

\* A memory stays one when a byte is written.
LEMMA SetIs ==
  ASSUME NEW mem, NEW a, NEW v, IsMemory(mem), v \in Uint8 PROVE IsMemory(Set(mem, a, v))
BY SetByte DEF IsMemory

Values(items) == [i \in Nat |-> items[i].val]
AllAre(items, op) == \A i \in DOMAIN items : items[i].op = op

\* A run with one more item.
LEMMA Longer ==
  ASSUME NEW items \in Seq(Item), NEW it \in Item
  PROVE  LET more == Append(items, it)  n == Len(items)
         IN  /\ n \in Nat /\ Len(more) = n + 1 /\ more \in Seq(Item)
             /\ more[n + 1] = it /\ \A i \in 1..n : more[i] = items[i] /\ items[i] \in Item
             /\ Values(more)[n + 1] = it.val /\ \A i \in 1..n : Values(more)[i] = Values(items)[i]
             /\ \A op : AllAre(more, op) <=> AllAre(items, op) /\ it.op = op
<1> DEFINE more == Append(items, it)
           n == Len(items)
<1>1. /\ n \in Nat /\ Len(more) = n + 1 /\ more \in Seq(Item) /\ more[n + 1] = it
      /\ \A i \in 1..n : more[i] = items[i] /\ items[i] \in Item
      /\ DOMAIN items = 1..n /\ DOMAIN more = 1..n+1
  OBVIOUS
<1> HIDE DEF more, n
<1>2. Values(more)[n + 1] = it.val /\ \A i \in 1..n : Values(more)[i] = Values(items)[i] BY <1>1 DEF Values
<1>3. \A op : AllAre(more, op) <=> AllAre(items, op) /\ it.op = op
  <2>1. \A i \in 1..n+1 : i \in 1..n \/ i = n + 1 BY <1>1
  <2>2. 1..n \subseteq 1..n+1 /\ n + 1 \in 1..n+1 BY <1>1
  <2> QED BY <1>1, <2>1, <2>2 DEF AllAre
<1> QED BY <1>1, <1>2, <1>3 DEF more, n

Flag(b) == IF b = TRUE THEN 1 ELSE 0

-----------------------------------------------------------------------------
(* WRAM.                                                                   *)

WramPlaces(s) == [i \in Nat |-> (s + i - 1) % 131072]
WramLanded(items) == {i \in 1..Len(items) : items[i].op = "w"}

WramRun(r, mem, addr) ==
  /\ r.start \in Below(131072)
  /\ addr = (r.start + Len(r.items)) % 131072
  /\ Holds(r.before, mem, WramLanded(r.items), WramPlaces(r.start), Values(r.items))

\* A new address begins an empty block.
LEMMA WramBegins ==
  ASSUME NEW a, NEW mem, NEW r, a \in Below(131072), r.start = a, r.before = mem, r.items = <<>>
  PROVE  WramRun(r, mem, a)
<1>1. Len(<<>>) = 0 OBVIOUS
<1>2. WramLanded(<<>>) = {} BY <1>1 DEF WramLanded
<1>3. a \in Int /\ 0 <= a /\ a < 131072 BY Ranges
<1>4. a = (a + 0) % 131072 BY <1>3
<1>5. Holds(mem, mem, {}, WramPlaces(a), Values(<<>>)) BY HoldsNone
<1>6. Len(r.items) = 0 /\ WramLanded(r.items) = {} BY <1>1, <1>2
<1>7. a = (a + Len(r.items)) % 131072 BY <1>4, <1>6
<1>8. Holds(r.before, mem, WramLanded(r.items), WramPlaces(r.start), Values(r.items)) BY <1>5, <1>6
<1> QED BY <1>7, <1>8 DEF WramRun

\* A byte written lands where the address was; a byte read only moves it.
LEMMA WramLonger ==
  ASSUME NEW r, NEW r2, NEW mem, NEW addr, NEW it, WramRun(r, mem, addr), IsRun(r), it \in Item, Extended(r, it, r2)
  PROVE  WramRun(r2, IF it.op = "w" THEN Set(mem, addr, it.val) ELSE mem, (addr + 1) % 131072)
<1> DEFINE n == Len(r.items)
           mem2 == IF it.op = "w" THEN Set(mem, addr, it.val) ELSE mem
           v == Values(r.items)
           v2 == Values(r2.items)
           L == WramLanded(r.items)
           places == WramPlaces(r.start)
<1>0. r.items \in Seq(Item) /\ r2.items = Append(r.items, it) /\ r2.start = r.start /\ r2.before = r.before
  BY DEF IsRun, Extended
<1>1. n \in Nat /\ Len(r2.items) = n + 1 /\ r2.items[n + 1] = it /\ \A i \in 1..n : r2.items[i] = r.items[i]
  BY <1>0, Longer
<1>2. v2[n + 1] = it.val /\ \A i \in 1..n : v2[i] = v[i] BY <1>0, Longer
<1>3. addr = (r.start + n) % 131072 /\ r.start \in Int BY Ranges DEF WramRun
<1>4. Holds(r.before, mem, L, places, v) BY DEF WramRun
<1>5. WramLanded(r2.items) = IF it.op = "w" THEN L \cup {n + 1} ELSE L BY <1>1 DEF WramLanded
<1>6. L \in SUBSET Int /\ \A i \in L : i < n + 1 /\ i \in 1..n BY <1>1 DEF WramLanded
<1>7. places[n + 1] = addr BY <1>1, <1>3 DEF WramPlaces
<1> HIDE DEF n, v, v2, L, places
<1>8. Holds(r.before, mem2, WramLanded(r2.items), places, v2)
  <2>1. CASE it.op = "w"
    <3>1. More(L, n + 1, places, v, places, v2) BY <1>1, <1>2, <1>6 DEF More
    <3>2. Holds(r.before, Set(mem, places[n + 1], v2[n + 1]), L \cup {n + 1}, places, v2)
      BY <1>4, <3>1, HoldsMore
    <3> QED BY <1>2, <1>5, <1>7, <2>1, <3>2
  <2>2. CASE it.op # "w"
    <3>1. \A i \in L : places[i] = places[i] /\ v2[i] = v[i] BY <1>2, <1>6
    <3>2. Holds(r.before, mem, L, places, v2) BY <1>4, <3>1, HoldsSame
    <3> QED BY <1>5, <2>2, <3>2
  <2> QED BY <2>1, <2>2
<1>9. (addr + 1) % 131072 = (r.start + (n + 1)) % 131072
  <2> DEFINE x == r.start + n
  <2>1. x \in Int /\ addr = x % 131072 BY <1>1, <1>3, SMT
  <2>3. r.start + (n + 1) = x + 1
    <3>1. n \in Int /\ r.start \in Int BY <1>1, <1>3, SMT
    <3> QED BY <3>1, SMT
  <2> HIDE DEF x
  <2>2. ((x % 131072) + 1) % 131072 = (x + 1) % 131072 BY <2>1, SMT
  <2> QED BY <2>1, <2>2, <2>3, SMT
<1> HIDE DEF mem2
<1>10. WramRun(r2, mem2, (addr + 1) % 131072) BY <1>0, <1>1, <1>3, <1>8, <1>9 DEF WramRun, v2, places
<1> QED BY <1>10 DEF mem2

WramInv ==
  /\ DOMAIN wram = {"mem", "addr"} /\ wram.addr \in Below(131072) /\ IsMemory(wram.mem)
  /\ Running("wram", run) => WramRun(run, wram.mem, wram.addr)

\* One more access, and what it does to the memory.
LEMMA WramMoves ==
  ASSUME Common, WramInv, NEW it, it \in Item, it.val \in Uint8,
         Notes("wram", it, run, run'), DOMAIN wram' = {"mem", "addr"},
         wram'.mem = IF it.op = "w" THEN Set(wram.mem, wram.addr, it.val) ELSE wram.mem,
         wram'.addr = (wram.addr + 1) % 131072
  PROVE  WramInv' /\ IsRun(run') /\ Touched("wram", run, run')
<1>2. wram'.addr \in Below(131072) BY Ranges, SMT DEF WramInv
<1>3. IsMemory(wram'.mem) BY SetIs, SMT DEF WramInv
<1>4. IsRun(run) BY DEF Common
<1>5. ASSUME Running("wram", run') PROVE WramRun(run', wram'.mem, wram'.addr)
  <2>1. Running("wram", run) /\ Extended(run, it, run') BY <1>4, <1>5, Noted, SMT
  <2>2. WramRun(run, wram.mem, wram.addr) BY <2>1 DEF WramInv
  <2> QED BY <1>4, <2>1, <2>2, WramLonger, SMT
<1>6. IsRun(run') /\ Touched("wram", run, run') BY <1>4, Noted, SMT
<1> QED BY <1>2, <1>3, <1>5, <1>6 DEF WramInv

\* Every access to the WRAM port keeps its invariant.
LEMMA WramStepped ==
  ASSUME Common, WramInv, WramPort PROVE WramInv' /\ IsRun(run') /\ Touched("wram", run, run')
<1>0. DOMAIN wram = {"mem", "addr"} /\ wram.addr \in Int /\ 0 <= wram.addr /\ wram.addr < 131072
  BY Ranges DEF WramInv
<1>1. ASSUME NEW part \in 0..2, NEW v \in Written(WmaddReg[part + 1]), WriteWmadd(part, v)
      PROVE  WramInv' /\ IsRun(run') /\ Touched("wram", run, run')
  <2>1. v \in Int /\ 0 <= v /\ v < 256
    <3>1. WmaddReg[part + 1] # "scanline" BY DEF WmaddReg
    <3> QED BY <3>1, WrittenIs, Bytes DEF Common
  <2>2. DOMAIN wram' = {"mem", "addr"} /\ wram'.mem = wram.mem BY <1>0, <1>1 DEF WriteWmadd
  <2>3. wram'.addr \in Below(131072)
    <3>1. CASE part = 0
      <4>1. wram'.addr = (wram.addr - (wram.addr % 256)) + v BY <1>0, <1>1, <3>1 DEF WriteWmadd
      <4>2. wram.addr - (wram.addr % 256) \in Int /\ 0 <= wram.addr - (wram.addr % 256)
            /\ wram.addr - (wram.addr % 256) <= 130816
        BY <1>0
      <4> QED BY <2>1, <4>1, <4>2, Ranges
    <3>2. CASE part = 1
      <4>1. wram'.addr = 65536 * (wram.addr \div 65536) + 256 * v + (wram.addr % 256)
        BY <1>0, <1>1, <3>2 DEF WriteWmadd
      <4>2. wram.addr \div 65536 \in {0, 1} /\ wram.addr % 256 \in 0..255 BY <1>0
      <4> QED BY <2>1, <4>1, <4>2, Ranges
    <3>3. CASE part = 2
      <4>1. wram'.addr = 65536 * (v % 2) + (wram.addr % 65536) BY <1>0, <1>1, <3>3 DEF WriteWmadd
      <4>2. v % 2 \in {0, 1} /\ wram.addr % 65536 \in Int /\ 0 <= wram.addr % 65536 /\ wram.addr % 65536 < 65536
        BY <1>0, <2>1
      <4> QED BY <4>1, <4>2, Ranges
    <3> QED BY <3>1, <3>2, <3>3
  <2>4. Begins("wram", wram'.addr, wram.mem, run') BY <1>1 DEF WriteWmadd, Begin, Begins
  <2>5. run'.start = wram'.addr /\ run'.before = wram.mem /\ run'.items = <<>> /\ IsRun(run') /\ run'.unit = "wram"
    BY <2>4, Begun, SMT
  <2>6. WramRun(run', wram'.mem, wram'.addr) BY <2>2, <2>3, <2>5, WramBegins
  <2>7. Touched("wram", run, run') BY <2>5 DEF Touched
  <2>8. IsMemory(wram'.mem) BY <2>2 DEF WramInv
  <2> QED BY <2>2, <2>3, <2>5, <2>6, <2>7, <2>8 DEF WramInv
<1>2. CASE WriteWmdata
  <2> DEFINE val == Datum(accesses)
             it == [op |-> "w", half |-> 0, val |-> val]
  <2>1. val \in Int /\ val \in Uint8 BY <1>2, DataAre, Bytes DEF WriteWmdata, Access, Common
  <2>2. DOMAIN wram' = {"mem", "addr"} /\ wram'.mem = Set(wram.mem, wram.addr, val)
        /\ wram'.addr = (wram.addr + 1) % 131072
    BY <1>0, <1>2, SMT DEF WriteWmdata
  <2>3. Notes("wram", it, run, run') BY <1>2 DEF WriteWmdata, Note, Notes
  <2>4. it \in Item /\ it.op = "w" /\ it.val = val BY <2>1 DEF Item
  <2> HIDE DEF val, it
  <2> QED BY <2>1, <2>2, <2>3, <2>4, WramMoves, SMT
<1>3. CASE ReadWmdata
  <2> DEFINE val == Byte(wram.mem, wram.addr)
             it == [op |-> "r", half |-> 0, val |-> val]
  <2>1. DOMAIN wram' = {"mem", "addr"} /\ wram'.mem = wram.mem /\ wram'.addr = (wram.addr + 1) % 131072
    BY <1>0, <1>3, SMT DEF ReadWmdata
  <2>2. val \in Int /\ val \in Uint8 BY <1>0, Bytes DEF WramInv, IsMemory
  <2>3. Notes("wram", it, run, run') BY <1>3 DEF ReadWmdata, Note, Notes
  <2>4. it \in Item /\ it.op = "r" /\ it.val = val BY <2>2 DEF Item
  <2> HIDE DEF val, it
  <2> QED BY <2>1, <2>2, <2>3, <2>4, WramMoves, SMT
<1> QED BY <1>1, <1>2, <1>3 DEF WramPort

-----------------------------------------------------------------------------
(* OAM.                                                                    *)

OamPos(s, n) == (s + n) % 1024
\* A byte waits for the other half of its pair.
OamWaiting(s, n) == IF OamPos(s, n) < 512 /\ OamPos(s, n) % 2 = 1 THEN 1 ELSE 0

OamPlaces(s) ==
  [i \in Nat |-> IF OamPos(s, i - 1) >= 512 THEN HighTable(OamPos(s, i - 1)) ELSE OamPos(s, i - 1)]

OamWrites(r, mem, internal, latch, waiting) ==
  LET n == Len(r.items)
      w == OamWaiting(r.start, n)
  IN  /\ waiting = w /\ internal = OamPos(r.start, n) - w
      /\ w = 1 => latch = Values(r.items)[n]
      /\ Holds(r.before, mem, 1..n-w, OamPlaces(r.start), Values(r.items))

OamReads(r, mem, internal) ==
  LET n == Len(r.items)
  IN  /\ internal = OamPos(r.start, n)
      /\ \A i \in 1..n : r.items[i].val = IF OamPos(r.start, i - 1) < 544 THEN Byte(mem, OamPos(r.start, i - 1)) ELSE 0

\* Addresses that are written are even.
OamStart(s) == s \in Below(1024) /\ s % 2 = 0

OamRun(r, mem, internal, latch, waiting) ==
  /\ OamStart(r.start)
  /\ AllAre(r.items, "w") => OamWrites(r, mem, internal, latch, waiting)
  /\ AllAre(r.items, "r") => OamReads(r, mem, internal)

\* How the position moves with an access.
OamStep(s, n) ==
  LET p == OamPos(s, n)
      w == OamWaiting(s, n)
  IN  /\ p \in Int /\ 0 <= p /\ p < 1024 /\ w \in {0, 1} /\ p % 2 = n % 2
      /\ OamPos(s, n + 1) = (p + 1) % 1024
      /\ w = 1 => p < 512 /\ n > 0 /\ p % 2 = 1 /\ n % 2 = 1 /\ OamPos(s, n - 1) = p - 1 /\ p >= 1
      /\ w = 0 /\ p < 512 => p % 2 = 0 /\ OamWaiting(s, n + 1) = 1 /\ OamPos(s, n + 1) = p + 1
      /\ w = 1 => OamWaiting(s, n + 1) = 0 /\ OamPos(s, n + 1) = p + 1
      /\ p >= 512 => OamWaiting(s, n + 1) = 0 /\ w = 0

\* The arithmetic of the OAM position: its parity is that of the accesses, across the wrap too.
LEMMA OamSteps == ASSUME NEW s, NEW n, OamStart(s), n \in Nat PROVE OamStep(s, n)
<1>1. s \in Int /\ 0 <= s /\ s % 2 = 0 BY Ranges DEF OamStart
<1> DEFINE x == s + n
           p == x % 1024
<1>2. x \in Int /\ x >= 0 /\ x % 2 = n % 2 BY <1>1, SMT
<1>3. s + (n + 1) = x + 1 /\ s + (n - 1) = x - 1 /\ s + n = x BY <1>1, SMT
<1>4. p \in Int /\ 0 <= p /\ p < 1024 /\ p % 2 = x % 2 BY <1>2, SMT
<1>5. (x + 1) % 1024 = (p + 1) % 1024 BY <1>2, SMT
<1>6. p >= 1 => (x - 1) % 1024 = p - 1 BY <1>2, SMT
<1>7. p < 1023 => (p + 1) % 1024 = p + 1 BY <1>4, SMT
<1>8. p = 1023 => (p + 1) % 1024 = 0 BY <1>4, SMT
<1>9. (p + 1) % 2 = 1 - (p % 2) /\ p % 2 \in {0, 1} BY <1>4, SMT
<1>10. n % 2 = 1 => n > 0 BY SMT
<1>11. p % 2 = 1 => p >= 1 BY <1>4, SMT
<1>12. p < 512 /\ p % 2 = 0 => p < 511 BY <1>4, SMT
<1>13. OamPos(s, n) = p /\ OamPos(s, n + 1) = (p + 1) % 1024 /\ (p >= 1 => OamPos(s, n - 1) = p - 1)
  BY <1>3, <1>5, <1>6 DEF OamPos
<1> HIDE DEF p, x
<1> QED BY <1>2, <1>4, <1>7, <1>8, <1>9, <1>10, <1>11, <1>12, <1>13, SMT DEF OamWaiting, OamStep

\* A new address begins an empty block, with no byte waiting.
LEMMA OamBegins ==
  ASSUME NEW r, NEW mem, NEW latch, OamStart(r.start), r.before = mem, r.items = <<>>
  PROVE  OamRun(r, mem, r.start, latch, 0)
<1>1. Len(r.items) = 0 OBVIOUS
<1>2. r.start \in Int /\ 0 <= r.start /\ r.start < 1024 /\ r.start % 2 = 0 BY Ranges DEF OamStart
<1>3. OamPos(r.start, 0) = r.start BY <1>2 DEF OamPos
<1>4. OamWaiting(r.start, 0) = 0 BY <1>2, <1>3 DEF OamWaiting
<1>5. 1..Len(r.items)-OamWaiting(r.start, Len(r.items)) = {} BY <1>1, <1>4
<1>6. Holds(r.before, mem, {}, OamPlaces(r.start), Values(r.items)) BY HoldsNone
<1>7. OamWrites(r, mem, r.start, latch, 0)
  <2>1. Holds(r.before, mem, 1..Len(r.items)-OamWaiting(r.start, Len(r.items)), OamPlaces(r.start), Values(r.items))
    BY <1>5, <1>6
  <2>2. OamWaiting(r.start, Len(r.items)) = 0 /\ OamPos(r.start, Len(r.items)) = r.start BY <1>1, <1>3, <1>4
  <2> DEFINE n == Len(r.items)
             w == OamWaiting(r.start, n)
  <2>3. w = 0 /\ r.start = OamPos(r.start, n) - w BY <1>2, <2>2
  <2>4. Holds(r.before, mem, 1..n-w, OamPlaces(r.start), Values(r.items)) BY <2>1
  <2>5. OamWrites(r, mem, r.start, latch, 0) <=>
          /\ 0 = w /\ r.start = OamPos(r.start, n) - w /\ (w = 1 => latch = Values(r.items)[n])
          /\ Holds(r.before, mem, 1..n-w, OamPlaces(r.start), Values(r.items))
    BY DEF OamWrites
  <2> HIDE DEF n, w
  <2> QED BY <2>3, <2>4, <2>5
<1>8. OamReads(r, mem, r.start) BY <1>1, <1>3 DEF OamReads
<1> QED BY <1>7, <1>8 DEF OamRun

\* One more byte read.
LEMMA OamReadMore ==
  ASSUME NEW r, NEW r2, NEW it, NEW mem, NEW internal,
         OamReads(r, mem, internal), OamStart(r.start), IsRun(r), it \in Item, Extended(r, it, r2),
         it.val = IF internal < 544 THEN Byte(mem, internal) ELSE 0
  PROVE  OamReads(r2, mem, (internal + 1) % 1024)
<1> DEFINE n == Len(r.items)
<1>1. r.items \in Seq(Item) /\ r2.items = Append(r.items, it) /\ r2.start = r.start BY DEF IsRun, Extended
<1>2. n \in Nat /\ Len(r2.items) = n + 1 /\ r2.items[n + 1] = it /\ \A i \in 1..n : r2.items[i] = r.items[i]
  BY <1>1, Longer
<1>3. internal = OamPos(r.start, n)
      /\ \A i \in 1..n : r.items[i].val = IF OamPos(r.start, i - 1) < 544 THEN Byte(mem, OamPos(r.start, i - 1)) ELSE 0
  BY DEF OamReads
<1> HIDE DEF n
<1>4. OamPos(r.start, n + 1) = (internal + 1) % 1024 
  <2>1. OamStep(r.start, n) BY <1>2, OamSteps, Zenon
  <2> QED BY <1>3, <2>1 DEF OamStep
<1>5. ASSUME NEW i \in 1..n+1
      PROVE  r2.items[i].val = IF OamPos(r.start, i - 1) < 544 THEN Byte(mem, OamPos(r.start, i - 1)) ELSE 0
  <2>1. CASE i \in 1..n
    <3>1. r2.items[i] = r.items[i] BY <1>2, <2>1
    <3>2. r.items[i].val = IF OamPos(r.start, i - 1) < 544 THEN Byte(mem, OamPos(r.start, i - 1)) ELSE 0 BY <1>3, <2>1
    <3> QED BY <3>1, <3>2
  <2>2. CASE i = n + 1
    <3>1. i - 1 = n BY <1>2, <2>2
    <3> QED BY <1>2, <1>3, <2>2, <3>1
  <2> QED BY <1>2, <2>1, <2>2
<1> QED BY <1>1, <1>2, <1>4, <1>5 DEF OamReads

\* The three ways a write may go.
LEMMA OamWriteMore ==
  ASSUME NEW r, NEW r2, NEW it, NEW mem, NEW internal, NEW latch, NEW ww,
         OamWrites(r, mem, internal, latch, ww), OamStart(r.start), IsRun(r), it \in Item, Extended(r, it, r2)
  PROVE  /\ internal >= 512 => ww = 0 /\
              OamWrites(r2, Set(mem, HighTable(internal), it.val), (internal + 1) % 1024, latch, 0)
         /\ internal < 512 /\ ww = 0 => OamWrites(r2, mem, internal, it.val, 1)
         /\ internal < 512 /\ ww = 1 =>
              OamWrites(r2, Set(Set(mem, Even(internal), latch), Even(internal) + 1, it.val),
                        (internal + 2) % 1024, latch, 0)
<1> DEFINE n == Len(r.items)
           s == r.start
           p == OamPos(s, n)
           w == OamWaiting(s, n)
           v == Values(r.items)
           v2 == Values(r2.items)
           places == OamPlaces(s)
<1>1. /\ r.items \in Seq(Item) /\ r2.items = Append(r.items, it) /\ r2.start = r.start
      /\ r2.before = r.before
  BY DEF IsRun, Extended
<1>2. n \in Nat /\ Len(r2.items) = n + 1 /\ v2[n + 1] = it.val /\ \A i \in 1..n : v2[i] = v[i]
  BY <1>1, Longer
<1>3. /\ ww = w /\ internal = p - w /\ (w = 1 => latch = v[n])
      /\ Holds(r.before, mem, 1..n-w, places, v)
  BY DEF OamWrites
<1>4. places[n + 1] = IF p >= 512 THEN HighTable(p) ELSE p
  <2>1. n + 1 \in Nat /\ (n + 1) - 1 = n BY <1>2
  <2> QED BY <2>1 DEF OamPlaces
<1>5. n > 0 => places[n] = IF OamPos(s, n - 1) >= 512 THEN HighTable(OamPos(s, n - 1)) ELSE OamPos(s, n - 1)
  BY <1>2 DEF OamPlaces
<1>6. OamStep(s, n) BY <1>2, OamSteps, Zenon
<1>11. internal \in Int BY <1>3, <1>6 DEF OamStep
<1>7. Values(r2.items) = v2 /\ OamPlaces(r2.start) = places BY <1>1
<1> HIDE DEF n, v, v2, places
<1>8. CASE internal >= 512
  <2>1. p >= 512 /\ w = 0 /\ internal = p /\ OamWaiting(s, n + 1) = 0 BY <1>3, <1>6, <1>8 DEF OamStep
  <2>2. 1..n-w = 1..n /\ 1..(n+1)-0 = (1..n) \cup {n + 1} BY <1>2, <2>1
  <2>3. More(1..n, n + 1, places, v, places, v2) BY <1>2 DEF More
  <2>4. Holds(r.before, Set(mem, places[n + 1], v2[n + 1]), (1..n) \cup {n + 1}, places, v2)
    BY <1>3, <2>2, <2>3, HoldsMore
  <2>5. places[n + 1] = HighTable(internal) BY <1>4, <2>1
  <2>6. (internal + 1) % 1024 = OamPos(s, n + 1) - 0 BY <1>3, <1>6, <2>1 DEF OamStep
  <2>7. OamWrites(r2, Set(mem, HighTable(internal), it.val), (internal + 1) % 1024, latch, 0)
    <3>1. OamWaiting(r2.start, Len(r2.items)) = 0 /\ OamPos(r2.start, Len(r2.items)) = OamPos(s, n + 1)
      BY <1>1, <1>2, <2>1
    <3>2. 1..Len(r2.items)-OamWaiting(r2.start, Len(r2.items)) = 1..(n+1)-0 BY <1>2, <3>1
    <3>3. Holds(r2.before, Set(mem, HighTable(internal), it.val), 1..Len(r2.items)-OamWaiting(r2.start, Len(r2.items)),
                OamPlaces(r2.start), Values(r2.items))
      BY <1>1, <1>2, <1>7, <2>2, <2>4, <2>5, <3>2
    <3> QED BY <2>1, <2>6, <3>1, <3>3 DEF OamWrites
  <2>8. ww = 0 BY <1>3, <2>1
  <2> QED BY <1>8, <1>11, <2>7, <2>8
<1>9. CASE internal < 512 /\ ww = 0
  <2>1. p < 512 /\ w = 0 /\ internal = p /\ OamWaiting(s, n + 1) = 1 /\ OamPos(s, n + 1) = p + 1
    BY <1>3, <1>6, <1>9 DEF OamStep
  <2>2. 1..n-w = 1..n /\ 1..(n+1)-1 = 1..n BY <1>2, <2>1
  <2>3. Holds(r.before, mem, 1..n, places, v2) BY <1>2, <1>3, <2>2, HoldsSame
  <2>4. internal = OamPos(s, n + 1) - 1 BY <1>6, <2>1 DEF OamStep
  <2>5. OamWrites(r2, mem, internal, it.val, 1)
    BY <1>1, <1>2, <1>7, <2>1, <2>2, <2>3, <2>4 DEF OamWrites
  <2> QED BY <1>9, <1>11, <2>5
<1>10. CASE internal < 512 /\ ww = 1
  <2>1. /\ p < 512 /\ w = 1 /\ internal = p - 1 /\ OamWaiting(s, n + 1) = 0 /\ OamPos(s, n + 1) = p + 1
        /\ n > 0 /\ OamPos(s, n - 1) = p - 1 /\ p \in Int /\ p >= 1 /\ p % 2 = 1
    BY <1>3, <1>6, <1>10 DEF OamStep
  <2>2. 1..n-w = 1..n-1 /\ 1..(n+1)-0 = (1..n-1 \cup {n}) \cup {n + 1}
    <3>1. 1..n-w = 1..n-1 BY <2>1
    <3>2. n \in Nat /\ n > 0 BY <1>2, <2>1
    <3>3. 1..(n+1)-0 = (1..n-1 \cup {n}) \cup {n + 1} BY <3>2
    <3> QED BY <3>1, <3>3
  <2>3. places[n] = internal /\ places[n + 1] = internal + 1 /\ Even(internal) = internal /\ latch = v2[n]
    <3>1. places[n] = p - 1 /\ places[n + 1] = p BY <1>4, <1>5, <2>1
    <3>2. Even(internal) = internal BY <2>1 DEF Even
    <3>3. n \in 1..n BY <1>2, <2>1
    <3>4. latch = v2[n] BY <1>2, <1>3, <2>1, <3>3
    <3> QED BY <2>1, <3>1, <3>2, <3>4
  <2>4. More(1..n-1, n, places, v, places, v2) BY <1>2 DEF More
  <2>5. Holds(r.before, Set(mem, places[n], v2[n]), (1..n-1) \cup {n}, places, v2)
    BY <1>3, <2>2, <2>4, HoldsMore
  <2>6. More((1..n-1) \cup {n}, n + 1, places, v2, places, v2) BY <1>2, <2>1 DEF More
  <2>7. Holds(r.before, Set(Set(mem, places[n], v2[n]), places[n + 1], v2[n + 1]), ((1..n-1) \cup {n}) \cup {n + 1}, places, v2)
    BY <2>5, <2>6, HoldsMore
  <2>8. (internal + 2) % 1024 = OamPos(s, n + 1) - 0
    <3>1. internal + 2 = p + 1 /\ p + 1 \in 0..1023 BY <2>1
    <3> QED BY <2>1, <3>1
  <2>9. OamWrites(r2, Set(Set(mem, Even(internal), latch), Even(internal) + 1, it.val), (internal + 2) % 1024, latch, 0)
    <3>1. OamWaiting(r2.start, Len(r2.items)) = 0 /\ OamPos(r2.start, Len(r2.items)) = OamPos(s, n + 1)
      BY <1>1, <1>2, <2>1
    <3>2. 1..Len(r2.items)-OamWaiting(r2.start, Len(r2.items)) = 1..(n+1)-0 BY <1>2, <3>1
    <3>3. Holds(r2.before, Set(Set(mem, Even(internal), latch), Even(internal) + 1, it.val), 1..Len(r2.items)-OamWaiting(r2.start, Len(r2.items)),
                OamPlaces(r2.start), Values(r2.items))
      BY <1>1, <1>2, <1>7, <2>2, <2>3, <2>7, <3>2
    <3> QED BY <2>1, <2>8, <3>1, <3>3 DEF OamWrites
  <2> QED BY <1>10, <1>11, <2>9
<1> QED BY <1>8, <1>9, <1>10, <1>11


OamInv ==
  /\ DOMAIN oam = {"mem", "addr", "internal", "latch", "flipflop"}
  /\ oam.addr \in Below(1024) /\ oam.internal \in Below(1024) /\ oam.latch \in Uint8
  /\ oam.flipflop \in BOOLEAN /\ IsMemory(oam.mem)
  /\ Running("oam", run) => OamRun(run, oam.mem, oam.internal, oam.latch, Flag(oam.flipflop))

\* The address registers.
LEMMA OamAddressed ==
  ASSUME Common, OamInv, NEW a, OamStart(a), oam' = Addressed(a), Begins("oam", oam'.internal, oam.mem, run')
  PROVE  OamInv' /\ IsRun(run') /\ Touched("oam", run, run')
<1>1. /\ DOMAIN oam' = {"mem", "addr", "internal", "latch", "flipflop"} /\ oam'.mem = oam.mem /\ oam'.addr = a
      /\ oam'.internal = a /\ oam'.latch = oam.latch /\ oam'.flipflop = FALSE
  BY DEF OamInv, Addressed
<1>2. Begins("oam", a, oam.mem, run') BY <1>1
<1>3. run'.start = a /\ run'.before = oam.mem /\ run'.items = <<>> /\ IsRun(run') /\ run'.unit = "oam"
  BY <1>2, Begun, SMT
<1>4. OamRun(run', oam.mem, a, oam.latch, 0) BY <1>3, OamBegins
<1>5. Flag(FALSE) = 0 BY DEF Flag
<1>6. Flag(oam'.flipflop) = 0 BY <1>1, <1>5
<1>7. OamRun(run', oam'.mem, oam'.internal, oam'.latch, Flag(oam'.flipflop)) BY <1>1, <1>4, <1>6
<1>8. a \in Below(1024) BY DEF OamStart
<1>9. oam.latch \in Uint8 /\ IsMemory(oam.mem) BY DEF OamInv
<1>11. oam'.addr \in Below(1024) /\ oam'.internal \in Below(1024) /\ oam'.latch \in Uint8 /\ IsMemory(oam'.mem)
  BY <1>1, <1>8, <1>9
<1>12. oam'.flipflop \in BOOLEAN BY <1>1
<1>10. OamInv' BY <1>1, <1>7, <1>11, <1>12 DEF OamInv
<1> QED BY <1>3, <1>10 DEF Touched

\* OAMDATA: a byte for the high table, the first of a pair or the second.
LEMMA OamWritten ==
  ASSUME Common, OamInv, WriteOamdata
  PROVE  OamInv' /\ IsRun(run') /\ Touched("oam", run, run')
<1> DEFINE val == Datum(accesses)
           it == [op |-> "w", half |-> 0, val |-> val]
           idx == Even(oam.internal)
<1>1. val \in Uint8 /\ val \in Int BY DataAre, Bytes DEF WriteOamdata, Access, Common
<1>2. it \in Item /\ it.op = "w" /\ it.val = val BY <1>1 DEF Item
<1>3. Notes("oam", it, run, run') BY DEF WriteOamdata, Note, Notes
<1>4. IsRun(run) BY DEF Common
<1>5. oam.internal \in Int /\ 0 <= oam.internal /\ oam.internal < 1024 BY Ranges DEF OamInv
<1>6. DOMAIN oam = {"mem", "addr", "internal", "latch", "flipflop"} /\ oam.flipflop \in BOOLEAN
      /\ IsMemory(oam.mem) /\ oam.addr \in Below(1024) /\ oam.latch \in Uint8
  BY DEF OamInv
<1>7. oam' = IF oam.internal >= 512
             THEN [oam EXCEPT !.mem = Set(@, HighTable(oam.internal), val), !.internal = (@ + 1) % 1024]
             ELSE IF ~oam.flipflop
             THEN [oam EXCEPT !.latch = val, !.flipflop = TRUE]
             ELSE [oam EXCEPT !.mem = Set(Set(@, idx, oam.latch), idx + 1, val),
                              !.internal = (@ + 2) % 1024, !.flipflop = FALSE]
  BY DEF WriteOamdata
<1> HIDE DEF val, it, idx
<1>8. IsRun(run') /\ Touched("oam", run, run') BY <1>2, <1>3, <1>4, Noted, SMT
<1>9. ASSUME Running("oam", run')
      PROVE  /\ Extended(run, it, run') /\ OamStart(run.start) /\ OamStart(run'.start)
             /\ ~AllAre(run'.items, "r")
             /\ AllAre(run'.items, "w") => OamWrites(run, oam.mem, oam.internal, oam.latch, Flag(oam.flipflop))
  <2>1. Running("oam", run) /\ Extended(run, it, run') BY <1>2, <1>3, <1>4, <1>9, Noted, SMT
  <2>2. run.items \in Seq(Item) /\ run'.items = Append(run.items, it) /\ run'.start = run.start
    BY <1>4, <2>1 DEF IsRun, Extended
  <2>3. AllAre(run'.items, "w") => AllAre(run.items, "w") BY <1>2, <2>2, Longer
  <2>4. ~AllAre(run'.items, "r") BY <1>2, <2>2, Longer
  <2>5. OamRun(run, oam.mem, oam.internal, oam.latch, Flag(oam.flipflop)) BY <2>1 DEF OamInv
  <2> QED BY <2>1, <2>2, <2>3, <2>4, <2>5 DEF OamRun
<1>17. /\ oam.addr \in Below(1024) /\ oam.internal \in Below(1024) /\ oam.latch \in Uint8
       /\ oam.flipflop \in BOOLEAN
  BY DEF OamInv
<1>10. Flag(FALSE) = 0 /\ Flag(TRUE) = 1 BY DEF Flag
<1>11. Even(oam.internal) = idx BY DEF idx
<1>12. CASE oam.internal >= 512
  <2>1. /\ DOMAIN oam' = {"mem", "addr", "internal", "latch", "flipflop"}
        /\ oam'.mem = Set(oam.mem, HighTable(oam.internal), val) /\ oam'.internal = (oam.internal + 1) % 1024
        /\ oam'.addr = oam.addr /\ oam'.latch = oam.latch /\ oam'.flipflop = oam.flipflop
    BY <1>6, <1>7, <1>12
  <2>2. oam'.internal \in Below(1024) BY <1>5, <2>1, Ranges
  <2>3. IsMemory(oam'.mem) BY <1>1, <1>6, <2>1, SetIs
  <2>4. ASSUME Running("oam", run')
        PROVE  OamRun(run', oam'.mem, oam'.internal, oam'.latch, Flag(oam'.flipflop))
    <3>1. AllAre(run'.items, "w") => Flag(oam.flipflop) = 0 /\ OamWrites(run', oam'.mem, oam'.internal, oam.latch, 0)
      BY <1>2, <1>4, <1>9, <1>12, <2>1, <2>4, OamWriteMore
    <3> QED BY <1>9, <2>1, <2>4, <3>1 DEF OamRun
  <2>5. oam'.addr \in Below(1024) /\ oam'.latch \in Uint8 BY <1>17, <2>1
  <2>8. oam'.flipflop \in BOOLEAN BY <1>17, <2>1
  <2>6. DOMAIN oam' = {"mem", "addr", "internal", "latch", "flipflop"} BY <2>1
  <2>7. OamInv' BY <2>2, <2>3, <2>4, <2>5, <2>6, <2>8 DEF OamInv
  <2> QED BY <1>8, <2>7
<1>13. CASE oam.internal < 512 /\ oam.flipflop = FALSE
  <2>1. /\ DOMAIN oam' = {"mem", "addr", "internal", "latch", "flipflop"}
        /\ oam'.mem = oam.mem /\ oam'.internal = oam.internal
        /\ oam'.addr = oam.addr /\ oam'.latch = val /\ oam'.flipflop = TRUE
    BY <1>5, <1>6, <1>7, <1>13
  <2>2. ASSUME Running("oam", run')
        PROVE  OamRun(run', oam'.mem, oam'.internal, oam'.latch, Flag(oam'.flipflop))
    <3>1. AllAre(run'.items, "w") => OamWrites(run', oam.mem, oam.internal, val, 1)
      <4>1. Flag(oam.flipflop) = 0 BY <1>10, <1>13
      <4> QED BY <1>2, <1>4, <1>9, <1>13, <2>2, <4>1, OamWriteMore
    <3>2. Flag(oam'.flipflop) = 1 /\ oam'.latch = val /\ oam'.mem = oam.mem /\ oam'.internal = oam.internal
      BY <1>10, <2>1
    <3> QED BY <1>9, <2>2, <3>1, <3>2 DEF OamRun
  <2>3. oam'.addr \in Below(1024) /\ oam'.internal \in Below(1024) /\ oam'.latch \in Uint8 BY <1>1, <1>17, <2>1
  <2>6. IsMemory(oam'.mem) BY <1>6, <2>1
  <2>7. oam'.flipflop \in BOOLEAN BY <2>1, Zenon
  <2>4. DOMAIN oam' = {"mem", "addr", "internal", "latch", "flipflop"} BY <2>1
  <2>5. OamInv' BY <2>2, <2>3, <2>4, <2>6, <2>7 DEF OamInv
  <2> QED BY <1>8, <2>5
<1>14. CASE oam.internal < 512 /\ oam.flipflop = TRUE
  <2>1. /\ DOMAIN oam' = {"mem", "addr", "internal", "latch", "flipflop"}
        /\ oam'.mem = Set(Set(oam.mem, idx, oam.latch), idx + 1, val) /\ oam'.internal = (oam.internal + 2) % 1024
        /\ oam'.addr = oam.addr /\ oam'.latch = oam.latch /\ oam'.flipflop = FALSE
    BY <1>5, <1>6, <1>7, <1>14
  <2>2. oam'.internal \in Below(1024) BY <1>5, <2>1, Ranges
  <2>3. IsMemory(oam'.mem) BY <1>1, <1>6, <2>1, SetIs
  <2>4. ASSUME Running("oam", run')
        PROVE  OamRun(run', oam'.mem, oam'.internal, oam'.latch, Flag(oam'.flipflop))
    <3>1. AllAre(run'.items, "w") => OamWrites(run', oam'.mem, oam'.internal, oam.latch, 0)
      <4>1. Flag(oam.flipflop) = 1 BY <1>10, <1>14
      <4> QED BY <1>2, <1>4, <1>9, <1>11, <1>14, <2>1, <2>4, <4>1, OamWriteMore
    <3>2. Flag(oam'.flipflop) = 0 /\ oam'.latch = oam.latch BY <1>10, <2>1
    <3> QED BY <1>9, <2>4, <3>1, <3>2 DEF OamRun
  <2>5. oam'.addr \in Below(1024) /\ oam'.latch \in Uint8 BY <1>17, <2>1
  <2>8. oam'.flipflop \in BOOLEAN BY <2>1, Zenon
  <2>6. DOMAIN oam' = {"mem", "addr", "internal", "latch", "flipflop"} BY <2>1
  <2>7. OamInv' BY <2>2, <2>3, <2>4, <2>5, <2>6, <2>8 DEF OamInv
  <2> QED BY <1>8, <2>7
<1>15. oam.flipflop = TRUE \/ oam.flipflop = FALSE BY <1>6
<1>16. oam.internal >= 512 \/ oam.internal < 512 BY <1>5
<1> QED BY <1>12, <1>13, <1>14, <1>15, <1>16

\* OAMDATAREAD.
LEMMA OamRead ==
  ASSUME Common, OamInv, ReadOamdata
  PROVE  OamInv' /\ IsRun(run') /\ Touched("oam", run, run')
<1> DEFINE val == IF oam.internal < 544 THEN Byte(oam.mem, oam.internal) ELSE 0
           it == [op |-> "r", half |-> 0, val |-> val]
<1>1. oam.internal \in Int /\ 0 <= oam.internal /\ oam.internal < 1024 BY Ranges DEF OamInv
<1>2. val \in Int
  <2>1. Byte(oam.mem, oam.internal) \in Uint8 BY <1>1 DEF OamInv, IsMemory
  <2> QED BY <2>1, Bytes
<1>3. it \in Item /\ it.op = "r" /\ it.val = val BY <1>2 DEF Item
<1>4. Notes("oam", it, run, run') BY DEF ReadOamdata, Note, Notes
<1>5. IsRun(run) BY DEF Common
<1>6. /\ DOMAIN oam' = {"mem", "addr", "internal", "latch", "flipflop"} /\ oam'.mem = oam.mem
      /\ oam'.internal = (oam.internal + 1) % 1024
      /\ oam'.addr = oam.addr /\ oam'.latch = oam.latch /\ oam'.flipflop = oam.flipflop
  BY DEF OamInv, ReadOamdata
<1> HIDE DEF it
<1>7. IsRun(run') /\ Touched("oam", run, run') BY <1>3, <1>4, <1>5, Noted, SMT
<1>8. oam'.internal \in Below(1024) BY <1>1, <1>6, Ranges
<1>9. ASSUME Running("oam", run')
      PROVE  OamRun(run', oam'.mem, oam'.internal, oam'.latch, Flag(oam'.flipflop))
  <2>1. Running("oam", run) /\ Extended(run, it, run') BY <1>3, <1>4, <1>5, <1>9, Noted, SMT
  <2>2. run.items \in Seq(Item) /\ run'.items = Append(run.items, it) /\ run'.start = run.start
    BY <1>5, <2>1 DEF IsRun, Extended
  <2>3. AllAre(run'.items, "r") => AllAre(run.items, "r") BY <1>3, <2>2, Longer
  <2>4. ~AllAre(run'.items, "w") BY <1>3, <2>2, Longer
  <2>5. OamRun(run, oam.mem, oam.internal, oam.latch, Flag(oam.flipflop)) BY <2>1 DEF OamInv
  <2>6. AllAre(run'.items, "r") => OamReads(run', oam.mem, (oam.internal + 1) % 1024)
    BY <1>3, <1>5, <2>1, <2>3, <2>5, OamReadMore DEF OamRun
  <2> QED BY <1>6, <2>2, <2>4, <2>5, <2>6 DEF OamRun
<1> QED BY <1>6, <1>7, <1>8, <1>9 DEF OamInv

\* Every access to OAM keeps its invariant.
LEMMA OamStepped ==
  ASSUME Common, OamInv, OamPort PROVE OamInv' /\ IsRun(run') /\ Touched("oam", run, run')
<1>0. oam.addr \in Int /\ 0 <= oam.addr /\ oam.addr < 1024 BY Ranges DEF OamInv
<1>1. ASSUME NEW v \in Written("OAMADDL"), WriteOamaddl(v)
      PROVE  OamInv' /\ IsRun(run') /\ Touched("oam", run, run')
  <2> DEFINE a == 512 * (oam.addr \div 512) + 2 * v
  <2>1. v \in Int /\ 0 <= v /\ v < 256 BY WrittenIs, Bytes DEF Common
  <2>2. oam.addr \div 512 \in {0, 1} BY <1>0
  <2>3. OamStart(a) BY <2>1, <2>2, Ranges DEF OamStart
  <2>4. oam' = Addressed(a) /\ Begins("oam", oam'.internal, oam.mem, run')
    BY <1>1 DEF WriteOamaddl, Begin, Begins
  <2> HIDE DEF a
  <2> QED BY <2>3, <2>4, OamAddressed
<1>2. ASSUME NEW v \in Written("OAMADDH"), WriteOamaddh(v)
      PROVE  OamInv' /\ IsRun(run') /\ Touched("oam", run, run')
  <2> DEFINE a == Even(oam.addr % 512) + 512 * (v % 2)
  <2>1. v % 2 \in {0, 1}
    <3>1. v \in Int BY WrittenIs, Bytes DEF Common
    <3> QED BY <3>1
  <2>2. oam.addr % 512 \in Int /\ 0 <= oam.addr % 512 /\ oam.addr % 512 < 512 BY <1>0
  <2>3. LET e == Even(oam.addr % 512) IN e \in Int /\ 0 <= e /\ e < 512 /\ e % 2 = 0 BY <2>2 DEF Even
  <2>4. OamStart(a) BY <2>1, <2>3, Ranges DEF OamStart
  <2>5. oam' = Addressed(a) /\ Begins("oam", oam'.internal, oam.mem, run')
    BY <1>2 DEF WriteOamaddh, Begin, Begins
  <2> HIDE DEF a
  <2> QED BY <2>4, <2>5, OamAddressed
<1> QED BY <1>1, <1>2, OamWritten, OamRead DEF OamPort

-----------------------------------------------------------------------------
(* CGRAM.                                                                  *)

CgramAddr(s, n) == (s + (n \div 2)) % 256
CgramPlaces(s)  == [i \in Nat |-> (2 * s + i - 1) % 512]
CgramValues(items) == [i \in Nat |-> IF i % 2 = 0 THEN items[i].val % 128 ELSE items[i].val]

CgramWrites(r, mem, latch) ==
  LET n == Len(r.items)
  IN  /\ n % 2 = 1 => latch = CgramValues(r.items)[n]
      /\ Holds(r.before, mem, 1..n-(n % 2), CgramPlaces(r.start), CgramValues(r.items))

CgramReads(r, mem) == \A i \in 1..Len(r.items) : r.items[i].val = Byte(mem, CgramPlaces(r.start)[i])

CgramRun(r, mem, addr, latch, waiting) ==
  LET n == Len(r.items)
  IN  /\ r.start \in Below(256) /\ waiting = n % 2 /\ addr = CgramAddr(r.start, n)
      /\ AllAre(r.items, "w") => CgramWrites(r, mem, latch)
      /\ AllAre(r.items, "r") => CgramReads(r, mem)

\* How the address moves with an access, and where the access goes.
CgramStep(s, n) ==
  LET a == CgramAddr(s, n)
      w == n % 2
  IN  /\ a \in Int /\ 0 <= a /\ a < 256 /\ w \in {0, 1}
      /\ (n + 1) % 2 = 1 - w
      /\ CgramAddr(s, n + 1) = IF w = 1 THEN (a + 1) % 256 ELSE a
      /\ CgramPlaces(s)[n + 1] = 2 * a + w
      /\ w = 1 => n > 0 /\ CgramPlaces(s)[n] = 2 * a

\* The arithmetic of the CGRAM address: it moves with every second access, across the wrap too.
LEMMA CgramSteps == ASSUME NEW s, NEW n, s \in Below(256), n \in Nat PROVE CgramStep(s, n)
<1>1. s \in Int /\ 0 <= s BY Ranges
<1> DEFINE h == n \div 2
           y == s + h
           a == y % 256
           w == n % 2
<1>2. h \in Int /\ h >= 0 /\ w \in {0, 1} /\ n = 2 * h + w BY SMT
<1>3. y \in Int BY <1>1, <1>2
<1>4. (2 * y) % 512 = 2 * (y % 256) /\ (2 * y + 1) % 512 = 2 * (y % 256) + 1
  <2> HIDE DEF y
  <2> DEFINE q == y \div 256
             m == y % 256
  <2>1. q \in Int /\ m \in Int /\ 0 <= m /\ m < 256 /\ y = 256 * q + m BY <1>3, SMT
  <2> HIDE DEF q, m
  <2>2. (2 * y) % 512 = 2 * m BY <2>1, SMT
  <2>3. (2 * y + 1) % 512 = 2 * m + 1 BY <2>1, SMT
  <2> QED BY <2>2, <2>3 DEF m
<1>5. a \in Int /\ 0 <= a /\ a < 256 /\ (y + 1) % 256 = (a + 1) % 256 BY <1>3, SMT
<1>6. (n + 1) % 2 = 1 - w /\ (n + 1) \div 2 = IF w = 1 THEN h + 1 ELSE h BY <1>2, SMT
<1>7. CgramAddr(s, n) = a BY DEF CgramAddr
<1> HIDE DEF h, w
<1>8. CgramAddr(s, n + 1) = IF w = 1 THEN (a + 1) % 256 ELSE a
  <2>1. CASE w = 1
    <3>1. s + ((n + 1) \div 2) = y + 1 BY <1>1, <1>2, <1>6, <2>1
    <3> QED BY <1>5, <2>1, <3>1 DEF CgramAddr
  <2>2. CASE w = 0
    <3>1. s + ((n + 1) \div 2) = y BY <1>1, <1>2, <1>6, <2>2
    <3> QED BY <2>2, <3>1 DEF CgramAddr
  <2> QED BY <1>2, <2>1, <2>2
<1>9. CgramPlaces(s)[n + 1] = (2 * s + n) % 512
  <2>1. n + 1 \in Nat /\ 2 * s + (n + 1) - 1 = 2 * s + n BY <1>1
  <2> QED BY <2>1 DEF CgramPlaces
<1>10. 2 * s + n = 2 * y + w BY <1>1, <1>2
<1>11. (2 * y + w) % 512 = 2 * a + w
  <2>1. CASE w = 1 BY <1>4, <2>1
  <2>2. CASE w = 0 BY <1>3, <1>4, <2>2
  <2> QED BY <1>2, <2>1, <2>2
<1>12. w = 1 => n > 0 /\ CgramPlaces(s)[n] = 2 * a
  <2> SUFFICES ASSUME w = 1 PROVE n > 0 /\ CgramPlaces(s)[n] = 2 * a OBVIOUS
  <2>1. 2 * s + n - 1 = 2 * y BY <1>1, <1>2
  <2>2. CgramPlaces(s)[n] = (2 * s + n - 1) % 512 BY DEF CgramPlaces
  <2> QED BY <1>2, <1>4, <2>1, <2>2
<1> HIDE DEF y, a
<1>13. CgramPlaces(s)[n + 1] = 2 * a + w BY <1>9, <1>10, <1>11
<1> QED BY <1>2, <1>5, <1>6, <1>7, <1>8, <1>12, <1>13 DEF CgramStep, w

\* A new address begins an empty block, with no byte waiting.
LEMMA CgramBegins ==
  ASSUME NEW r, NEW mem, NEW latch, r.start \in Below(256), r.before = mem, r.items = <<>>
  PROVE  CgramRun(r, mem, r.start, latch, 0)
<1> DEFINE n == Len(r.items)
<1>1. n = 0 OBVIOUS
<1>2. r.start \in Int /\ 0 <= r.start /\ r.start < 256 BY Ranges
<1> HIDE DEF n
<1>3. n % 2 = 0 /\ n \div 2 = 0 BY <1>1
<1>4. CgramAddr(r.start, n) = r.start BY <1>2, <1>3 DEF CgramAddr
<1>5. 1..n-(n % 2) = {} BY <1>1, <1>3
<1>6. Holds(r.before, mem, {}, CgramPlaces(r.start), CgramValues(r.items)) BY HoldsNone
<1>7. CgramWrites(r, mem, latch) BY <1>3, <1>5, <1>6 DEF CgramWrites, n
<1>8. CgramReads(r, mem) BY <1>1 DEF CgramReads, n
<1> QED BY <1>3, <1>4, <1>7, <1>8 DEF CgramRun, n

\* One more byte read.
LEMMA CgramReadMore ==
  ASSUME NEW r, NEW r2, NEW it, NEW mem, NEW addr,
         CgramReads(r, mem), r.start \in Below(256), addr = CgramAddr(r.start, Len(r.items)),
         IsRun(r), it \in Item, Extended(r, it, r2), it.val = Byte(mem, 2 * addr + (Len(r.items) % 2))
  PROVE  CgramReads(r2, mem)
<1> DEFINE n == Len(r.items)
<1>1. r.items \in Seq(Item) /\ r2.items = Append(r.items, it) /\ r2.start = r.start BY DEF IsRun, Extended
<1>2. n \in Nat /\ Len(r2.items) = n + 1 /\ r2.items[n + 1] = it /\ \A i \in 1..n : r2.items[i] = r.items[i]
  BY <1>1, Longer
<1>3. \A i \in 1..n : r.items[i].val = Byte(mem, CgramPlaces(r.start)[i]) BY DEF CgramReads
<1>4. CgramStep(r.start, n) BY <1>2, CgramSteps, Zenon
<1>5. it.val = Byte(mem, CgramPlaces(r.start)[n + 1]) BY <1>4 DEF CgramStep
<1> HIDE DEF n
<1>6. ASSUME NEW i \in 1..n+1 PROVE r2.items[i].val = Byte(mem, CgramPlaces(r.start)[i])
  <2>1. CASE i \in 1..n BY <1>2, <1>3, <2>1
  <2>2. CASE i = n + 1 BY <1>2, <1>5, <2>2
  <2> QED BY <1>2, <2>1, <2>2
<1> QED BY <1>1, <1>2, <1>6 DEF CgramReads

\* What a byte written makes of the memory: it waits, or it completes a colour.
CgramMore(r, r2, mem, addr, latch, val) ==
  /\ Len(r.items) % 2 = 0 => CgramWrites(r2, mem, val)
  /\ Len(r.items) % 2 = 1 => CgramWrites(r2, Set(Set(mem, 2 * addr, latch), 2 * addr + 1, val % 128), latch)

\* The two ways a write may go.
LEMMA CgramWriteMore ==
  ASSUME NEW r, NEW r2, NEW it, NEW mem, NEW addr, NEW latch,
         CgramWrites(r, mem, latch), r.start \in Below(256), addr = CgramAddr(r.start, Len(r.items)),
         IsRun(r), it \in Item, Extended(r, it, r2)
  PROVE  CgramMore(r, r2, mem, addr, latch, it.val)
<1> DEFINE n == Len(r.items)
           v == CgramValues(r.items)
           v2 == CgramValues(r2.items)
           places == CgramPlaces(r.start)
           two == Set(Set(mem, 2 * addr, latch), 2 * addr + 1, it.val % 128)
<1> SUFFICES /\ n % 2 = 0 => CgramWrites(r2, mem, it.val)
             /\ n % 2 = 1 => CgramWrites(r2, two, latch)
  BY DEF CgramMore
<1>1. /\ r.items \in Seq(Item) /\ r2.items = Append(r.items, it) /\ r2.start = r.start
      /\ r2.before = r.before
  BY DEF IsRun, Extended
<1>2. n \in Nat /\ Len(r2.items) = n + 1 /\ r2.items[n + 1] = it /\ \A i \in 1..n : r2.items[i] = r.items[i]
  BY <1>1, Longer
<1>3. CgramStep(r.start, n) BY <1>2, CgramSteps, Zenon
<1>4. n % 2 = 1 => latch = v[n] BY DEF CgramWrites
<1>11. addr = CgramAddr(r.start, n) OBVIOUS
<1>5. Holds(r.before, mem, 1..n-(n % 2), places, v) BY DEF CgramWrites
<1> HIDE DEF n
<1>6. \A i \in 1..n : v2[i] = v[i] BY <1>2 DEF CgramValues
<1>7. v2[n + 1] = IF n % 2 = 1 THEN it.val % 128 ELSE it.val
  <2>1. (n + 1) % 2 = 1 - (n % 2) /\ n % 2 \in {0, 1} BY <1>3 DEF CgramStep
  <2>2. v2[n + 1] = IF (n + 1) % 2 = 0 THEN it.val % 128 ELSE it.val BY <1>2 DEF CgramValues
  <2> QED BY <2>1, <2>2
<1>8. Len(r2.items) = n + 1 /\ r2.before = r.before /\ CgramPlaces(r2.start) = places BY <1>1, <1>2
<1>9. CASE n % 2 = 0
  <2>1. (n + 1) % 2 = 1 BY <1>3, <1>9 DEF CgramStep
  <2>2. 1..n-(n % 2) = 1..n /\ 1..Len(r2.items)-(Len(r2.items) % 2) = 1..n BY <1>2, <1>9, <2>1
  <2> HIDE DEF v, v2, places
  <2>3. Holds(r.before, mem, 1..n, places, v2) BY <1>5, <1>6, <2>2, HoldsSame
  <2>4. it.val = v2[n + 1] BY <1>7, <1>9
  <2>5. CgramWrites(r2, mem, it.val) BY <1>8, <2>2, <2>3, <2>4 DEF CgramWrites, v2
  <2> QED BY <1>9, <2>5
<1>10. CASE n % 2 = 1
  <2>1. (n + 1) % 2 = 0 /\ n > 0 /\ places[n] = 2 * addr /\ places[n + 1] = 2 * addr + 1
    BY <1>3, <1>10, <1>11 DEF CgramStep
  <2>2. 1..n-(n % 2) = 1..n-1 /\ 1..Len(r2.items)-(Len(r2.items) % 2) = (1..n-1 \cup {n}) \cup {n + 1}
    BY <1>2, <1>10, <2>1
  <2> HIDE DEF v, v2, places
  <2>3. More(1..n-1, n, places, v, places, v2) BY <1>2, <1>6 DEF More
  <2>4. Holds(r.before, Set(mem, places[n], v2[n]), (1..n-1) \cup {n}, places, v2)
    BY <1>5, <2>2, <2>3, HoldsMore
  <2>5. More((1..n-1) \cup {n}, n + 1, places, v2, places, v2) BY <1>2, <2>1 DEF More
  <2>6. Holds(r.before, Set(Set(mem, places[n], v2[n]), places[n + 1], v2[n + 1]), ((1..n-1) \cup {n}) \cup {n + 1}, places, v2)
    BY <2>4, <2>5, HoldsMore
  <2>7. latch = v2[n] /\ it.val % 128 = v2[n + 1] BY <1>2, <1>4, <1>6, <1>7, <1>10, <2>1
  <2>8. Holds(r.before, two,
              1..Len(r2.items)-(Len(r2.items) % 2), places, v2)
    BY <2>1, <2>2, <2>6, <2>7
  <2>9. Len(r2.items) % 2 = 0 BY <1>8, <2>1
  <2>10. CgramWrites(r2, two, latch)
    BY <1>8, <2>8, <2>9 DEF CgramWrites, v2
  <2> QED BY <1>10, <2>10
<1>12. n % 2 = 0 \/ n % 2 = 1 BY <1>2
<1> HIDE DEF two
<1> QED BY <1>9, <1>10, <1>12

CgramInv ==
  /\ DOMAIN cgram = {"mem", "addr", "latch", "flipflop"}
  /\ cgram.addr \in Below(256) /\ cgram.latch \in Uint8 /\ cgram.flipflop \in BOOLEAN /\ IsMemory(cgram.mem)
  /\ Running("cgram", run) => CgramRun(run, cgram.mem, cgram.addr, cgram.latch, Flag(cgram.flipflop))

\* What an access finds: the run before it, and the run after it is one item longer.
CgramFound(r, it, r2, mem, addr, latch, waiting) ==
  LET n == Len(r.items)
  IN  /\ Extended(r, it, r2) /\ Len(r2.items) = n + 1 /\ n \in Nat
      /\ r2.start = r.start /\ r.start \in Below(256) /\ CgramStep(r.start, n)
      /\ waiting = n % 2 /\ addr = CgramAddr(r.start, n)
      /\ AllAre(r2.items, "w") => it.op = "w" /\ CgramWrites(r, mem, latch)
      /\ AllAre(r2.items, "r") => it.op = "r" /\ CgramReads(r, mem)

\* It does, whatever the access is.
LEMMA CgramFinds ==
  ASSUME Common, CgramInv, NEW it, it \in Item, Notes("cgram", it, run, run'), Running("cgram", run')
  PROVE  CgramFound(run, it, run', cgram.mem, cgram.addr, cgram.latch, Flag(cgram.flipflop))
<1>1. IsRun(run) BY DEF Common
<1>2. Running("cgram", run) /\ Extended(run, it, run') BY <1>1, Noted, SMT
<1>3. run.items \in Seq(Item) /\ run'.items = Append(run.items, it) /\ run'.start = run.start
  BY <1>1, <1>2 DEF IsRun, Extended
<1>4. /\ Len(run'.items) = Len(run.items) + 1 /\ Len(run.items) \in Nat
      /\ (AllAre(run'.items, "w") => AllAre(run.items, "w") /\ it.op = "w")
      /\ (AllAre(run'.items, "r") => AllAre(run.items, "r") /\ it.op = "r")
  BY <1>3, Longer
<1>5. CgramRun(run, cgram.mem, cgram.addr, cgram.latch, Flag(cgram.flipflop)) BY <1>2 DEF CgramInv
<1>6. run.start \in Below(256) BY <1>5 DEF CgramRun
<1>7. CgramStep(run.start, Len(run.items)) BY <1>4, <1>6, CgramSteps, Zenon
<1>8. /\ Flag(cgram.flipflop) = Len(run.items) % 2 /\ cgram.addr = CgramAddr(run.start, Len(run.items))
      /\ AllAre(run.items, "w") => CgramWrites(run, cgram.mem, cgram.latch)
      /\ AllAre(run.items, "r") => CgramReads(run, cgram.mem)
  BY <1>5 DEF CgramRun
<1> QED BY <1>2, <1>3, <1>4, <1>6, <1>7, <1>8 DEF CgramFound

\* CGDATA: the first byte of a colour or the second.
LEMMA CgramWritten ==
  ASSUME Common, CgramInv, WriteCgdata
  PROVE  CgramInv' /\ IsRun(run') /\ Touched("cgram", run, run')
<1> DEFINE val == Datum(accesses)
           it == [op |-> "w", half |-> 0, val |-> val]
           idx == 2 * cgram.addr
           n == Len(run.items)
<1>1. val \in Uint8 /\ val \in Int /\ 0 <= val BY DataAre, Bytes DEF WriteCgdata, Access, Common
<1>2. it \in Item /\ it.op = "w" /\ it.val = val BY <1>1 DEF Item
<1>3. Notes("cgram", it, run, run') BY DEF WriteCgdata, Note, Notes
<1>4. IsRun(run) BY DEF Common
<1>5. cgram.addr \in Int /\ 0 <= cgram.addr /\ cgram.addr < 256 BY Ranges DEF CgramInv
<1>6. DOMAIN cgram = {"mem", "addr", "latch", "flipflop"} /\ cgram.flipflop \in BOOLEAN
      /\ IsMemory(cgram.mem) /\ cgram.addr \in Below(256) /\ cgram.latch \in Uint8
  BY DEF CgramInv
<1>7. cgram' = IF ~cgram.flipflop
               THEN [cgram EXCEPT !.latch = val, !.flipflop = TRUE]
               ELSE [cgram EXCEPT !.mem = Set(Set(@, idx, cgram.latch), idx + 1, val % 128),
                                  !.addr = (@ + 1) % 256, !.flipflop = FALSE]
  BY DEF WriteCgdata
<1> HIDE DEF val, it
<1>8. IsRun(run') /\ Touched("cgram", run, run') BY <1>2, <1>3, <1>4, Noted, SMT
<1>9. Flag(FALSE) = 0 /\ Flag(TRUE) = 1 BY DEF Flag
<1>10. CASE cgram.flipflop = FALSE
  <2>1. /\ DOMAIN cgram' = {"mem", "addr", "latch", "flipflop"} /\ cgram'.mem = cgram.mem
        /\ cgram'.addr = cgram.addr /\ cgram'.latch = val /\ cgram'.flipflop = TRUE
    BY <1>6, <1>7, <1>10
  <2>2. ASSUME Running("cgram", run')
        PROVE  CgramRun(run', cgram'.mem, cgram'.addr, cgram'.latch, Flag(cgram'.flipflop))
    <3>0. CgramFound(run, it, run', cgram.mem, cgram.addr, cgram.latch, Flag(cgram.flipflop))
      BY <1>2, <1>3, <2>2, CgramFinds
    <3>2. /\ Extended(run, it, run') /\ Len(run'.items) = n + 1 /\ run'.start = run.start
          /\ run.start \in Below(256) /\ CgramStep(run.start, n) /\ cgram.addr = CgramAddr(run.start, n)
          /\ AllAre(run'.items, "w") => CgramWrites(run, cgram.mem, cgram.latch)
          /\ ~AllAre(run'.items, "r") /\ Flag(cgram.flipflop) = n % 2
      BY <1>2, <3>0 DEF CgramFound
    <3>1. n % 2 = 0 BY <1>9, <1>10, <3>2
    <3>3. ASSUME AllAre(run'.items, "w") PROVE CgramWrites(run', cgram.mem, val)
      <4>1. CgramWrites(run, cgram.mem, cgram.latch) BY <3>2, <3>3
      <4>2. CgramMore(run, run', cgram.mem, cgram.addr, cgram.latch, it.val)
        BY <1>2, <1>4, <3>2, <4>1, CgramWriteMore
      <4>3. CgramWrites(run', cgram.mem, it.val) BY <3>1, <4>2 DEF CgramMore
      <4> QED BY <1>2, <4>3
    <3> HIDE DEF n
    <3>4. (n + 1) % 2 = 1 /\ CgramAddr(run.start, n + 1) = cgram.addr BY <3>1, <3>2 DEF CgramStep
    <3>5. Flag(cgram'.flipflop) = (n + 1) % 2 BY <1>9, <2>1, <3>4
    <3>6. cgram'.addr = CgramAddr(run'.start, n + 1) BY <2>1, <3>2, <3>4
    <3>7. AllAre(run'.items, "w") => CgramWrites(run', cgram'.mem, cgram'.latch) BY <2>1, <3>3
    <3> QED BY <3>2, <3>5, <3>6, <3>7 DEF CgramRun
  <2> QED BY <1>1, <1>6, <1>8, <2>1, <2>2 DEF CgramInv
<1>11. CASE cgram.flipflop = TRUE
  <2>1. /\ DOMAIN cgram' = {"mem", "addr", "latch", "flipflop"}
        /\ cgram'.mem = Set(Set(cgram.mem, idx, cgram.latch), idx + 1, val % 128)
        /\ cgram'.addr = (cgram.addr + 1) % 256 /\ cgram'.latch = cgram.latch /\ cgram'.flipflop = FALSE
    BY <1>6, <1>7, <1>11
  <2>2. ASSUME Running("cgram", run')
        PROVE  CgramRun(run', cgram'.mem, cgram'.addr, cgram'.latch, Flag(cgram'.flipflop))
    <3>0. CgramFound(run, it, run', cgram.mem, cgram.addr, cgram.latch, Flag(cgram.flipflop))
      BY <1>2, <1>3, <2>2, CgramFinds
    <3>2. /\ Extended(run, it, run') /\ Len(run'.items) = n + 1 /\ run'.start = run.start
          /\ run.start \in Below(256) /\ CgramStep(run.start, n) /\ cgram.addr = CgramAddr(run.start, n)
          /\ AllAre(run'.items, "w") => CgramWrites(run, cgram.mem, cgram.latch)
          /\ ~AllAre(run'.items, "r") /\ Flag(cgram.flipflop) = n % 2
      BY <1>2, <3>0 DEF CgramFound
    <3>1. n % 2 = 1 BY <1>9, <1>11, <3>2
    <3>3. ASSUME AllAre(run'.items, "w") PROVE CgramWrites(run', cgram'.mem, cgram'.latch)
      <4>1. CgramWrites(run, cgram.mem, cgram.latch) BY <3>2, <3>3
      <4>2. CgramMore(run, run', cgram.mem, cgram.addr, cgram.latch, it.val)
        BY <1>2, <1>4, <3>2, <4>1, CgramWriteMore
      <4>3. CgramWrites(run', Set(Set(cgram.mem, idx, cgram.latch), idx + 1, it.val % 128), cgram.latch)
        BY <3>1, <4>2 DEF CgramMore
      <4> QED BY <1>2, <2>1, <4>3
    <3> HIDE DEF n
    <3>4. (n + 1) % 2 = 0 /\ CgramAddr(run.start, n + 1) = (cgram.addr + 1) % 256 BY <3>1, <3>2 DEF CgramStep
    <3>5. Flag(cgram'.flipflop) = (n + 1) % 2 BY <1>9, <2>1, <3>4
    <3>6. cgram'.addr = CgramAddr(run'.start, n + 1) BY <2>1, <3>2, <3>4
    <3>7. AllAre(run'.items, "w") => CgramWrites(run', cgram'.mem, cgram'.latch) BY <2>1, <3>3
    <3> QED BY <3>2, <3>5, <3>6, <3>7 DEF CgramRun
  <2>3. cgram'.addr \in Below(256) BY <1>5, <2>1, Ranges
  <2>4. IsMemory(cgram'.mem)
    <3>1. val % 128 \in Uint8
      <4>1. val % 128 \in Int /\ 0 <= val % 128 /\ val % 128 < 256 BY <1>1
      <4> QED BY <4>1, Bytes
    <3> QED BY <1>6, <2>1, <3>1, SetIs
  <2> QED BY <1>6, <1>8, <2>1, <2>2, <2>3, <2>4 DEF CgramInv
<1>12. cgram.flipflop = TRUE \/ cgram.flipflop = FALSE BY <1>6
<1> QED BY <1>10, <1>11, <1>12

\* CGDATAREAD.
LEMMA CgramRead ==
  ASSUME Common, CgramInv, ReadCgdata
  PROVE  CgramInv' /\ IsRun(run') /\ Touched("cgram", run, run')
<1> DEFINE val == Byte(cgram.mem, 2 * cgram.addr + Flag(cgram.flipflop))
           it == [op |-> "r", half |-> 0, val |-> val]
           n == Len(run.items)
<1>0. cgram.flipflop = TRUE \/ cgram.flipflop = FALSE BY DEF CgramInv
<1>1. cgram.addr \in Int /\ 0 <= cgram.addr /\ cgram.addr < 256 BY Ranges DEF CgramInv
<1>2. Flag(FALSE) = 0 /\ Flag(TRUE) = 1 /\ Flag(cgram.flipflop) \in {0, 1} BY DEF Flag
<1>3. val \in Int
  <2>1. 2 * cgram.addr + Flag(cgram.flipflop) \in Nat BY <1>1, <1>2
  <2>2. val \in Uint8 BY <2>1 DEF CgramInv, IsMemory
  <2> QED BY <2>2, Bytes
<1>4. it \in Item /\ it.op = "r" /\ it.val = val BY <1>3 DEF Item
<1>5. Flag(cgram.flipflop) = IF cgram.flipflop THEN 1 ELSE 0 BY <1>0 DEF Flag
<1>6. Notes("cgram", it, run, run')
  <2>1. Note("cgram", "r", 0, val) BY <1>5 DEF ReadCgdata
  <2> QED BY <2>1 DEF Note, Notes
<1>7. IsRun(run) BY DEF Common
<1>8. /\ DOMAIN cgram' = {"mem", "addr", "latch", "flipflop"} /\ cgram'.mem = cgram.mem
      /\ cgram'.addr = (IF cgram.flipflop THEN (cgram.addr + 1) % 256 ELSE cgram.addr)
      /\ cgram'.latch = cgram.latch /\ cgram'.flipflop = ~cgram.flipflop
  BY DEF CgramInv, ReadCgdata
<1> HIDE DEF it
<1>9. IsRun(run') /\ Touched("cgram", run, run') BY <1>4, <1>6, <1>7, Noted, SMT
<1>10. cgram'.addr \in Below(256) BY <1>0, <1>1, <1>8, Ranges
<1>11. ASSUME Running("cgram", run')
       PROVE  CgramRun(run', cgram'.mem, cgram'.addr, cgram'.latch, Flag(cgram'.flipflop))
  <2>1. /\ Extended(run, it, run') /\ Len(run'.items) = n + 1 /\ run'.start = run.start
        /\ run.start \in Below(256) /\ CgramStep(run.start, n) /\ cgram.addr = CgramAddr(run.start, n)
        /\ Flag(cgram.flipflop) = n % 2
        /\ AllAre(run'.items, "r") => CgramReads(run, cgram.mem)
        /\ ~AllAre(run'.items, "w")
    <3>1. CgramFound(run, it, run', cgram.mem, cgram.addr, cgram.latch, Flag(cgram.flipflop))
      BY <1>4, <1>6, <1>11, CgramFinds
    <3> QED BY <1>4, <3>1 DEF CgramFound
  <2>2. AllAre(run'.items, "r") => CgramReads(run', cgram.mem)
    BY <1>4, <1>7, <2>1, CgramReadMore
  <2>3. Flag(cgram'.flipflop) = (n + 1) % 2
    <3>1. Flag(cgram'.flipflop) = 1 - Flag(cgram.flipflop)
      <4>1. CASE cgram.flipflop = TRUE
        <5>1. cgram'.flipflop = FALSE BY <1>8, <4>1
        <5> QED BY <4>1, <5>1 DEF Flag
      <4>2. CASE cgram.flipflop = FALSE
        <5>1. cgram'.flipflop = TRUE BY <1>8, <4>2
        <5> QED BY <4>2, <5>1 DEF Flag
      <4> QED BY <1>0, <4>1, <4>2
    <3> QED BY <2>1, <3>1 DEF CgramStep
  <2>4. cgram'.addr = CgramAddr(run.start, n + 1)
    <3>1. cgram'.addr = IF n % 2 = 1 THEN (cgram.addr + 1) % 256 ELSE cgram.addr
      <4>1. CASE cgram.flipflop = TRUE BY <1>2, <1>8, <2>1, <4>1
      <4>2. CASE cgram.flipflop = FALSE
        <5>1. Flag(cgram.flipflop) = 0 BY <4>2 DEF Flag
        <5>2. n % 2 = 0 BY <2>1, <5>1
        <5>3. cgram'.addr = cgram.addr BY <1>8, <4>2
        <5> HIDE DEF n
        <5> QED BY <5>2, <5>3
      <4> QED BY <1>0, <4>1, <4>2
    <3> QED BY <2>1, <3>1 DEF CgramStep
  <2> HIDE DEF n
  <2> QED BY <1>8, <2>1, <2>2, <2>3, <2>4 DEF CgramRun
<1>12. cgram'.flipflop \in BOOLEAN BY <1>0, <1>8
<1>13. cgram'.latch \in Uint8 /\ IsMemory(cgram'.mem) BY <1>8 DEF CgramInv
<1> QED BY <1>8, <1>9, <1>10, <1>11, <1>12, <1>13 DEF CgramInv

\* Every access to CGRAM keeps its invariant.
LEMMA CgramStepped ==
  ASSUME Common, CgramInv, CgramPort PROVE CgramInv' /\ IsRun(run') /\ Touched("cgram", run, run')
<1>1. ASSUME NEW v \in Written("CGADD"), WriteCgadd(v)
      PROVE  CgramInv' /\ IsRun(run') /\ Touched("cgram", run, run')
  <2>1. v \in Below(256)
    <3>1. v \in Uint8 BY WrittenIs DEF Common
    <3> QED BY <3>1 DEF Uint8
  <2>2. /\ DOMAIN cgram' = {"mem", "addr", "latch", "flipflop"} /\ cgram'.mem = cgram.mem
        /\ cgram'.addr = v /\ cgram'.latch = cgram.latch /\ cgram'.flipflop = FALSE
    BY <1>1 DEF CgramInv, WriteCgadd
  <2>3. Begins("cgram", v, cgram.mem, run') BY <1>1 DEF WriteCgadd, Begin, Begins
  <2>4. run'.start = v /\ run'.before = cgram.mem /\ run'.items = <<>> /\ IsRun(run') /\ run'.unit = "cgram"
    BY <2>3, Begun, SMT
  <2>5. CgramRun(run', cgram.mem, v, cgram.latch, 0) BY <2>1, <2>4, CgramBegins
  <2>6. Flag(cgram'.flipflop) = 0 BY <2>2 DEF Flag
  <2>7. CgramRun(run', cgram'.mem, cgram'.addr, cgram'.latch, Flag(cgram'.flipflop)) BY <2>2, <2>5, <2>6
  <2>8. cgram'.latch \in Uint8 /\ IsMemory(cgram'.mem) BY <2>2 DEF CgramInv
  <2>9. cgram'.flipflop \in BOOLEAN /\ cgram'.addr \in Below(256) BY <2>1, <2>2
  <2>10. CgramInv' BY <2>2, <2>7, <2>8, <2>9 DEF CgramInv
  <2> QED BY <2>4, <2>10 DEF Touched
<1> QED BY <1>1, CgramWritten, CgramRead DEF CgramPort

-----------------------------------------------------------------------------
(* VRAM.                                                                   *)

VStep(v) == CASE v.vmain % 4 = 0 -> 1 [] v.vmain % 4 = 1 -> 32 [] OTHER -> 128
VHalf(v) == v.vmain \div 128

\* Accesses before the i-th that moved the address.
VMoved(items, half, i) == Cardinality({j \in 1..i-1 : items[j].half = half})

\* The word the address is at after n moves, the word of the i-th access, the word the port shows to it.
VWord(v, s, n)  == Translated(v.remap, (s + VStep(v) * n) % 65536)
VAt(r, v, i)    == VWord(v, r.start, VMoved(r.items, VHalf(v), i))
VShown(r, v, i) ==
  VWord(v, r.start, IF VMoved(r.items, VHalf(v), i) = 0 THEN 0 ELSE VMoved(r.items, VHalf(v), i) - 1)

VramLanded(r, v) == {i \in 1..Len(r.items) : VAt(r, v, i) < VramWords}
VramPlaces(r, v) == [i \in Nat |-> 2 * VAt(r, v, i) + r.items[i].half]

VramWrites(r, v) == Holds(r.before, v.mem, VramLanded(r, v), VramPlaces(r, v), Values(r.items))

VramReads(r, v) ==
  LET n == Len(r.items)
  IN  /\ \A i \in 1..n : VShown(r, v, i) < VramWords =>
           r.items[i].val = Byte(v.mem, 2 * VShown(r, v, i) + r.items[i].half)
      /\ VShown(r, v, n + 1) < VramWords => v.prefetch = Word(v.mem, VShown(r, v, n + 1))

VramRun(r, v) ==
  /\ r.start \in Below(65536)
  /\ v.addr = (r.start + VStep(v) * VMoved(r.items, VHalf(v), Len(r.items) + 1)) % 65536
  /\ AllAre(r.items, "w") => VramWrites(r, v)
  /\ AllAre(r.items, "r") => VramReads(r, v)

IsVram(v) ==
  /\ DOMAIN v = {"mem", "addr", "vmain", "remap", "prefetch"}
  /\ v.addr \in Below(65536) /\ v.vmain \in Uint8 /\ v.remap \in Below(4) /\ v.prefetch \in Below(65536)
  /\ IsMemory(v.mem)

\* A rotation stays within the 16 bits of the address.
LEMMA Rotates ==
  ASSUME NEW n, NEW a, n \in {32, 64, 128}, a \in Below(65536) PROVE Rotated(a, n) \in Below(65536)
<1>1. a \in Int /\ 0 <= a /\ a < 65536 BY Ranges
<1>2. CASE n = 32
  <2>1. /\ a - (a % 256) \in Int /\ 0 <= a - (a % 256) /\ a - (a % 256) <= 65280
        /\ a % 32 \in Int /\ 0 <= a % 32 /\ a % 32 <= 31
        /\ (a \div 32) % 8 \in Int /\ 0 <= (a \div 32) % 8 /\ (a \div 32) % 8 <= 7
    BY <1>1, SMT
  <2>2. Rotated(a, 32) = (a - (a % 256)) + 8 * (a % 32) + ((a \div 32) % 8) BY DEF Rotated
  <2> QED BY <1>2, <2>1, <2>2, Ranges, SMT
<1>3. CASE n = 64
  <2>1. /\ a - (a % 512) \in Int /\ 0 <= a - (a % 512) /\ a - (a % 512) <= 65024
        /\ a % 64 \in Int /\ 0 <= a % 64 /\ a % 64 <= 63
        /\ (a \div 64) % 8 \in Int /\ 0 <= (a \div 64) % 8 /\ (a \div 64) % 8 <= 7
    BY <1>1, SMT
  <2>2. Rotated(a, 64) = (a - (a % 512)) + 8 * (a % 64) + ((a \div 64) % 8) BY DEF Rotated
  <2> QED BY <1>3, <2>1, <2>2, Ranges, SMT
<1>4. CASE n = 128
  <2>1. /\ a - (a % 1024) \in Int /\ 0 <= a - (a % 1024) /\ a - (a % 1024) <= 64512
        /\ a % 128 \in Int /\ 0 <= a % 128 /\ a % 128 <= 127
        /\ (a \div 128) % 8 \in Int /\ 0 <= (a \div 128) % 8 /\ (a \div 128) % 8 <= 7
    BY <1>1, SMT
  <2>2. Rotated(a, 128) = (a - (a % 1024)) + 8 * (a % 128) + ((a \div 128) % 8) BY DEF Rotated
  <2> QED BY <1>4, <2>1, <2>2, Ranges, SMT
<1> QED BY <1>2, <1>3, <1>4

\* So does a translated address.
LEMMA Translates ==
  ASSUME NEW remap, NEW a, remap \in Below(4), a \in Below(65536) PROVE Translated(remap, a) \in Below(65536)
<1>1. remap \in Int /\ 0 <= remap /\ remap < 4 BY Ranges
<1>2. remap = 0 \/ remap = 1 \/ remap = 2 \/ remap = 3 BY <1>1
<1>3. CASE remap = 0 BY <1>3 DEF Translated
<1>4. CASE remap = 1 BY <1>4, Rotates DEF Translated
<1>5. CASE remap = 2 BY <1>5, Rotates DEF Translated
<1>6. CASE remap = 3 BY <1>6, Rotates DEF Translated
<1> QED BY <1>2, <1>3, <1>4, <1>5, <1>6

\* The bytes of a word.
LEMMA Words ==
  ASSUME NEW v, NEW s, NEW n, v.remap \in Below(4), s \in Int, n \in Nat
  PROVE  VWord(v, s, n) \in Int /\ 0 <= VWord(v, s, n) /\ VWord(v, s, n) < 65536 /\ VStep(v) \in {1, 32, 128}
<1>1. VStep(v) \in {1, 32, 128} BY DEF VStep
<1> DEFINE a == (s + VStep(v) * n) % 65536
<1>2. a \in Below(65536)
  <2>1. VStep(v) * n \in Int BY <1>1
  <2> QED BY <2>1, Ranges
<1> HIDE DEF a
<1>3. Translated(v.remap, a) \in Below(65536) BY <1>2, Translates
<1> QED BY <1>1, <1>3, Ranges DEF VWord, a

\* The accesses counted are finitely many.
LEMMA Moving ==
  ASSUME NEW items, NEW half, NEW n, n \in Nat
  PROVE  VMoved(items, half, n + 1) \in Nat /\ VMoved(items, half, 1) = 0
<1> DEFINE S == {j \in 1..n : items[j].half = half}
<1>1. IsFiniteSet(1..n) BY FS_Interval
<1>2. S \subseteq 1..n OBVIOUS
<1>3. IsFiniteSet(S) BY <1>1, <1>2, FS_Subset
<1>4. Cardinality(S) \in Nat BY <1>3, FS_CardinalityType
<1>5. (n + 1) - 1 = n OBVIOUS
<1>6. {j \in 1..1-1 : items[j].half = half} = {} OBVIOUS
<1>7. Cardinality({}) = 0 BY FS_EmptySet
<1> QED BY <1>4, <1>5, <1>6, <1>7 DEF VMoved

\* One more access leaves those before it where they are, and moves the address or not.
MovesOn(items, it, items2, half) ==
  /\ \A i \in 1..Len(items)+1 : VMoved(items2, half, i) = VMoved(items, half, i)
  /\ VMoved(items2, half, Len(items) + 2) =
       VMoved(items, half, Len(items) + 1) + IF it.half = half THEN 1 ELSE 0

\* One more access is one more move if it is to the moving half.
LEMMA MovedMore ==
  ASSUME NEW items, NEW it, NEW items2, NEW half, items \in Seq(Item), it \in Item, items2 = Append(items, it)
  PROVE  MovesOn(items, it, items2, half)
<1> DEFINE n == Len(items)
           S == {j \in 1..n : items[j].half = half}
           S2 == {j \in 1..n+1 : items2[j].half = half}
<1>1. n \in Nat /\ items2[n + 1] = it /\ \A i \in 1..n : items2[i] = items[i] BY Longer
<1> HIDE DEF n
<1>7. /\ \A i \in 1..n+1 : i \in Int /\ (i \in 1..n \/ i = n + 1) /\ \A j \in 1..i-1 : j \in 1..n
      /\ n + 1 \in 1..n+1 /\ n + 1 \notin 1..n /\ 1..n \subseteq 1..n+1
  BY <1>1
<1>2. ASSUME NEW i \in 1..n+1 PROVE VMoved(items2, half, i) = VMoved(items, half, i)
  <2>1. \A j \in 1..i-1 : items2[j] = items[j] BY <1>1, <1>7
  <2>2. {j \in 1..i-1 : items2[j].half = half} = {j \in 1..i-1 : items[j].half = half} BY <2>1
  <2> QED BY <2>2 DEF VMoved
<1>3. IsFiniteSet(S)
  <2>1. IsFiniteSet(1..n) BY <1>1, FS_Interval
  <2>2. S \subseteq 1..n OBVIOUS
  <2> QED BY <2>1, <2>2, FS_Subset
<1>4. Cardinality(S2) = Cardinality(S) + IF it.half = half THEN 1 ELSE 0
  <2>1. Cardinality(S) \in Nat BY <1>3, FS_CardinalityType
  <2>2. CASE it.half = half
    <3>1. S2 = S \cup {n + 1}
      <4>1. \A j \in S2 : j \in S \cup {n + 1} BY <1>1, <1>7
      <4>2. \A j \in S \cup {n + 1} : j \in S2 BY <1>1, <1>7, <2>2
      <4> HIDE DEF S, S2
      <4> QED BY <4>1, <4>2
    <3>3. n + 1 \notin S BY <1>7
    <3>2. Cardinality(S \cup {n + 1}) = Cardinality(S) + 1 BY <1>3, <3>3, FS_AddElement
    <3> QED BY <2>2, <3>1, <3>2
  <2>3. CASE it.half # half
    <3>1. S2 = S
      <4>1. \A j \in S2 : j \in S BY <1>1, <1>7, <2>3
      <4>2. \A j \in S : j \in S2 BY <1>1, <1>7
      <4> HIDE DEF S, S2
      <4> QED BY <4>1, <4>2
    <3> HIDE DEF S, S2
    <3> QED BY <2>1, <2>3, <3>1
  <2> QED BY <2>2, <2>3
<1>5. VMoved(items, half, n + 1) = Cardinality(S)
  <2>1. (n + 1) - 1 = n BY <1>1
  <2> QED BY <2>1 DEF VMoved
<1>6. VMoved(items2, half, n + 2) = Cardinality(S2)
  <2>1. (n + 2) - 1 = n + 1 BY <1>1
  <2> QED BY <2>1 DEF VMoved
<1> QED BY <1>2, <1>4, <1>5, <1>6 DEF MovesOn, n

\* The registers that say how the address moves stay.
SameMode(v, v2) == v2.vmain = v.vmain /\ v2.remap = v.remap

VramAfter(r, r2, v, v2, it) ==
  LET n == Len(r.items)
      moves == it.half = VHalf(v)
  IN  /\ n \in Nat /\ Len(r2.items) = n + 1 /\ r2.start = r.start /\ r2.before = r.before
      /\ r2.items[n + 1] = it /\ \A i \in 1..n : r2.items[i] = r.items[i]
      /\ \A i \in 1..n+1 : VAt(r2, v2, i) = VAt(r, v, i) /\ VShown(r2, v2, i) = VShown(r, v, i)
      /\ VAt(r, v, n + 1) = Translated(v.remap, v.addr)
      /\ VShown(r2, v2, n + 2) = (IF moves THEN VAt(r, v, n + 1) ELSE VShown(r, v, n + 1))
      /\ (r.start + VStep(v2) * VMoved(r2.items, VHalf(v2), n + 2)) % 65536
           = IF moves THEN (v.addr + VStep(v)) % 65536 ELSE v.addr

\* An access leaves the words and the places of the accesses before it as they were.
LEMMA VramAfters ==
  ASSUME NEW r, NEW r2, NEW v, NEW v2, NEW it, IsRun(r), it \in Item, Extended(r, it, r2), IsVram(v), SameMode(v, v2),
         VramRun(r, v)
  PROVE  VramAfter(r, r2, v, v2, it)
<1> DEFINE n == Len(r.items)
           s == r.start
           h == VHalf(v)
           m(i) == VMoved(r.items, h, i)
           m2(i) == VMoved(r2.items, h, i)
           step == VStep(v)
<1>1. /\ r.items \in Seq(Item) /\ r2.items = Append(r.items, it) /\ r2.start = s /\ r2.before = r.before
  BY DEF IsRun, Extended
<1>2. n \in Nat /\ Len(r2.items) = n + 1 /\ r2.items[n + 1] = it /\ \A i \in 1..n : r2.items[i] = r.items[i]
  BY <1>1, Longer
<1>3. VHalf(v2) = h /\ VStep(v2) = step /\ v2.remap = v.remap BY DEF SameMode, VHalf, VStep
<1>4. (\A i \in 1..n+1 : m2(i) = m(i)) /\ m2(n + 2) = m(n + 1) + IF it.half = h THEN 1 ELSE 0
  <2>1. MovesOn(r.items, it, r2.items, h) BY <1>1, MovedMore
  <2> QED BY <2>1 DEF MovesOn
<1>5. s \in Int /\ v.addr = (s + step * m(n + 1)) % 65536 BY Ranges DEF VramRun
<1>6. m(n + 1) \in Nat BY <1>2, Moving
<1>7. step \in {1, 32, 128} BY DEF VStep
<1>8. \A x : VWord(v2, s, x) = VWord(v, s, x) BY <1>3 DEF VWord
<1> HIDE DEF n, h, m, m2, step
<1>9. ASSUME NEW i \in 1..n+1 PROVE VAt(r2, v2, i) = VAt(r, v, i) /\ VShown(r2, v2, i) = VShown(r, v, i)
  <2>1. VMoved(r2.items, VHalf(v2), i) = VMoved(r.items, VHalf(v), i) BY <1>3, <1>4 DEF m, m2, h
  <2> QED BY <1>1, <1>8, <2>1 DEF VAt, VShown
<1>10. VAt(r, v, n + 1) = Translated(v.remap, v.addr) BY <1>5 DEF VAt, VWord, m, step, h
<1>11. VShown(r2, v2, n + 2) = IF it.half = h THEN VAt(r, v, n + 1) ELSE VShown(r, v, n + 1)
  <2>1. VShown(r2, v2, n + 2) = VWord(v, s, IF m2(n + 2) = 0 THEN 0 ELSE m2(n + 2) - 1)
    BY <1>1, <1>3, <1>8 DEF VShown, m2
  <2>2. VAt(r, v, n + 1) = VWord(v, s, m(n + 1)) BY DEF VAt, m, h
  <2>3. VShown(r, v, n + 1) = VWord(v, s, IF m(n + 1) = 0 THEN 0 ELSE m(n + 1) - 1) BY DEF VShown, m, h
  <2>4. CASE it.half = h
    <3>1. m2(n + 2) # 0 /\ m2(n + 2) - 1 = m(n + 1) BY <1>4, <1>6, <2>4
    <3> QED BY <2>1, <2>2, <2>4, <3>1
  <2>5. CASE it.half # h
    <3>1. m2(n + 2) = m(n + 1) BY <1>4, <1>6, <2>5
    <3> QED BY <2>1, <2>3, <2>5, <3>1
  <2> QED BY <2>4, <2>5
<1>12. (s + VStep(v2) * VMoved(r2.items, VHalf(v2), n + 2)) % 65536
         = IF it.half = h THEN (v.addr + VStep(v)) % 65536 ELSE v.addr
  <2> DEFINE k == m(n + 1)
             x == s + step * k
  <2>1. VStep(v2) * VMoved(r2.items, VHalf(v2), n + 2) = step * (k + IF it.half = h THEN 1 ELSE 0)
    BY <1>3, <1>4 DEF m2
  <2>2. k \in Nat /\ x \in Int /\ step \in Int BY <1>5, <1>6, <1>7
  <2>3. step * (k + 1) = step * k + step /\ step * (k + 0) = step * k
    <3> HIDE DEF k
    <3>1. CASE step = 1 BY <2>2, <3>1
    <3>2. CASE step = 32 BY <2>2, <3>2
    <3>3. CASE step = 128 BY <2>2, <3>3
    <3> QED BY <1>7, <3>1, <3>2, <3>3
  <2>4. step * k \in Int BY <1>7, <2>2
  <2>5. v.addr = x % 65536 BY <1>5
  <2>6. CASE it.half = h
    <3>1. s + VStep(v2) * VMoved(r2.items, VHalf(v2), n + 2) = x + step BY <1>5, <2>1, <2>2, <2>3, <2>4, <2>6
    <3>2. (x + step) % 65536 = ((x % 65536) + step) % 65536
      <4> HIDE DEF x
      <4> QED BY <1>7, <2>2, SMT
    <3> QED BY <2>5, <2>6, <3>1, <3>2 DEF step
  <2>7. CASE it.half # h
    <3>1. s + VStep(v2) * VMoved(r2.items, VHalf(v2), n + 2) = x BY <1>5, <2>1, <2>2, <2>3, <2>4, <2>7
    <3> QED BY <2>5, <2>7, <3>1
  <2> QED BY <2>6, <2>7
<1> QED BY <1>1, <1>2, <1>9, <1>10, <1>11, <1>12 DEF VramAfter, n, h

\* A new address begins an empty block, and fills the buffer.
LEMMA VramBegins ==
  ASSUME NEW r, NEW v, IsVram(v), r.start = v.addr, r.before = v.mem, r.items = <<>>,
         Translated(v.remap, v.addr) < VramWords => v.prefetch = Word(v.mem, Translated(v.remap, v.addr))
  PROVE  VramRun(r, v)
<1> DEFINE n == Len(r.items)
<1>1. n = 0 OBVIOUS
<1> HIDE DEF n
<1>2. v.addr \in Int /\ 0 <= v.addr /\ v.addr < 65536 BY Ranges DEF IsVram
<1>3. VMoved(r.items, VHalf(v), 1) = 0
  <2>1. 0 \in Nat OBVIOUS
  <2> QED BY <2>1, Moving
<1>4. VStep(v) * 0 = 0 /\ (v.addr + 0) % 65536 = v.addr
  <2>1. VStep(v) \in Int BY DEF VStep
  <2> QED BY <1>2, <2>1
<1>5. VShown(r, v, 1) = Translated(v.remap, v.addr) BY <1>3, <1>4 DEF VShown, VWord
<1>6. VramLanded(r, v) = {} BY <1>1 DEF VramLanded, n
<1>7. VramWrites(r, v) BY <1>6, HoldsNone DEF VramWrites
<1>8. VramReads(r, v)
  <2>1. Len(r.items) + 1 = 1 /\ 1..Len(r.items) = {} BY <1>1 DEF n
  <2> QED BY <1>5, <2>1 DEF VramReads
<1>9. v.addr = (r.start + VStep(v) * VMoved(r.items, VHalf(v), Len(r.items) + 1)) % 65536
  <2>1. Len(r.items) + 1 = 1 BY <1>1 DEF n
  <2> QED BY <1>3, <1>4, <2>1
<1>10. r.start \in Below(65536) BY DEF IsVram
<1> QED BY <1>7, <1>8, <1>9, <1>10 DEF VramRun

\* One more byte written, or lost past the end.
LEMMA VramWriteMore ==
  ASSUME NEW r, NEW r2, NEW v, NEW v2, NEW it, NEW w,
         IsRun(r), it \in Item, Extended(r, it, r2), VramAfter(r, r2, v, v2, it),
         VramWrites(r, v), w = Translated(v.remap, v.addr),
         v2.mem = IF w < VramWords THEN Set(v.mem, 2 * w + it.half, it.val) ELSE v.mem
  PROVE  VramWrites(r2, v2)
<1> DEFINE n == Len(r.items)
           L == VramLanded(r, v)
           L2 == VramLanded(r2, v2)
           p == VramPlaces(r, v)
           p2 == VramPlaces(r2, v2)
           b == Values(r.items)
           b2 == Values(r2.items)
<1>1. /\ n \in Nat /\ Len(r2.items) = n + 1 /\ r2.before = r.before
      /\ r2.items[n + 1] = it /\ \A i \in 1..n : r2.items[i] = r.items[i]
      /\ \A i \in 1..n+1 : VAt(r2, v2, i) = VAt(r, v, i)
      /\ VAt(r, v, n + 1) = w
  BY DEF VramAfter
<1> HIDE DEF n
<1>2. \A i \in 1..n+1 : i \in 1..n \/ i = n + 1 BY <1>1
<1>3. 1..n \subseteq 1..n+1 /\ n + 1 \in 1..n+1 /\ 1..n \subseteq Nat /\ n + 1 \in Nat /\ \A i \in 1..n : i < n + 1
  BY <1>1
<1>4. VAt(r2, v2, n + 1) = w BY <1>1, <1>3
<1>5. L2 = L \cup (IF w < VramWords THEN {n + 1} ELSE {})
  <2>1. L2 = {i \in 1..n+1 : VAt(r2, v2, i) < VramWords} BY <1>1 DEF VramLanded
  <2>2. L = {i \in 1..n : VAt(r, v, i) < VramWords} BY DEF VramLanded, n
  <2> HIDE DEF L, L2
  <2>3. \A i \in L2 : i \in L \cup (IF w < VramWords THEN {n + 1} ELSE {}) BY <1>1, <1>2, <1>4, <2>1, <2>2
  <2>4. \A i \in L \cup (IF w < VramWords THEN {n + 1} ELSE {}) : i \in L2 BY <1>1, <1>3, <1>4, <2>1, <2>2
  <2> QED BY <2>3, <2>4
<1>6. \A i \in 1..n : p2[i] = p[i] /\ b2[i] = b[i] BY <1>1, <1>3 DEF VramPlaces, Values
<1>7. p2[n + 1] = 2 * w + it.half /\ b2[n + 1] = it.val BY <1>1, <1>3, <1>4 DEF VramPlaces, Values
<1>8. L \subseteq 1..n BY DEF VramLanded, n
<1>9. Holds(r.before, v.mem, L, p, b) BY DEF VramWrites
<1> HIDE DEF L, L2, p, p2, b, b2
<1>10. Holds(r.before, v2.mem, L2, p2, b2)
  <2>1. CASE w < VramWords
    <3>1. More(L, n + 1, p, b, p2, b2)
      <4>1. L \in SUBSET Int /\ n + 1 \in Int BY <1>3, <1>8
      <4>2. \A i \in L : i < n + 1 /\ p2[i] = p[i] /\ b2[i] = b[i] BY <1>3, <1>6, <1>8
      <4> QED BY <4>1, <4>2 DEF More
    <3>2. Holds(r.before, Set(v.mem, p2[n + 1], b2[n + 1]), L \cup {n + 1}, p2, b2) BY <1>9, <3>1, HoldsMore
    <3> QED BY <1>5, <1>7, <2>1, <3>2
  <2>2. CASE ~(w < VramWords)
    <3>1. \A i \in L : p2[i] = p[i] /\ b2[i] = b[i] BY <1>6, <1>8
    <3>2. Holds(r.before, v.mem, L, p2, b2) BY <1>9, <3>1, HoldsSame
    <3>3. L2 = L BY <1>5, <2>2
    <3> QED BY <2>2, <3>2, <3>3
  <2> QED BY <2>1, <2>2
<1> QED BY <1>1, <1>10 DEF VramWrites, L2, p2, b2

\* One more byte read: the buffer shows the word before the address.
LEMMA VramReadMore ==
  ASSUME NEW r, NEW r2, NEW v, NEW v2, NEW it, NEW w,
         IsRun(r), it \in Item, Extended(r, it, r2), VramAfter(r, r2, v, v2, it),
         IsVram(v), VramRun(r, v), VramReads(r, v), w = Translated(v.remap, v.addr), v2.mem = v.mem,
         v2.prefetch = (IF it.half = VHalf(v) /\ w < VramWords THEN Word(v.mem, w) ELSE v.prefetch),
         it.val = IF it.half = 0 THEN v.prefetch % 256 ELSE v.prefetch \div 256
  PROVE  VramReads(r2, v2)
<1> DEFINE n == Len(r.items)
           sh == VShown(r, v, n + 1)
<1>1. /\ n \in Nat /\ Len(r2.items) = n + 1
      /\ r2.items[n + 1] = it /\ \A i \in 1..n : r2.items[i] = r.items[i]
      /\ \A i \in 1..n+1 : VShown(r2, v2, i) = VShown(r, v, i)
      /\ VAt(r, v, n + 1) = w
      /\ VShown(r2, v2, n + 2) = IF it.half = VHalf(v) THEN w ELSE sh
  BY DEF VramAfter
<1>2. /\ \A i \in 1..n : VShown(r, v, i) < VramWords => r.items[i].val = Byte(v.mem, 2 * VShown(r, v, i) + r.items[i].half)
      /\ sh < VramWords => v.prefetch = Word(v.mem, sh)
  BY DEF VramReads
<1>3. sh \in Int /\ 0 <= sh
  <2> DEFINE m == VMoved(r.items, VHalf(v), n + 1)
             k == IF m = 0 THEN 0 ELSE m - 1
  <2>1. m \in Nat BY <1>1, Moving
  <2>2. k \in Nat BY <2>1
  <2>3. r.start \in Int BY Ranges DEF VramRun
  <2>4. v.remap \in Below(4) BY DEF IsVram
  <2>5. sh = VWord(v, r.start, k) BY DEF VShown
  <2> HIDE DEF k, sh
  <2> QED BY <2>2, <2>3, <2>4, <2>5, Words
<1> HIDE DEF n, sh
<1>4. it.half \in {0, 1} BY DEF Item
<1>5. sh < VramWords => it.val = Byte(v.mem, 2 * sh + it.half)
  <2> SUFFICES ASSUME sh < VramWords PROVE it.val = Byte(v.mem, 2 * sh + it.half) OBVIOUS
  <2> DEFINE lo == Byte(v.mem, 2 * sh)
             hi == Byte(v.mem, 2 * sh + 1)
  <2>1. lo \in Uint8 /\ hi \in Uint8
    <3>1. 2 * sh \in Nat /\ 2 * sh + 1 \in Nat BY <1>3
    <3> QED BY <3>1 DEF IsVram, IsMemory
  <2>2. v.prefetch = lo + 256 * hi BY <1>2 DEF Word
  <2> HIDE DEF lo, hi
  <2>3. lo \in Int /\ hi \in Int /\ 0 <= lo /\ lo < 256 /\ 0 <= hi BY <2>1, Bytes
  <2>4. v.prefetch % 256 = lo /\ v.prefetch \div 256 = hi BY <2>2, <2>3
  <2>5. CASE it.half = 0
    <3>1. 2 * sh + it.half = 2 * sh BY <1>3, <2>5
    <3> QED BY <2>4, <2>5, <3>1 DEF lo
  <2>6. CASE it.half = 1 BY <2>4, <2>6 DEF hi
  <2> QED BY <1>4, <2>5, <2>6
<1>6. ASSUME NEW i \in 1..n+1, VShown(r2, v2, i) < VramWords
      PROVE  r2.items[i].val = Byte(v.mem, 2 * VShown(r2, v2, i) + r2.items[i].half)
  <2>1. CASE i \in 1..n BY <1>1, <1>2, <1>6, <2>1
  <2>2. CASE i = n + 1
    <3>1. VShown(r2, v2, i) = sh BY <1>1, <2>2 DEF sh
    <3> QED BY <1>1, <1>5, <1>6, <2>2, <3>1
  <2> QED BY <1>1, <2>1, <2>2
<1>7. VShown(r2, v2, n + 2) < VramWords => v2.prefetch = Word(v.mem, VShown(r2, v2, n + 2))
  <2>1. CASE it.half = VHalf(v) BY <1>1, <2>1
  <2>2. CASE it.half # VHalf(v) BY <1>1, <1>2, <2>2
  <2> QED BY <2>1, <2>2
<1>8. (n + 1) + 1 = n + 2 BY <1>1
<1> QED BY <1>1, <1>6, <1>7, <1>8 DEF VramReads

VramInv == IsVram(vram) /\ (Running("vram", run) => VramRun(run, vram))

\* The step and the half, of a record and of the variable.
LEMMA ModeIs == VramStep = VStep(vram) /\ MovingHalf = VHalf(vram) BY DEF VramStep, VStep, MovingHalf, VHalf

\* What an access finds.
LEMMA VramFinds ==
  ASSUME Common, VramInv, NEW it, it \in Item, Notes("vram", it, run, run'), Running("vram", run'),
         SameMode(vram, vram'), vram'.addr = IF it.half = VHalf(vram) THEN (vram.addr + VStep(vram)) % 65536 ELSE vram.addr
  PROVE  /\ VramAfter(run, run', vram, vram', it) /\ Extended(run, it, run') /\ IsRun(run) /\ VramRun(run, vram)
         /\ run'.start \in Below(65536)
         /\ vram'.addr = (run'.start + VStep(vram') * VMoved(run'.items, VHalf(vram'), Len(run'.items) + 1)) % 65536
         /\ AllAre(run'.items, "w") => it.op = "w" /\ VramWrites(run, vram)
         /\ AllAre(run'.items, "r") => it.op = "r" /\ VramReads(run, vram)
<1>1. IsRun(run) BY DEF Common
<1>2. Running("vram", run) /\ Extended(run, it, run') BY <1>1, Noted, SMT
<1>3. run.items \in Seq(Item) /\ run'.items = Append(run.items, it) /\ run'.start = run.start
  BY <1>1, <1>2 DEF IsRun, Extended
<1>4. /\ (AllAre(run'.items, "w") => AllAre(run.items, "w") /\ it.op = "w")
      /\ (AllAre(run'.items, "r") => AllAre(run.items, "r") /\ it.op = "r")
  BY <1>3, Longer
<1>5. IsVram(vram) /\ VramRun(run, vram) BY <1>2 DEF VramInv
<1>6. VramAfter(run, run', vram, vram', it) BY <1>1, <1>2, <1>5, VramAfters
<1>7. Len(run'.items) + 1 = Len(run.items) + 2 BY <1>6 DEF VramAfter
<1>8. vram'.addr = (run'.start + VStep(vram') * VMoved(run'.items, VHalf(vram'), Len(run'.items) + 1)) % 65536
  BY <1>3, <1>6, <1>7 DEF VramAfter
<1>9. run'.start \in Below(65536) BY <1>3, <1>5 DEF VramRun
<1> QED BY <1>1, <1>2, <1>4, <1>5, <1>6, <1>8, <1>9 DEF VramRun

\* The address stays within its 16 bits.
LEMMA AddrMoves == IsVram(vram) => (vram.addr + VStep(vram)) % 65536 \in Below(65536)
<1> SUFFICES ASSUME IsVram(vram) PROVE (vram.addr + VStep(vram)) % 65536 \in Below(65536) OBVIOUS
<1>1. vram.addr \in Int BY Ranges DEF IsVram
<1>2. VStep(vram) \in Int BY DEF VStep
<1> QED BY <1>1, <1>2, Ranges

\* A word of a memory has 16 bits.
LEMMA WordIs ==
  ASSUME NEW mem, NEW w, IsMemory(mem), w \in Int, 0 <= w PROVE Word(mem, w) \in Below(65536)
<1>1. 2 * w \in Nat /\ 2 * w + 1 \in Nat OBVIOUS
<1>2. Byte(mem, 2 * w) \in Uint8 /\ Byte(mem, 2 * w + 1) \in Uint8 BY <1>1 DEF IsMemory
<1>3. LET lo == Byte(mem, 2 * w)  hi == Byte(mem, 2 * w + 1)
      IN  lo \in Int /\ hi \in Int /\ 0 <= lo /\ lo < 256 /\ 0 <= hi /\ hi < 256
  BY <1>2, Bytes
<1>4. Word(mem, w) \in Int /\ 0 <= Word(mem, w) /\ Word(mem, w) < 65536 BY <1>3 DEF Word
<1> QED BY <1>4, Ranges

\* VMDATAL and VMDATAH.
LEMMA VramWritten ==
  ASSUME Common, VramInv, NEW half, half \in {0, 1}, WriteVmdata(half)
  PROVE  VramInv' /\ IsRun(run') /\ Touched("vram", run, run')
<1> DEFINE val == Datum(accesses)
           it == [op |-> "w", half |-> half, val |-> val]
           w == Translated(vram.remap, vram.addr)
           v == [vram EXCEPT !.mem = IF w < VramWords THEN Set(@, 2 * w + half, val) ELSE @]
<1>1. val \in Uint8 /\ val \in Int BY DataAre, Bytes DEF WriteVmdata, Access, Common
<1>2. it \in Item /\ it.op = "w" /\ it.val = val /\ it.half = half BY <1>1 DEF Item
<1>3. Notes("vram", it, run, run') BY DEF WriteVmdata, Note, Notes
<1>4. IsVram(vram) /\ IsRun(run) BY DEF Common, VramInv
<1>5. vram' = IF half = MovingHalf THEN Moved(v) ELSE v BY DEF WriteVmdata
<1> HIDE DEF val, it, w
<1>6. /\ DOMAIN v = {"mem", "addr", "vmain", "remap", "prefetch"}
      /\ v.mem = (IF w < VramWords THEN Set(vram.mem, 2 * w + half, val) ELSE vram.mem)
      /\ v.addr = vram.addr /\ v.vmain = vram.vmain /\ v.remap = vram.remap /\ v.prefetch = vram.prefetch
  BY <1>4 DEF IsVram
<1> HIDE DEF v
<1>7. /\ DOMAIN vram' = {"mem", "addr", "vmain", "remap", "prefetch"}
      /\ vram'.mem = (IF w < VramWords THEN Set(vram.mem, 2 * w + half, val) ELSE vram.mem)
      /\ vram'.addr = (IF half = VHalf(vram) THEN (vram.addr + VStep(vram)) % 65536 ELSE vram.addr)
      /\ vram'.vmain = vram.vmain /\ vram'.remap = vram.remap /\ vram'.prefetch = vram.prefetch
  BY <1>5, <1>6, ModeIs DEF Moved
<1>8. IsRun(run') /\ Touched("vram", run, run') BY <1>2, <1>3, <1>4, Noted, SMT
<1>9. IsVram(vram')
  <2>1. IsMemory(vram'.mem)
    <3>1. IsMemory(vram.mem) BY <1>4 DEF IsVram
    <3> QED BY <1>1, <1>7, <3>1, SetIs
  <2>2. vram'.addr \in Below(65536)
    <3>1. vram.addr \in Below(65536) BY <1>4 DEF IsVram
    <3> QED BY <1>4, <1>7, <3>1, AddrMoves
  <2> QED BY <1>4, <1>7, <2>1, <2>2 DEF IsVram
<1>10. SameMode(vram, vram') BY <1>7 DEF SameMode
<1>11. ASSUME Running("vram", run') PROVE VramRun(run', vram')
  <2>1. vram'.addr = IF it.half = VHalf(vram) THEN (vram.addr + VStep(vram)) % 65536 ELSE vram.addr
    BY <1>2, <1>7
  <2>2. /\ VramAfter(run, run', vram, vram', it) /\ Extended(run, it, run') /\ IsRun(run) /\ VramRun(run, vram)
        /\ run'.start \in Below(65536)
        /\ vram'.addr = (run'.start + VStep(vram') * VMoved(run'.items, VHalf(vram'), Len(run'.items) + 1)) % 65536
        /\ AllAre(run'.items, "w") => VramWrites(run, vram)
        /\ ~AllAre(run'.items, "r")
    BY <1>2, <1>3, <1>10, <1>11, <2>1, VramFinds
  <2>3. vram'.mem = IF w < VramWords THEN Set(vram.mem, 2 * w + it.half, it.val) ELSE vram.mem BY <1>2, <1>7
  <2>4. w = Translated(vram.remap, vram.addr) BY DEF w
  <2>5. AllAre(run'.items, "w") => VramWrites(run', vram') BY <1>2, <2>2, <2>3, <2>4, VramWriteMore
  <2> QED BY <2>2, <2>5 DEF VramRun
<1> QED BY <1>8, <1>9, <1>11 DEF VramInv

\* VMDATALREAD and VMDATAHREAD.
LEMMA VramRead ==
  ASSUME Common, VramInv, NEW half, half \in {0, 1}, ReadVmdata(half)
  PROVE  VramInv' /\ IsRun(run') /\ Touched("vram", run, run')
<1> DEFINE val == IF half = 0 THEN vram.prefetch % 256 ELSE vram.prefetch \div 256
           it == [op |-> "r", half |-> half, val |-> val]
           w == Translated(vram.remap, vram.addr)
<1>1. val \in Int
  <2>1. vram.prefetch \in Int BY Ranges DEF VramInv, IsVram
  <2> QED BY <2>1
<1>2. it \in Item /\ it.op = "r" /\ it.val = val /\ it.half = half BY <1>1 DEF Item
<1>3. Notes("vram", it, run, run') BY DEF ReadVmdata, Note, Notes
<1>4. IsVram(vram) /\ IsRun(run) BY DEF Common, VramInv
<1>5. vram' = IF half = MovingHalf THEN Moved(Fetched(vram)) ELSE vram BY DEF ReadVmdata, Refilled
<1>6. LET v == Fetched(vram)
      IN  /\ DOMAIN v = {"mem", "addr", "vmain", "remap", "prefetch"} /\ v.mem = vram.mem
          /\ v.prefetch = (IF w < VramWords THEN Word(vram.mem, w) ELSE vram.prefetch)
          /\ v.addr = vram.addr /\ v.vmain = vram.vmain /\ v.remap = vram.remap
  BY <1>4 DEF IsVram, Fetched
<1> HIDE DEF val, it, w
<1>7. /\ DOMAIN vram' = {"mem", "addr", "vmain", "remap", "prefetch"} /\ vram'.mem = vram.mem
      /\ vram'.prefetch = (IF half = VHalf(vram) /\ w < VramWords THEN Word(vram.mem, w) ELSE vram.prefetch)
      /\ vram'.addr = (IF half = VHalf(vram) THEN (vram.addr + VStep(vram)) % 65536 ELSE vram.addr)
      /\ vram'.vmain = vram.vmain /\ vram'.remap = vram.remap
  <2>1. CASE half = VHalf(vram)
    <3>1. vram' = Moved(Fetched(vram)) BY <1>5, <2>1, ModeIs
    <3> QED BY <1>6, <2>1, <3>1, ModeIs DEF Moved
  <2>2. CASE half # VHalf(vram)
    <3>1. vram' = vram BY <1>5, <2>2, ModeIs
    <3> QED BY <1>4, <2>2, <3>1 DEF IsVram
  <2> QED BY <2>1, <2>2
<1>8. IsRun(run') /\ Touched("vram", run, run') BY <1>2, <1>3, <1>4, Noted, SMT
<1>9. IsVram(vram')
  <2>1. vram'.addr \in Below(65536)
    <3>1. vram.addr \in Below(65536) BY <1>4 DEF IsVram
    <3> QED BY <1>4, <1>7, <3>1, AddrMoves
  <2>2. vram'.prefetch \in Below(65536)
    <3>1. w \in Int /\ 0 <= w
      <4>1. w \in Below(65536) BY <1>4, Translates DEF w, IsVram
      <4> QED BY <4>1, Ranges
    <3>2. Word(vram.mem, w) \in Below(65536) BY <1>4, <3>1, WordIs DEF IsVram
    <3>3. vram.prefetch \in Below(65536) BY <1>4 DEF IsVram
    <3> QED BY <1>7, <3>2, <3>3
  <2> QED BY <1>4, <1>7, <2>1, <2>2 DEF IsVram
<1>10. SameMode(vram, vram') BY <1>7 DEF SameMode
<1>11. ASSUME Running("vram", run') PROVE VramRun(run', vram')
  <2>1. vram'.addr = IF it.half = VHalf(vram) THEN (vram.addr + VStep(vram)) % 65536 ELSE vram.addr
    BY <1>2, <1>7
  <2>2. /\ VramAfter(run, run', vram, vram', it) /\ Extended(run, it, run') /\ IsRun(run) /\ VramRun(run, vram)
        /\ run'.start \in Below(65536)
        /\ vram'.addr = (run'.start + VStep(vram') * VMoved(run'.items, VHalf(vram'), Len(run'.items) + 1)) % 65536
        /\ AllAre(run'.items, "r") => VramReads(run, vram)
        /\ ~AllAre(run'.items, "w")
    BY <1>2, <1>3, <1>10, <1>11, <2>1, VramFinds
  <2>3. /\ vram'.prefetch = (IF it.half = VHalf(vram) /\ w < VramWords THEN Word(vram.mem, w) ELSE vram.prefetch)
        /\ it.val = IF it.half = 0 THEN vram.prefetch % 256 ELSE vram.prefetch \div 256
    BY <1>2, <1>7 DEF val
  <2>4. w = Translated(vram.remap, vram.addr) BY DEF w
  <2>5. AllAre(run'.items, "r") => VramReads(run', vram') BY <1>2, <1>4, <1>7, <2>2, <2>3, <2>4, VramReadMore
  <2> QED BY <2>2, <2>5 DEF VramRun
<1> QED BY <1>8, <1>9, <1>11 DEF VramInv

\* VMADDL and VMADDH.
LEMMA VramAddressed ==
  ASSUME Common, VramInv, NEW half, half \in {0, 1}, NEW v, v \in Uint8, WriteVmadd(half, v)
  PROVE  VramInv' /\ IsRun(run') /\ Touched("vram", run, run')
<1> DEFINE a == IF half = 0 THEN (vram.addr - (vram.addr % 256)) + v ELSE (vram.addr % 256) + 256 * v
           u == [vram EXCEPT !.addr = IF half = 0 THEN (@ - (@ % 256)) + v ELSE (@ % 256) + 256 * v]
           w == Translated(vram.remap, a)
<1>1. IsVram(vram) BY DEF VramInv
<1>2. vram.addr \in Int /\ 0 <= vram.addr /\ vram.addr < 65536 BY <1>1, Ranges DEF IsVram
<1>3. v \in Int /\ 0 <= v /\ v < 256 BY Bytes
<1>4. a \in Below(65536)
  <2>1. CASE half = 0
    <3>1. LET p == vram.addr - (vram.addr % 256) IN p \in Int /\ 0 <= p /\ p <= 65280 BY <1>2, SMT
    <3>2. a = (vram.addr - (vram.addr % 256)) + v BY <2>1
    <3> HIDE DEF a
    <3> QED BY <1>3, <3>1, <3>2, Ranges, SMT
  <2>2. CASE half = 1
    <3>1. LET p == vram.addr % 256 IN p \in Int /\ 0 <= p /\ p < 256 BY <1>2, SMT
    <3>2. a = (vram.addr % 256) + 256 * v BY <2>2
    <3> HIDE DEF a
    <3> QED BY <1>3, <3>1, <3>2, Ranges, SMT
  <2> QED BY <2>1, <2>2
<1>5. /\ DOMAIN u = {"mem", "addr", "vmain", "remap", "prefetch"} /\ u.mem = vram.mem /\ u.addr = a
      /\ u.vmain = vram.vmain /\ u.remap = vram.remap /\ u.prefetch = vram.prefetch
  BY <1>1 DEF IsVram
<1>6. vram' = Fetched(u) /\ Begins("vram", vram'.addr, vram.mem, run') BY DEF WriteVmadd, Begin, Begins
<1> HIDE DEF u, a
<1>7. /\ DOMAIN vram' = {"mem", "addr", "vmain", "remap", "prefetch"} /\ vram'.mem = vram.mem /\ vram'.addr = a
      /\ vram'.vmain = vram.vmain /\ vram'.remap = vram.remap
      /\ vram'.prefetch = (IF w < VramWords THEN Word(vram.mem, w) ELSE vram.prefetch)
  BY <1>5, <1>6 DEF Fetched
<1>8. w \in Int /\ 0 <= w
  <2>1. w \in Below(65536) BY <1>1, <1>4, Translates DEF IsVram
  <2> QED BY <2>1, Ranges
<1>9. IsVram(vram')
  <2>1. Word(vram.mem, w) \in Below(65536) BY <1>1, <1>8, WordIs DEF IsVram
  <2> HIDE DEF w
  <2> QED BY <1>1, <1>4, <1>7, <2>1 DEF IsVram
<1>10. run'.start = vram'.addr /\ run'.before = vram'.mem /\ run'.items = <<>> /\ IsRun(run') /\ run'.unit = "vram"
  BY <1>6, <1>7, Begun, SMT
<1>11. Translated(vram'.remap, vram'.addr) < VramWords =>
      vram'.prefetch = Word(vram'.mem, Translated(vram'.remap, vram'.addr))
  BY <1>7
<1>12. VramRun(run', vram') BY <1>9, <1>10, <1>11, VramBegins
<1> QED BY <1>9, <1>10, <1>12 DEF VramInv, Touched

\* Every access to VRAM keeps its invariant; VMAIN breaks the run.
LEMMA VramStepped ==
  ASSUME Common, VramInv, VramPort PROVE VramInv' /\ IsRun(run') /\ Touched("vram", run, run')
<1>1. ASSUME NEW v \in Written("VMAIN"), WriteVmain(v)
      PROVE  VramInv' /\ IsRun(run') /\ Touched("vram", run, run')
  <2>1. v \in Int /\ 0 <= v /\ v < 256 BY WrittenIs, Bytes DEF Common
  <2>2. IsVram(vram) /\ IsRun(run) BY DEF Common, VramInv
  <2>3. /\ DOMAIN vram' = {"mem", "addr", "vmain", "remap", "prefetch"} /\ vram'.mem = vram.mem /\ vram'.addr = vram.addr
        /\ vram'.vmain = 128 * (v \div 128) + (v % 4) /\ vram'.remap = (v \div 4) % 4 /\ vram'.prefetch = vram.prefetch
    BY <1>1, <2>2 DEF WriteVmain, IsVram
  <2>4. v \div 128 \in {0, 1} /\ v % 4 \in {0, 1, 2, 3} /\ (v \div 4) % 4 \in {0, 1, 2, 3} BY <2>1
  <2>5. vram'.vmain \in Uint8 /\ vram'.remap \in Below(4)
    <3>1. vram'.vmain \in Int /\ 0 <= vram'.vmain /\ vram'.vmain < 256 BY <2>3, <2>4
    <3>2. vram'.remap \in Int /\ 0 <= vram'.remap /\ vram'.remap < 4 BY <2>3, <2>4
    <3> QED BY <3>1, <3>2, Bytes, Ranges
  <2>6. IsVram(vram') BY <2>2, <2>3, <2>5 DEF IsVram
  <2>7. Breaks("vram", run, run') BY <1>1 DEF WriteVmain, Broken, Breaks
  <2>8. IsRun(run') /\ Touched("vram", run, run') /\ ~Running("vram", run') BY <2>2, <2>7, Broke, SMT
  <2> QED BY <2>6, <2>8 DEF VramInv
<1>2. ASSUME NEW half \in 0..1, NEW v \in Written(VmaddReg[half + 1]), WriteVmadd(half, v)
      PROVE  VramInv' /\ IsRun(run') /\ Touched("vram", run, run')
  <2>1. half \in {0, 1} OBVIOUS
  <2>2. VmaddReg[half + 1] # "scanline" BY DEF VmaddReg
  <2>3. v \in Uint8 BY <2>2, WrittenIs DEF Common
  <2> QED BY <1>2, <2>1, <2>3, VramAddressed
<1>3. ASSUME NEW half \in 0..1, WriteVmdata(half) \/ ReadVmdata(half)
      PROVE  VramInv' /\ IsRun(run') /\ Touched("vram", run, run')
  <2>1. half \in {0, 1} OBVIOUS
  <2>2. CASE WriteVmdata(half) BY <2>1, <2>2, VramWritten, Zenon
  <2>3. CASE ReadVmdata(half) BY <2>1, <2>3, VramRead, Zenon
  <2> QED BY <1>3, <2>2, <2>3
<1> QED BY <1>1, <1>2, <1>3 DEF VramPort

-----------------------------------------------------------------------------
(* The V counter.                                                          *)

Half(line, i) == IF i % 2 = 1 THEN line % 256 ELSE line \div 256

CounterRun(r, opvct, waiting) ==
  /\ r.start = opvct /\ waiting = Len(r.items) % 2
  /\ \A i \in 1..Len(r.items) : r.items[i].val = Half(r.start, i)

CounterInv ==
  /\ DOMAIN counter = {"scanline", "opvct", "flipflop"}
  /\ counter.scanline \in Uint16 /\ counter.opvct \in Uint16 /\ counter.flipflop \in BOOLEAN
  /\ Running("counter", run) => CounterRun(run, counter.opvct, Flag(counter.flipflop))

\* A latched counter begins an empty run, with the low half next.
LEMMA CounterBegins ==
  ASSUME NEW r, NEW line, r.start = line, r.items = <<>> PROVE CounterRun(r, line, 0)
<1> DEFINE n == Len(r.items)
<1>1. n = 0 OBVIOUS
<1> HIDE DEF n
<1>2. n % 2 = 0 /\ 1..n = {} BY <1>1
<1> QED BY <1>2 DEF CounterRun, n

\* One more half read.
LEMMA CounterMore ==
  ASSUME NEW r, NEW r2, NEW it, NEW opvct, NEW w, IsRun(r), it \in Item, Extended(r, it, r2), CounterRun(r, opvct, w),
         it.val = IF w = 1 THEN opvct \div 256 ELSE opvct % 256
  PROVE  w \in {0, 1} /\ CounterRun(r2, opvct, 1 - w)
<1> DEFINE n == Len(r.items)
<1>1. r.items \in Seq(Item) /\ r2.items = Append(r.items, it) /\ r2.start = r.start BY DEF IsRun, Extended
<1>2. n \in Nat /\ Len(r2.items) = n + 1 /\ r2.items[n + 1] = it /\ \A i \in 1..n : r2.items[i] = r.items[i]
  BY <1>1, Longer
<1>3. r.start = opvct /\ w = n % 2 /\ \A i \in 1..n : r.items[i].val = Half(r.start, i) BY DEF CounterRun
<1> HIDE DEF n
<1>4. w \in {0, 1} /\ (n + 1) % 2 = 1 - w
  <2>1. (n % 2 = 0 \/ n % 2 = 1) /\ ((n + 1) % 2) = 1 - (n % 2) BY <1>2, SMT
  <2> QED BY <1>3, <2>1
<1>5. it.val = Half(r.start, n + 1) BY <1>3, <1>4 DEF Half
<1>6. ASSUME NEW i \in 1..n+1 PROVE r2.items[i].val = Half(r.start, i)
  <2>1. i \in 1..n \/ i = n + 1 BY <1>2
  <2> QED BY <1>2, <1>3, <1>5, <2>1
<1> QED BY <1>1, <1>2, <1>3, <1>4, <1>6 DEF CounterRun

\* SLHV and STAT78.
LEMMA CounterBegun ==
  ASSUME Begins("counter", counter'.opvct, Untouched, run'), DOMAIN counter' = {"scanline", "opvct", "flipflop"},
         counter'.scanline \in Uint16, counter'.opvct \in Uint16, counter'.flipflop = FALSE
  PROVE  CounterInv' /\ IsRun(run') /\ Touched("counter", run, run')
<1>1. run'.start = counter'.opvct /\ run'.items = <<>> /\ IsRun(run') /\ run'.unit = "counter" BY Begun, SMT
<1>2. CounterRun(run', counter'.opvct, 0) BY <1>1, CounterBegins
<1>3. Flag(counter'.flipflop) = 0 BY DEF Flag
<1>4. CounterRun(run', counter'.opvct, Flag(counter'.flipflop)) BY <1>2, <1>3, Zenon
<1>5. counter'.flipflop \in BOOLEAN OBVIOUS
<1>6. CounterInv' BY <1>4, <1>5 DEF CounterInv
<1> QED BY <1>1, <1>6 DEF Touched

\* Every access to the counter keeps its invariant, wherever the beam goes.
LEMMA CounterStepped ==
  ASSUME Common, CounterInv, CounterPort PROVE CounterInv' /\ IsRun(run') /\ Touched("counter", run, run')
<1>0. /\ DOMAIN counter = {"scanline", "opvct", "flipflop"} /\ IsRun(run)
      /\ counter.scanline \in Uint16 /\ counter.opvct \in Uint16 /\ counter.flipflop \in BOOLEAN
  BY DEF CounterInv, Common
<1>1. Flag(FALSE) = 0 /\ Flag(TRUE) = 1 BY DEF Flag
<1>2. ASSUME NEW line \in Written("scanline"), SetScanline(line)
      PROVE  CounterInv' /\ IsRun(run') /\ Touched("counter", run, run')
  <2>1. line \in Uint16 BY WrittenIs DEF Common
  <2>2. /\ DOMAIN counter' = {"scanline", "opvct", "flipflop"} /\ counter'.scanline = line
        /\ counter'.opvct = counter.opvct /\ counter'.flipflop = counter.flipflop /\ run' = run
    BY <1>0, <1>2 DEF SetScanline
  <2>3. Running("counter", run') => CounterRun(run', counter'.opvct, Flag(counter'.flipflop))
    BY <2>2 DEF CounterInv
  <2> QED BY <1>0, <2>1, <2>2, <2>3 DEF CounterInv, Touched
<1>3. CASE ReadSlhv
  <2>1. /\ DOMAIN counter' = {"scanline", "opvct", "flipflop"} /\ counter'.scanline = counter.scanline
        /\ counter'.opvct = counter.scanline /\ counter'.flipflop = FALSE
    BY <1>0, <1>3 DEF ReadSlhv
  <2>2. Begins("counter", counter.scanline, Untouched, run') BY <1>3 DEF ReadSlhv, Begin, Begins
  <2>3. Begins("counter", counter'.opvct, Untouched, run') BY <2>1, <2>2
  <2>4. counter'.scanline \in Uint16 /\ counter'.opvct \in Uint16 BY <1>0, <2>1
  <2> QED BY <2>1, <2>3, <2>4, CounterBegun
<1>5. CASE ReadStat78
  <2>1. /\ DOMAIN counter' = {"scanline", "opvct", "flipflop"} /\ counter'.scanline = counter.scanline
        /\ counter'.opvct = counter.opvct /\ counter'.flipflop = FALSE
    BY <1>0, <1>5 DEF ReadStat78
  <2>2. Begins("counter", counter.opvct, Untouched, run') BY <1>5 DEF ReadStat78, Begin, Begins
  <2>3. Begins("counter", counter'.opvct, Untouched, run') BY <2>1, <2>2
  <2>4. counter'.scanline \in Uint16 /\ counter'.opvct \in Uint16 BY <1>0, <2>1
  <2> QED BY <2>1, <2>3, <2>4, CounterBegun
<1>6. CASE ReadOpvct
  <2> DEFINE w == Flag(counter.flipflop)
             val == IF w = 1 THEN counter.opvct \div 256 ELSE counter.opvct % 256
             it == [op |-> "r", half |-> 0, val |-> val]
  <2>0. counter.flipflop = TRUE \/ counter.flipflop = FALSE BY <1>0
  <2>1. val \in Int
    <3>1. counter.opvct \in Int BY <1>0, Bytes
    <3> HIDE DEF w
    <3> QED BY <3>1
  <2>2. it \in Item /\ it.val = val BY <2>1 DEF Item
  <2>3. val = IF counter.flipflop THEN counter.opvct \div 256 ELSE counter.opvct % 256 BY <2>0 DEF Flag
  <2>4. Notes("counter", it, run, run')
    <3>1. Note("counter", "r", 0, val) BY <1>6, <2>3 DEF ReadOpvct
    <3> QED BY <3>1 DEF Note, Notes
  <2>5. /\ DOMAIN counter' = {"scanline", "opvct", "flipflop"} /\ counter'.scanline = counter.scanline
        /\ counter'.opvct = counter.opvct /\ counter'.flipflop = ~counter.flipflop
    BY <1>0, <1>6 DEF ReadOpvct
  <2> HIDE DEF it
  <2>6. IsRun(run') /\ Touched("counter", run, run') BY <1>0, <2>2, <2>4, Noted, SMT
  <2>7. Flag(counter'.flipflop) = 1 - w
    <3>1. CASE counter.flipflop = TRUE
      <4>1. counter'.flipflop = FALSE BY <2>5, <3>1
      <4> QED BY <3>1, <4>1 DEF Flag
    <3>2. CASE counter.flipflop = FALSE
      <4>1. counter'.flipflop = TRUE BY <2>5, <3>2
      <4> QED BY <3>2, <4>1 DEF Flag
    <3> QED BY <2>0, <3>1, <3>2
  <2>8. ASSUME Running("counter", run') PROVE CounterRun(run', counter'.opvct, Flag(counter'.flipflop))
    <3>1. Running("counter", run) /\ Extended(run, it, run') BY <1>0, <2>2, <2>4, <2>8, Noted, SMT
    <3>2. CounterRun(run, counter.opvct, w) BY <3>1 DEF CounterInv
    <3>3. it.val = IF w = 1 THEN counter.opvct \div 256 ELSE counter.opvct % 256 BY <2>2
    <3> HIDE DEF w, val
    <3>4. CounterRun(run', counter.opvct, 1 - w) BY <1>0, <2>2, <3>1, <3>2, <3>3, CounterMore
    <3> QED BY <2>5, <2>7, <3>4
  <2>9. counter'.flipflop \in BOOLEAN BY <2>0, <2>5
  <2>10. CounterInv' BY <1>0, <2>5, <2>8, <2>9 DEF CounterInv
  <2> QED BY <2>6, <2>10
<1> QED BY <1>2, <1>3, <1>5, <1>6 DEF CounterPort

-----------------------------------------------------------------------------
(* The joypad.                                                             *)

Bit(buttons, i) == IF i > 16 \/ 16 - i \in buttons THEN 1 ELSE 0

PadRun(r, latched, index) ==
  /\ r.start = latched /\ index = IF Len(r.items) < 16 THEN Len(r.items) ELSE 16
  /\ \A i \in 1..Len(r.items) : r.items[i].val = Bit(r.start, i)

PadInv ==
  /\ DOMAIN pad = {"current", "latched", "index", "strobe"} /\ pad.index \in 0..16
  /\ Running("pad", run) => PadRun(run, pad.latched, pad.index)

\* One more bit read.
LEMMA PadMore ==
  ASSUME NEW r, NEW r2, NEW it, NEW latched, NEW index,
         IsRun(r), it \in Item, Extended(r, it, r2), PadRun(r, latched, index),
         it.val = IF index >= 16 \/ 15 - index \in latched THEN 1 ELSE 0
  PROVE  PadRun(r2, latched, IF index < 16 THEN index + 1 ELSE index)
<1> DEFINE n == Len(r.items)
<1>1. r.items \in Seq(Item) /\ r2.items = Append(r.items, it) /\ r2.start = r.start BY DEF IsRun, Extended
<1>2. n \in Nat /\ Len(r2.items) = n + 1 /\ r2.items[n + 1] = it /\ \A i \in 1..n : r2.items[i] = r.items[i]
  BY <1>1, Longer
<1>3. r.start = latched /\ index = (IF n < 16 THEN n ELSE 16) /\ \A i \in 1..n : r.items[i].val = Bit(r.start, i)
  BY DEF PadRun
<1> HIDE DEF n
<1>4. it.val = Bit(r.start, n + 1)
  <2>1. CASE n < 16
    <3>1. 15 - index = 16 - (n + 1) /\ ~(index >= 16) /\ ~(n + 1 > 16) BY <1>2, <1>3, <2>1
    <3> QED BY <1>3, <3>1 DEF Bit
  <2>2. CASE n >= 16
    <3>1. index >= 16 /\ n + 1 > 16 BY <1>2, <1>3, <2>2
    <3> QED BY <3>1 DEF Bit
  <2> QED BY <1>2, <2>1, <2>2
<1>5. (IF index < 16 THEN index + 1 ELSE index) = IF n + 1 < 16 THEN n + 1 ELSE 16 BY <1>2, <1>3
<1>6. ASSUME NEW i \in 1..n+1 PROVE r2.items[i].val = Bit(r.start, i)
  <2>1. i \in 1..n \/ i = n + 1 BY <1>2
  <2> QED BY <1>2, <1>3, <1>4, <2>1
<1> QED BY <1>1, <1>2, <1>3, <1>5, <1>6 DEF PadRun

\* Every access to the joypad keeps its invariant, whatever the host presses.
LEMMA PadStepped ==
  ASSUME Common, PadInv, PadPort PROVE PadInv' /\ IsRun(run') /\ Touched("pad", run, run')
<1>0. DOMAIN pad = {"current", "latched", "index", "strobe"} /\ pad.index \in 0..16 /\ IsRun(run)
  BY DEF PadInv, Common
<1>1. ASSUME NEW b \in Buttons, NEW pressed \in BOOLEAN, SetButton(b, pressed)
      PROVE  PadInv' /\ IsRun(run') /\ Touched("pad", run, run')
  <2>1. /\ DOMAIN pad' = {"current", "latched", "index", "strobe"} /\ pad'.latched = pad.latched
        /\ pad'.index = pad.index /\ run' = run
    BY <1>0, <1>1 DEF SetButton
  <2> QED BY <1>0, <2>1 DEF PadInv, Touched
<1>2. ASSUME NEW new \in BOOLEAN, WriteStrobe(new)
      PROVE  PadInv' /\ IsRun(run') /\ Touched("pad", run, run')
  <2>1. CASE pad.strobe /\ ~new
    <3>1. /\ DOMAIN pad' = {"current", "latched", "index", "strobe"} /\ pad'.latched = pad.current
          /\ pad'.index = 0 /\ Begins("pad", pad.current, Untouched, run')
      BY <1>0, <1>2, <2>1 DEF WriteStrobe, Begin, Begins
    <3>2. run'.start = pad.current /\ run'.items = <<>> /\ IsRun(run') /\ run'.unit = "pad" BY <3>1, Begun, SMT
    <3>3. PadRun(run', pad'.latched, pad'.index)
      <4>1. Len(run'.items) = 0 BY <3>2
      <4>2. 1..Len(run'.items) = {} BY <4>1
      <4> QED BY <3>1, <3>2, <4>1, <4>2 DEF PadRun
    <3> QED BY <3>1, <3>2, <3>3 DEF PadInv, Touched
  <2>2. CASE ~(pad.strobe /\ ~new)
    <3>1. /\ DOMAIN pad' = {"current", "latched", "index", "strobe"} /\ pad'.latched = pad.latched
          /\ pad'.index = pad.index
      BY <1>0, <1>2, <2>2 DEF WriteStrobe
    <3>2. Breaks("pad", run, run') \/ run' = run BY <1>2, <2>2 DEF WriteStrobe, Broken, Breaks
    <3>3. CASE Breaks("pad", run, run')
      <4>1. IsRun(run') /\ Touched("pad", run, run') /\ ~Running("pad", run') BY <1>0, <3>3, Broke, SMT
      <4> QED BY <1>0, <3>1, <4>1 DEF PadInv
    <3>4. CASE run' = run BY <1>0, <3>1, <3>4 DEF PadInv, Touched
    <3> QED BY <3>2, <3>3, <3>4
  <2> QED BY <2>1, <2>2
<1>3. CASE ReadSerial
  <2> DEFINE val == IF pad.index >= 16 \/ 15 - pad.index \in pad.latched THEN 1 ELSE 0
             it == [op |-> "r", half |-> 0, val |-> val]
  <2>1. it \in Item /\ it.val = val
    <3>1. val \in Int OBVIOUS
    <3> QED BY <3>1 DEF Item
  <2>2. Notes("pad", it, run, run') BY <1>3 DEF ReadSerial, Note, Notes
  <2>3. /\ DOMAIN pad' = {"current", "latched", "index", "strobe"} /\ pad'.latched = pad.latched
        /\ pad'.index = IF pad.index < 16 THEN pad.index + 1 ELSE pad.index
    BY <1>0, <1>3 DEF ReadSerial
  <2> HIDE DEF it
  <2>4. IsRun(run') /\ Touched("pad", run, run') BY <1>0, <2>1, <2>2, Noted, SMT
  <2>5. ASSUME Running("pad", run') PROVE PadRun(run', pad'.latched, pad'.index)
    <3>1. Running("pad", run) /\ Extended(run, it, run') BY <1>0, <2>1, <2>2, <2>5, Noted, SMT
    <3>2. PadRun(run, pad.latched, pad.index) BY <3>1 DEF PadInv
    <3>3. it.val = IF pad.index >= 16 \/ 15 - pad.index \in pad.latched THEN 1 ELSE 0 BY <2>1
    <3>4. PadRun(run', pad.latched, IF pad.index < 16 THEN pad.index + 1 ELSE pad.index)
      BY <1>0, <2>1, <3>1, <3>2, <3>3, PadMore
    <3> QED BY <2>3, <3>4
  <2>6. pad'.index \in 0..16 BY <1>0, <2>3
  <2> QED BY <2>3, <2>4, <2>5, <2>6 DEF PadInv
<1> QED BY <1>1, <1>2, <1>3 DEF PadPort

-----------------------------------------------------------------------------
(* The scroll and Mode 7 registers.                                        *)

Writes(regs) == Seq([reg : regs, val : Uint8])

Latest(p) == p[Len(p)]

\* A latch holds the value last written through it.
Latched(p, latch) == Len(p) >= 1 => latch = Latest(p).val

HofsLatched(p, latch) == Len(p) >= 1 /\ Latest(p).reg \in Horizontal => latch = Latest(p).val

Mode7Of(reg, raw) == IF reg \in Wide THEN Signed16(raw) ELSE Signed13(raw)

ScrollExact(p, regs) ==
  Len(p) = 2 /\ p[1].reg = p[2].reg => regs[p[2].reg] = 256 * p[2].val + p[1].val
Mode7Exact(p, regs) ==
  Len(p) = 2 /\ p[1].reg = p[2].reg => regs[p[2].reg] = Mode7Of(p[2].reg, 256 * p[2].val + p[1].val)

ScrollPairs(p, regs, latch, hofsLatch) ==
  /\ p \in Writes(ScrollRegs) /\ Len(p) <= 2
  /\ Latched(p, latch) /\ HofsLatched(p, hofsLatch) /\ ScrollExact(p, regs)

Mode7Pairs(p, regs, latch) ==
  p \in Writes(Mode7Regs) /\ Len(p) <= 2 /\ Latched(p, latch) /\ Mode7Exact(p, regs)

ScrollInv ==
  /\ DOMAIN scroll = {"regs", "latch", "hofsLatch", "m7Latch"} /\ DOMAIN pairs = {"scroll", "m7"}
  /\ DOMAIN scroll.regs = ScrollRegs \cup Mode7Regs
  /\ ScrollPairs(pairs.scroll, scroll.regs, scroll.latch, scroll.hofsLatch)
  /\ Mode7Pairs(pairs.m7, scroll.regs, scroll.m7Latch)

\* q is p and then w.
Joins(T, p, w, q, n) == q \in Seq(T) /\ Len(q) = n + 1 /\ q[n + 1] = w /\ \A i \in 1..n : q[i] = p[i]

\* Append, element by element.
LEMMA Appended ==
  ASSUME NEW T, NEW p, NEW w, NEW q, NEW n, p \in Seq(T), w \in T, q = Append(p, w), n = Len(p)
  PROVE  Joins(T, p, w, q, n)
<1>1. Append(p, w) \in Seq(T) /\ Len(Append(p, w)) = Len(p) + 1 OBVIOUS
<1>2. \A i \in 1..Len(p) : Append(p, w)[i] = p[i] OBVIOUS
<1>3. Append(p, w)[Len(p) + 1] = w OBVIOUS
<1> QED BY <1>1, <1>2, <1>3, Zenon DEF Joins

\* A second element.
LEMMA Joined ==
  ASSUME NEW T, NEW p \in Seq(T), NEW w \in T, Len(p) = 1
  PROVE  Append(p, w) \in Seq(T) /\ Len(Append(p, w)) = 2 /\ Append(p, w)[1] = p[1] /\ Append(p, w)[2] = w
<1> DEFINE q == Append(p, w)
           n == Len(p)
<1>1. q = Append(p, w) /\ n = Len(p) OBVIOUS
<1>2. n = 1 OBVIOUS
<1> HIDE DEF q, n
<1>3. Joins(T, p, w, q, n) BY <1>1, Appended
<1>4. n + 1 = 2 /\ 1 \in 1..n BY <1>2
<1> QED BY <1>3, <1>4 DEF Joins, q

\* One or two is at most two.
LEMMA AtMost == ASSUME NEW n, n = 1 \/ n = 2 PROVE n <= 2
OBVIOUS

\* A write pushes the one before it out of the pair's second place.
LEMMA PairIs ==
  ASSUME NEW S, NEW p, NEW reg, NEW v, NEW q,
         p \in Writes(S), reg \in S, v \in Uint8, Len(p) <= 2, q = Pair(p, reg, v)
  PROVE  /\ q \in Writes(S) /\ (Len(q) = 1 \/ Len(q) = 2) /\ Latest(q).reg = reg /\ Latest(q).val = v
         /\ Len(q) = 2 => Len(p) >= 1 /\ q[1] = Latest(p) /\ q[2].reg = reg /\ q[2].val = v
<1> DEFINE w == [reg |-> reg, val |-> v]
           T == [reg : S, val : Uint8]
<1>1. w \in T /\ w.reg = reg /\ w.val = v OBVIOUS
<1>2. p \in Seq(T) /\ q = Append(IF Len(p) < 2 THEN p ELSE Tail(p), w) BY DEF Writes, Pair
<1> HIDE DEF w, T
<1>3. CASE Len(p) = 0
  <2>1. q = Append(p, w) BY <1>2, <1>3
  <2>2. q \in Seq(T) /\ Len(q) = 1 /\ q[1] = w BY <1>1, <1>2, <1>3, <2>1
  <2> QED BY <1>1, <2>2 DEF Latest, Writes, T
<1>4. CASE Len(p) = 1
  <2>1. q = Append(p, w) BY <1>2, <1>4
  <2>2. q \in Seq(T) /\ Len(q) = 2 /\ q[2] = w /\ q[1] = p[1] BY <1>1, <1>2, <1>4, <2>1, Joined
  <2> QED BY <1>1, <1>4, <2>2 DEF Latest, Writes, T
<1>5. CASE Len(p) = 2
  <2>1. q = Append(Tail(p), w) BY <1>2, <1>5
  <2>2. Tail(p) \in Seq(T) /\ Len(Tail(p)) = 1 /\ Tail(p)[1] = p[2]
    <3>1. p \in Seq(T) /\ p # <<>> BY <1>2, <1>5
    <3>2. Tail(p) \in Seq(T) /\ Len(Tail(p)) = Len(p) - 1 /\ \A i \in 1..Len(Tail(p)) : Tail(p)[i] = p[i + 1]
      BY <3>1, HeadTailProperties
    <3>3. Len(Tail(p)) = 1 BY <1>5, <3>2
    <3>4. 1 \in 1..Len(Tail(p)) /\ 1 + 1 = 2 BY <3>3
    <3>5. Tail(p)[1] = p[1 + 1] BY <3>2, <3>4
    <3> QED BY <3>2, <3>3, <3>4, <3>5
  <2>3. q \in Seq(T) /\ Len(q) = 2 /\ q[2] = w /\ q[1] = p[2]
    <3> DEFINE t == Tail(p)
    <3>1. t \in Seq(T) /\ Len(t) = 1 /\ t[1] = p[2] /\ q = Append(t, w) BY <2>1, <2>2
    <3> HIDE DEF t
    <3> QED BY <1>1, <3>1, Joined
  <2> QED BY <1>1, <1>5, <2>3 DEF Latest, Writes, T
<1>6. Len(p) = 0 \/ Len(p) = 1 \/ Len(p) = 2
  <2> DEFINE n == Len(p)
  <2>1. n \in Nat /\ n <= 2 BY <1>2
  <2> HIDE DEF n
  <2>2. n = 0 \/ n = 1 \/ n = 2 BY <2>1
  <2> QED BY <2>2 DEF n
<1> QED BY <1>3, <1>4, <1>5, <1>6

\* The elements of a pair are a register and a byte.
LEMMA Second ==
  ASSUME NEW S, NEW p, p \in Writes(S)
  PROVE  (Len(p) >= 1 => Latest(p).val \in Uint8) /\ (Len(p) = 2 => p[2].reg \in S)
<1>1. p \in Seq([reg : S, val : Uint8]) BY DEF Writes
<1>2. Len(p) \in Nat BY <1>1
<1>3. Len(p) >= 1 => Len(p) \in 1..Len(p) BY <1>2
<1>4. \A i \in 1..Len(p) : p[i] \in [reg : S, val : Uint8] BY <1>1, ElementOfSeq
<1>5. Len(p) = 2 => 2 \in 1..Len(p) BY <1>2
<1>6. \A i \in 1..Len(p) : p[i].reg \in S /\ p[i].val \in Uint8 BY <1>4
<1> QED BY <1>3, <1>5, <1>6 DEF Latest

\* A write to a scroll register: the halves before it are in the latches it uses.
LEMMA ScrollMore ==
  ASSUME NEW p, NEW regs, NEW latch, NEW hofsLatch, NEW reg, NEW v, NEW regs2, NEW hofsLatch2,
         ScrollPairs(p, regs, latch, hofsLatch), reg \in ScrollRegs, v \in Uint8,
         regs2[reg] = IF reg \in Horizontal THEN 256 * v + (latch - (latch % 8)) + (hofsLatch % 8) ELSE 256 * v + latch,
         hofsLatch2 = IF reg \in Horizontal THEN v ELSE hofsLatch
  PROVE  ScrollPairs(Pair(p, reg, v), regs2, v, hofsLatch2)
<1> DEFINE q == Pair(p, reg, v)
<1>1. p \in Writes(ScrollRegs) /\ Len(p) <= 2 BY DEF ScrollPairs
<1>2. /\ q \in Writes(ScrollRegs) /\ (Len(q) = 1 \/ Len(q) = 2) /\ Latest(q).reg = reg /\ Latest(q).val = v
      /\ Len(q) = 2 => Len(p) >= 1 /\ q[1] = Latest(p) /\ q[2].reg = reg /\ q[2].val = v
  BY <1>1, PairIs
<1> HIDE DEF q
<1>3. ASSUME Len(q) = 2, q[1].reg = q[2].reg PROVE regs2[q[2].reg] = 256 * q[2].val + q[1].val
  <2>1. Len(p) >= 1 /\ q[1] = Latest(p) /\ q[2].reg = reg /\ q[2].val = v BY <1>2, <1>3
  <2>2. latch = q[1].val BY <2>1 DEF ScrollPairs, Latched
  <2>3. latch \in Int
    <3>1. Latest(p).val \in Uint8 BY <1>1, <2>1, Second
    <3> QED BY <2>1, <2>2, <3>1, Bytes
  <2>4. CASE reg \in Horizontal
    <3>1. hofsLatch = latch BY <1>3, <2>1, <2>2, <2>4 DEF ScrollPairs, HofsLatched
    <3>2. regs2[reg] = 256 * v + (latch - (latch % 8)) + (latch % 8) BY <2>4, <3>1
    <3>3. v \in Int /\ (latch % 8) \in Int BY <2>3, Bytes
    <3>4. regs2[reg] = 256 * v + latch BY <2>3, <3>2, <3>3
    <3> QED BY <2>1, <2>2, <3>4
  <2>5. CASE reg \notin Horizontal BY <2>1, <2>2, <2>5
  <2> QED BY <2>4, <2>5
<1>4. Latched(q, v) BY <1>2 DEF Latched
<1>5. HofsLatched(q, hofsLatch2) BY <1>2 DEF HofsLatched
<1>6. Len(q) <= 2 BY <1>2, AtMost
<1>7. ScrollPairs(q, regs2, v, hofsLatch2) BY <1>2, <1>3, <1>4, <1>5, <1>6 DEF ScrollPairs, ScrollExact
<1> QED BY <1>7 DEF q

\* A write to a Mode 7 register.
LEMMA Mode7More ==
  ASSUME NEW p, NEW regs, NEW latch, NEW reg, NEW v, NEW regs2,
         Mode7Pairs(p, regs, latch), reg \in Mode7Regs, v \in Uint8,
         regs2[reg] = Mode7Of(reg, 256 * v + latch)
  PROVE  Mode7Pairs(Pair(p, reg, v), regs2, v)
<1> DEFINE q == Pair(p, reg, v)
<1>1. p \in Writes(Mode7Regs) /\ Len(p) <= 2 BY DEF Mode7Pairs
<1>2. /\ q \in Writes(Mode7Regs) /\ (Len(q) = 1 \/ Len(q) = 2) /\ Latest(q).reg = reg /\ Latest(q).val = v
      /\ Len(q) = 2 => Len(p) >= 1 /\ q[1] = Latest(p) /\ q[2].reg = reg /\ q[2].val = v
  BY <1>1, PairIs
<1> HIDE DEF q
<1>3. ASSUME Len(q) = 2 PROVE regs2[q[2].reg] = Mode7Of(q[2].reg, 256 * q[2].val + q[1].val)
  <2>1. Len(p) >= 1 /\ q[1] = Latest(p) /\ q[2].reg = reg /\ q[2].val = v BY <1>2, <1>3
  <2>2. latch = q[1].val BY <2>1 DEF Mode7Pairs, Latched
  <2> QED BY <2>1, <2>2
<1>4. Latched(q, v) BY <1>2 DEF Latched
<1>5. Len(q) <= 2 BY <1>2, AtMost
<1>6. Mode7Pairs(q, regs2, v) BY <1>2, <1>3, <1>4, <1>5 DEF Mode7Pairs, Mode7Exact
<1> QED BY <1>6 DEF q

\* Writes to other registers.
LEMMA ScrollSame ==
  ASSUME NEW p, NEW regs, NEW latch, NEW hofsLatch, NEW regs2,
         ScrollPairs(p, regs, latch, hofsLatch), \A s \in ScrollRegs : regs2[s] = regs[s]
  PROVE  ScrollPairs(p, regs2, latch, hofsLatch)
<1>1. Len(p) = 2 => p[2].reg \in ScrollRegs BY Second DEF ScrollPairs
<1> QED BY <1>1 DEF ScrollPairs, ScrollExact

\* Writes to other registers.
LEMMA Mode7Same ==
  ASSUME NEW p, NEW regs, NEW latch, NEW regs2,
         Mode7Pairs(p, regs, latch), \A s \in Mode7Regs : regs2[s] = regs[s]
  PROVE  Mode7Pairs(p, regs2, latch)
<1>1. Len(p) = 2 => p[2].reg \in Mode7Regs BY Second DEF Mode7Pairs
<1> QED BY <1>1 DEF Mode7Pairs, Mode7Exact

\* The two kinds of registers are apart, but for BG1's and their twins.
LEMMA Apart ==
  /\ ScrollRegs \cap Mode7Regs = {} /\ Horizontal \subseteq ScrollRegs /\ Wide \subseteq Mode7Regs
  /\ DOMAIN Mode7Twin = {"BG1HOFS", "BG1VOFS"} /\ \A reg \in DOMAIN Mode7Twin : Mode7Twin[reg] \in {"M7HOFS", "M7VOFS"}
  /\ {"M7HOFS", "M7VOFS"} \subseteq Mode7Regs /\ "scanline" \notin ScrollRegs \cup Mode7Regs
<1>1. ScrollRegs \cap Mode7Regs = {} /\ Horizontal \subseteq ScrollRegs BY DEF ScrollRegs, Mode7Regs, Horizontal
<1>2. Wide \subseteq Mode7Regs BY DEF Mode7Regs, Wide
<1>3. DOMAIN Mode7Twin = {"BG1HOFS", "BG1VOFS"} /\ \A reg \in DOMAIN Mode7Twin : Mode7Twin[reg] \in {"M7HOFS", "M7VOFS"}
  BY DEF Mode7Twin
<1>4. {"M7HOFS", "M7VOFS"} \subseteq Mode7Regs BY DEF Mode7Regs
<1>5. "scanline" \notin ScrollRegs /\ "scanline" \notin Mode7Regs BY DEF ScrollRegs, Mode7Regs
<1> QED BY <1>1, <1>2, <1>3, <1>4, <1>5

\* The value of a Mode 7 register, from its halves.
LEMMA Mode7ValueIs ==
  ASSUME NEW reg, NEW v PROVE Mode7Value(reg, v) = Mode7Of(reg, 256 * v + scroll.m7Latch)
BY DEF Mode7Value, Mode7Of

Fields == {"regs", "latch", "hofsLatch", "m7Latch"}

\* What a write to a scroll register leaves alone.
LEMMA AfterScrollIs ==
  ASSUME NEW s, NEW reg, NEW v, DOMAIN s = Fields, DOMAIN s.regs = ScrollRegs \cup Mode7Regs, reg \in ScrollRegs
  PROVE  LET t == AfterScroll(s, reg, v)
         IN  /\ DOMAIN t = Fields /\ DOMAIN t.regs = ScrollRegs \cup Mode7Regs
             /\ t.latch = v /\ t.m7Latch = s.m7Latch
             /\ t.hofsLatch = IF reg \in Horizontal THEN v ELSE s.hofsLatch
             /\ t.regs[reg] = Scrolled(reg, v)
             /\ \A r \in ScrollRegs \cup Mode7Regs : r # reg => t.regs[r] = s.regs[r]
BY DEF AfterScroll, Fields

\* What a write to a Mode 7 register leaves alone.
LEMMA AfterMode7Is ==
  ASSUME NEW s, NEW reg, NEW v, DOMAIN s = Fields, DOMAIN s.regs = ScrollRegs \cup Mode7Regs, reg \in Mode7Regs
  PROVE  LET t == AfterMode7(s, reg, v)
         IN  /\ DOMAIN t = Fields /\ DOMAIN t.regs = ScrollRegs \cup Mode7Regs
             /\ t.latch = s.latch /\ t.m7Latch = v /\ t.hofsLatch = s.hofsLatch
             /\ t.regs[reg] = Mode7Value(reg, v)
             /\ \A r \in ScrollRegs \cup Mode7Regs : r # reg => t.regs[r] = s.regs[r]
BY DEF AfterMode7, Fields

\* Every write to a register of two halves keeps the latches and the pairs in step.
LEMMA ScrollStepped ==
  ASSUME Common, ScrollInv, ScrollPort PROVE ScrollInv' /\ run' = run
<1>0. /\ DOMAIN scroll = Fields /\ DOMAIN pairs = {"scroll", "m7"}
      /\ DOMAIN scroll.regs = ScrollRegs \cup Mode7Regs
      /\ ScrollPairs(pairs.scroll, scroll.regs, scroll.latch, scroll.hofsLatch)
      /\ Mode7Pairs(pairs.m7, scroll.regs, scroll.m7Latch)
  BY DEF ScrollInv, Fields
<1>1. ASSUME NEW reg \in Mode7Regs \ {"M7HOFS", "M7VOFS"}, NEW v \in Written(reg), WriteMode7(reg, v)
      PROVE  ScrollInv' /\ run' = run
  <2>1. v \in Uint8 BY <1>1, WrittenIs, Apart DEF Common
  <2>2. scroll' = AfterMode7(scroll, reg, v) /\ run' = run BY <1>1 DEF WriteMode7
  <2>3. DOMAIN pairs' = {"scroll", "m7"} /\ pairs'.scroll = pairs.scroll /\ pairs'.m7 = Pair(pairs.m7, reg, v)
    BY <1>0, <1>1 DEF WriteMode7
  <2>4. /\ DOMAIN scroll' = Fields /\ DOMAIN scroll'.regs = ScrollRegs \cup Mode7Regs
        /\ scroll'.latch = scroll.latch /\ scroll'.m7Latch = v /\ scroll'.hofsLatch = scroll.hofsLatch
        /\ scroll'.regs[reg] = Mode7Value(reg, v)
        /\ \A r \in ScrollRegs \cup Mode7Regs : r # reg => scroll'.regs[r] = scroll.regs[r]
    BY <1>0, <1>1, <2>2, AfterMode7Is
  <2>5. Mode7Pairs(pairs'.m7, scroll'.regs, scroll'.m7Latch)
    BY <1>0, <1>1, <2>1, <2>3, <2>4, Mode7More, Mode7ValueIs
  <2>6. \A s \in ScrollRegs : scroll'.regs[s] = scroll.regs[s] BY <1>1, <2>4, Apart
  <2>7. ScrollPairs(pairs'.scroll, scroll'.regs, scroll'.latch, scroll'.hofsLatch)
    BY <1>0, <2>3, <2>4, <2>6, ScrollSame
  <2> QED BY <2>2, <2>3, <2>4, <2>5, <2>7 DEF ScrollInv, Fields
<1>2. ASSUME NEW reg \in ScrollRegs, NEW v \in Written(reg), WriteScroll(reg, v)
      PROVE  ScrollInv' /\ run' = run
  <2>1. v \in Uint8 /\ run' = run BY <1>2, WrittenIs, Apart DEF Common, WriteScroll
  <2> DEFINE t == AfterScroll(scroll, reg, v)
  <2>2. /\ DOMAIN t = Fields /\ DOMAIN t.regs = ScrollRegs \cup Mode7Regs
        /\ t.latch = v /\ t.m7Latch = scroll.m7Latch
        /\ t.hofsLatch = (IF reg \in Horizontal THEN v ELSE scroll.hofsLatch)
        /\ t.regs[reg] = Scrolled(reg, v)
        /\ \A r \in ScrollRegs \cup Mode7Regs : r # reg => t.regs[r] = scroll.regs[r]
    BY <1>0, <1>2, AfterScrollIs
  <2> HIDE DEF t
  <2>3. ScrollPairs(Pair(pairs.scroll, reg, v), t.regs, v, t.hofsLatch)
    BY <1>0, <1>2, <2>1, <2>2, ScrollMore DEF Scrolled
  <2>4. CASE reg \notin DOMAIN Mode7Twin
    <3>1. scroll' = t BY <1>2, <2>4 DEF WriteScroll, t
    <3>2. DOMAIN pairs' = {"scroll", "m7"} /\ pairs'.m7 = pairs.m7 /\ pairs'.scroll = Pair(pairs.scroll, reg, v)
      BY <1>0, <1>2, <2>4 DEF WriteScroll
    <3>3. \A s \in Mode7Regs : scroll'.regs[s] = scroll.regs[s] BY <1>2, <2>2, <3>1, Apart
    <3>4. Mode7Pairs(pairs'.m7, scroll'.regs, scroll'.m7Latch) BY <1>0, <2>2, <3>1, <3>2, <3>3, Mode7Same
    <3> QED BY <2>1, <2>2, <2>3, <3>1, <3>2, <3>4 DEF ScrollInv, Fields
  <2>5. CASE reg \in DOMAIN Mode7Twin
    <3> DEFINE twin == Mode7Twin[reg]
    <3>1. twin \in Mode7Regs /\ twin \notin ScrollRegs BY <2>5, Apart
    <3>2. scroll' = AfterMode7(t, twin, v) BY <1>2, <2>5 DEF WriteScroll, t
    <3>3. DOMAIN pairs' = {"scroll", "m7"} /\ pairs'.m7 = Pair(pairs.m7, twin, v)
          /\ pairs'.scroll = Pair(pairs.scroll, reg, v)
      BY <1>2, <2>5 DEF WriteScroll
    <3> HIDE DEF twin
    <3>4. /\ DOMAIN scroll' = Fields /\ DOMAIN scroll'.regs = ScrollRegs \cup Mode7Regs
          /\ scroll'.latch = t.latch /\ scroll'.m7Latch = v /\ scroll'.hofsLatch = t.hofsLatch
          /\ scroll'.regs[twin] = Mode7Value(twin, v)
          /\ \A r \in ScrollRegs \cup Mode7Regs : r # twin => scroll'.regs[r] = t.regs[r]
      BY <2>2, <3>1, <3>2, AfterMode7Is
    <3>5. Mode7Pairs(pairs'.m7, scroll'.regs, scroll'.m7Latch)
      BY <1>0, <2>1, <3>1, <3>3, <3>4, Mode7More, Mode7ValueIs
    <3>6. \A s \in ScrollRegs : scroll'.regs[s] = t.regs[s] BY <3>1, <3>4
    <3>7. ScrollPairs(pairs'.scroll, scroll'.regs, scroll'.latch, scroll'.hofsLatch)
      BY <2>2, <2>3, <3>3, <3>4, <3>6, ScrollSame
    <3> QED BY <2>1, <3>3, <3>4, <3>5, <3>7 DEF ScrollInv, Fields
  <2> QED BY <2>4, <2>5
<1> QED BY <1>1, <1>2 DEF ScrollPort

\* The pairs are exact: PairExact is a part of the invariant.
LEMMA ScrollPairExact == ASSUME ScrollInv PROVE PairExact
<1>1. ScrollExact(pairs.scroll, scroll.regs) BY DEF ScrollInv, ScrollPairs
<1>2. Mode7Exact(pairs.m7, scroll.regs) BY DEF ScrollInv, Mode7Pairs
<1> QED BY <1>1, <1>2 DEF PairExact, ScrollExact, Mode7Exact, Mode7Of

-----------------------------------------------------------------------------
(* What the invariants say of the blocks of data.                          *)

\* BlockLands and ReadsBack in terms of the places and the values of a unit.
LEMMA LandsIf ==
  ASSUME NEW L, NEW place, NEW value, Landed = L,
         \A i \in L : Place(i) = place[i] /\ Value(i) = value[i],
         Holds(run.before, Memory, L, place, value)
  PROVE  BlockLands
<1>1. ASSUME NEW i \in Landed, \A j \in Landed : j > i => Place(j) # Place(i)
      PROVE  Byte(Memory, Place(i)) = Value(i)
  <2>1. \A j \in L : j > i => place[j] # place[i] BY <1>1
  <2>2. Byte(Memory, place[i]) = value[i] BY <1>1, <2>1 DEF Holds
  <2> QED BY <1>1, <2>2
<1>2. ASSUME NEW a, \A i \in Landed : Place(i) # a PROVE Byte(Memory, a) = Byte(run.before, a)
  <2>1. \A i \in L : place[i] # a BY <1>2
  <2> QED BY <2>1 DEF Holds
<1> QED BY <1>1, <1>2 DEF BlockLands

\* The items of the run.
LEMMA ItemsAre ==
  ASSUME IsRun(run)
  PROVE  /\ Len(run.items) \in Nat /\ DOMAIN run.items = 1..Len(run.items)
         /\ \A i \in 1..Len(run.items) : run.items[i] \in Item
         /\ run.clean => run.clean = TRUE
         /\ \A op : Only(op) <=> AllAre(run.items, op)
<1>1. run.items \in Seq(Item) /\ run.clean \in BOOLEAN BY DEF IsRun
<1>2. \A op : Only(op) <=> AllAre(run.items, op) BY DEF Only, AllAre
<1>3. run.clean => run.clean = TRUE BY <1>1
<1> QED BY <1>1, <1>2, <1>3

\* Blocks through the WRAM port land.
LEMMA WramLands ==
  ASSUME IsRun(run), WramInv, run.unit = "wram", run.clean PROVE BlockLands
<1> DEFINE n == Len(run.items)
<1>1. n \in Nat /\ Running("wram", run) BY ItemsAre DEF Running
<1>2. WramRun(run, wram.mem, wram.addr) BY <1>1 DEF WramInv
<1>3. Holds(run.before, Memory, WramLanded(run.items), WramPlaces(run.start), Values(run.items))
  BY <1>2 DEF WramRun, Memory
<1>4. Landed = WramLanded(run.items) BY DEF Landed, WramLanded
<1>5. ASSUME NEW i \in 1..n PROVE Place(i) = WramPlaces(run.start)[i] /\ Value(i) = Values(run.items)[i]
  <2>1. i \in Nat BY <1>1
  <2>2. Place(i) = WramPlaces(run.start)[i] BY <2>1 DEF Place, WramAt, WramPlaces
  <2>3. Value(i) = Values(run.items)[i] BY <2>1 DEF Value, Values
  <2> QED BY <2>2, <2>3
<1>6. WramLanded(run.items) \subseteq 1..n BY DEF WramLanded
<1> QED BY <1>3, <1>4, <1>5, <1>6, LandsIf

\* Blocks of colours land.
LEMMA CgramLands ==
  ASSUME IsRun(run), CgramInv, run.unit = "cgram", run.clean, Only("w") PROVE BlockLands
<1> DEFINE n == Len(run.items)
<1>1. n \in Nat /\ Running("cgram", run) /\ AllAre(run.items, "w") BY ItemsAre DEF Running
<1>2. CgramRun(run, cgram.mem, cgram.addr, cgram.latch, Flag(cgram.flipflop)) BY <1>1 DEF CgramInv
<1>3. Holds(run.before, Memory, 1..n-(n % 2), CgramPlaces(run.start), CgramValues(run.items))
  BY <1>1, <1>2 DEF CgramRun, CgramWrites, Memory
<1>4. Landed = {i \in 1..n : i < n \/ n % 2 = 0} BY DEF Landed
<1>5. ASSUME NEW i \in 1..n PROVE Place(i) = CgramPlaces(run.start)[i] /\ Value(i) = CgramValues(run.items)[i]
  <2>1. i \in Nat BY <1>1
  <2>2. Place(i) = CgramPlaces(run.start)[i] BY <2>1 DEF Place, CgramAt, CgramPlaces
  <2>3. Value(i) = CgramValues(run.items)[i] BY <2>1 DEF Value, CgramValues
  <2> QED BY <2>2, <2>3
<1> HIDE DEF n
<1>6. {i \in 1..n : i < n \/ n % 2 = 0} = 1..n-(n % 2)
  <2>1. CASE n % 2 = 0 BY <1>1, <2>1
  <2>2. CASE n % 2 = 1 BY <1>1, <2>2
  <2> QED BY <1>1, <2>1, <2>2
<1> DEFINE L == 1..n-(n % 2)
<1>7. L \subseteq 1..n /\ Landed = L BY <1>4, <1>6
<1>8. Holds(run.before, Memory, L, CgramPlaces(run.start), CgramValues(run.items)) BY <1>3
<1> HIDE DEF L
<1>9. \A i \in L : Place(i) = CgramPlaces(run.start)[i] /\ Value(i) = CgramValues(run.items)[i] BY <1>5, <1>7
<1> DEFINE places == CgramPlaces(run.start)
           values == CgramValues(run.items)
<1>10. Landed = L /\ (\A i \in L : Place(i) = places[i] /\ Value(i) = values[i])
      /\ Holds(run.before, Memory, L, places, values)
  BY <1>7, <1>8, <1>9
<1> HIDE DEF places, values
<1> QED BY <1>10, LandsIf

\* Blocks of objects land: only the last byte may wait for its pair.
LEMMA OamLands ==
  ASSUME IsRun(run), OamInv, run.unit = "oam", run.clean, Only("w") PROVE BlockLands
<1> DEFINE n == Len(run.items)
           s == run.start
           w == OamWaiting(s, n)
<1>1. n \in Nat /\ Running("oam", run) /\ AllAre(run.items, "w") BY ItemsAre DEF Running
<1>2. OamRun(run, oam.mem, oam.internal, oam.latch, Flag(oam.flipflop)) BY <1>1 DEF OamInv
<1>3. OamStart(s) /\ Holds(run.before, Memory, 1..n-w, OamPlaces(s), Values(run.items))
  BY <1>1, <1>2 DEF OamRun, OamWrites, Memory
<1>4. Landed = {i \in 1..n : OamAt(i) >= 512 \/ i < n \/ n % 2 = 0} BY DEF Landed
<1>5. ASSUME NEW i \in 1..n
      PROVE  OamAt(i) = OamPos(s, i - 1) /\ Place(i) = OamPlaces(s)[i] /\ Value(i) = Values(run.items)[i]
  <2>1. i \in Nat BY <1>1
  <2>2. OamAt(i) = OamPos(s, i - 1)
    <3>1. s \in Int BY <1>3, Ranges DEF OamStart
    <3>2. s + i - 1 = s + (i - 1) BY <2>1, <3>1
    <3> QED BY <3>2 DEF OamAt, OamPos
  <2>3. Place(i) = OamPlaces(s)[i] BY <2>1, <2>2 DEF Place, OamPlaces
  <2>4. Value(i) = Values(run.items)[i] BY <2>1 DEF Value, Values
  <2> QED BY <2>2, <2>3, <2>4
<1>6. Landed = {i \in 1..n : OamPos(s, i - 1) >= 512 \/ i < n \/ n % 2 = 0}
  <2>1. \A i \in 1..n : OamAt(i) = OamPos(s, i - 1) BY <1>5
  <2> HIDE DEF n, s
  <2> QED BY <1>4, <2>1
<1>7. OamStep(s, n) BY <1>1, <1>3, OamSteps
<1> HIDE DEF n, s, w
<1>8. w = 0 \/ w = 1 BY <1>7 DEF OamStep, w
<1>9. CASE w = 1
  <2>1. n > 0 /\ n % 2 = 1 /\ OamPos(s, n - 1) = OamPos(s, n) - 1 /\ OamPos(s, n) < 512 /\ OamPos(s, n) \in Int
    BY <1>7, <1>9 DEF OamStep, w
  <2>2. ~(OamPos(s, n - 1) >= 512) BY <2>1
  <2>3. Landed = 1..n-w
    <3>1. ASSUME NEW i \in 1..n, OamPos(s, i - 1) >= 512 \/ i < n \/ n % 2 = 0 PROVE i \in 1..n-w
      <4>1. i # n BY <2>1, <2>2, <3>1
      <4> QED BY <1>1, <1>9, <4>1
    <3>2. ASSUME NEW i \in 1..n-w PROVE i \in 1..n /\ i < n BY <1>1, <1>9
    <3> QED BY <1>6, <3>1, <3>2
  <2>4. 1..n-w \subseteq 1..n BY <1>1, <1>9
  <2> DEFINE L == 1..n-w
  <2>5. L \subseteq 1..n /\ Landed = L /\ Holds(run.before, Memory, L, OamPlaces(s), Values(run.items))
    BY <1>3, <2>3, <2>4
  <2> HIDE DEF L
  <2>6. \A i \in L : Place(i) = OamPlaces(s)[i] /\ Value(i) = Values(run.items)[i] BY <1>5, <2>5
  <2> DEFINE places == OamPlaces(s)
             values == Values(run.items)
  <2>7. /\ Landed = L /\ \A i \in L : Place(i) = places[i] /\ Value(i) = values[i]
        /\ Holds(run.before, Memory, L, places, values)
    BY <2>5, <2>6
  <2> HIDE DEF places, values
  <2> QED BY <2>7, LandsIf
<1>10. CASE w = 0
  <2>1. ASSUME n > 0 PROVE OamPos(s, n - 1) >= 512 \/ n % 2 = 0
    <3>1. n - 1 \in Nat /\ (n - 1) + 1 = n BY <1>1, <2>1
    <3>2. OamStep(s, n - 1) BY <1>3, <3>1, OamSteps
    <3>3. CASE OamPos(s, n - 1) < 512
      <4>1. OamWaiting(s, n - 1) = 1 BY <1>10, <3>1, <3>2, <3>3 DEF OamStep, w
      <4>2. (n - 1) % 2 = 1 BY <3>2, <4>1 DEF OamStep
      <4> QED BY <1>1, <4>2
    <3>4. OamPos(s, n - 1) \in Int BY <3>2 DEF OamStep
    <3> QED BY <3>3, <3>4
  <2>2. Landed = 1..n
    <3>1. ASSUME NEW i \in 1..n PROVE OamPos(s, i - 1) >= 512 \/ i < n \/ n % 2 = 0
      <4>1. i < n \/ i = n BY <1>1
      <4> QED BY <1>1, <2>1, <4>1
    <3> QED BY <1>6, <3>1
  <2>3. Holds(run.before, Memory, 1..n, OamPlaces(s), Values(run.items))
    <3>1. n - w = n BY <1>1, <1>10
    <3> QED BY <1>3, <3>1
  <2> DEFINE L == 1..n
             places == OamPlaces(s)
             values == Values(run.items)
  <2>4. /\ Landed = L /\ \A i \in L : Place(i) = places[i] /\ Value(i) = values[i]
        /\ Holds(run.before, Memory, L, places, values)
    BY <1>5, <2>2, <2>3
  <2> HIDE DEF L, places, values
  <2> QED BY <2>4, LandsIf
<1> QED BY <1>8, <1>9, <1>10

\* The words of the VRAM port, as BlockLands and ReadsBack name them.
LEMMA VramWordsAre ==
  ASSUME NEW i
  PROVE  /\ Moves(i) = VMoved(run.items, VHalf(vram), i)
         /\ VramWord(Moves(i)) = VAt(run, vram, i) /\ Shown(i) = VShown(run, vram, i)
<1>1. Moves(i) = VMoved(run.items, VHalf(vram), i) BY ModeIs DEF Moves, VMoved
<1>2. \A k : VramWord(k) = VWord(vram, run.start, k) BY ModeIs DEF VramWord, VWord
<1> QED BY <1>1, <1>2 DEF VAt, VShown, Shown

\* Blocks of VRAM land.
LEMMA VramLands ==
  ASSUME IsRun(run), VramInv, run.unit = "vram", run.clean, Only("w") PROVE BlockLands
<1> DEFINE n == Len(run.items)
<1>1. n \in Nat /\ Running("vram", run) /\ AllAre(run.items, "w") BY ItemsAre DEF Running
<1>2. VramRun(run, vram) BY <1>1 DEF VramInv
<1>3. Holds(run.before, Memory, VramLanded(run, vram), VramPlaces(run, vram), Values(run.items))
  BY <1>1, <1>2 DEF VramRun, VramWrites, Memory
<1>4. Landed = {i \in 1..n : VramWord(Moves(i)) < VramWords} BY DEF Landed
<1>5. Landed = VramLanded(run, vram) BY <1>4, VramWordsAre DEF VramLanded
<1>6. ASSUME NEW i \in 1..n PROVE Place(i) = VramPlaces(run, vram)[i] /\ Value(i) = Values(run.items)[i]
  <2>1. i \in Nat BY <1>1
  <2>2. Place(i) = VramPlaces(run, vram)[i] BY <2>1, VramWordsAre DEF Place, VramPlaces
  <2>3. Value(i) = Values(run.items)[i] BY <2>1 DEF Value, Values
  <2> QED BY <2>2, <2>3
<1>7. VramLanded(run, vram) \subseteq 1..n BY DEF VramLanded
<1> QED BY <1>3, <1>5, <1>6, <1>7, LandsIf

-----------------------------------------------------------------------------
(* What the invariants say of what is read.                                *)

\* ReadsBack, item by item.
LEMMA ReadsIf ==
  ASSUME IsRun(run),
         \A i \in 1..Len(run.items) : (run.unit = "vram" => Shown(i) < VramWords) => run.items[i].val = Expected(i)
  PROVE  ReadsBack
BY ItemsAre DEF ReadsBack

\* Colours read back.
LEMMA CgramReadsBack ==
  ASSUME IsRun(run), CgramInv, run.unit = "cgram", run.clean, Only("r") PROVE ReadsBack
<1>1. Len(run.items) \in Nat /\ Running("cgram", run) /\ AllAre(run.items, "r") BY ItemsAre DEF Running
<1>2. CgramRun(run, cgram.mem, cgram.addr, cgram.latch, Flag(cgram.flipflop)) BY <1>1 DEF CgramInv
<1>3. CgramReads(run, cgram.mem) BY <1>1, <1>2 DEF CgramRun
<1>4. ASSUME NEW i \in 1..Len(run.items) PROVE run.items[i].val = Expected(i)
  <2>1. i \in Nat BY <1>1
  <2>2. run.items[i].val = Byte(cgram.mem, CgramPlaces(run.start)[i]) BY <1>3 DEF CgramReads
  <2>3. CgramPlaces(run.start)[i] = CgramAt(i) BY <2>1 DEF CgramPlaces, CgramAt
  <2> QED BY <2>2, <2>3 DEF Expected
<1> QED BY <1>4, ReadsIf

\* Objects read back.
LEMMA OamReadsBack ==
  ASSUME IsRun(run), OamInv, run.unit = "oam", run.clean, Only("r") PROVE ReadsBack
<1>1. Len(run.items) \in Nat /\ Running("oam", run) /\ AllAre(run.items, "r") BY ItemsAre DEF Running
<1>2. OamRun(run, oam.mem, oam.internal, oam.latch, Flag(oam.flipflop)) BY <1>1 DEF OamInv
<1>3. OamStart(run.start) /\ OamReads(run, oam.mem, oam.internal) BY <1>1, <1>2 DEF OamRun
<1>4. ASSUME NEW i \in 1..Len(run.items) PROVE run.items[i].val = Expected(i)
  <2>1. OamAt(i) = OamPos(run.start, i - 1)
    <3>1. run.start \in Int BY <1>3, Ranges DEF OamStart
    <3>2. run.start + i - 1 = run.start + (i - 1) BY <1>1, <3>1
    <3> QED BY <3>2 DEF OamAt, OamPos
  <2>2. run.items[i].val = IF OamAt(i) < 544 THEN Byte(oam.mem, OamAt(i)) ELSE 0 BY <1>3, <2>1 DEF OamReads
  <2> QED BY <2>2 DEF Expected
<1> QED BY <1>4, ReadsIf

\* VRAM reads back, one word behind.
LEMMA VramReadsBack ==
  ASSUME IsRun(run), VramInv, run.unit = "vram", run.clean, Only("r") PROVE ReadsBack
<1>1. Len(run.items) \in Nat /\ Running("vram", run) /\ AllAre(run.items, "r") BY ItemsAre DEF Running
<1>2. VramRun(run, vram) BY <1>1 DEF VramInv
<1>3. VramReads(run, vram) BY <1>1, <1>2 DEF VramRun
<1>4. ASSUME NEW i \in 1..Len(run.items), Shown(i) < VramWords PROVE run.items[i].val = Expected(i)
  <2>1. Shown(i) = VShown(run, vram, i) BY VramWordsAre
  <2>2. run.items[i].val = Byte(vram.mem, 2 * Shown(i) + run.items[i].half) BY <1>3, <1>4, <2>1 DEF VramReads
  <2> QED BY <2>2 DEF Expected
<1> QED BY <1>4, ReadsIf

\* The counter reads back as it was latched.
LEMMA CounterReadsBack ==
  ASSUME IsRun(run), CounterInv, run.unit = "counter", run.clean PROVE ReadsBack
<1>1. Running("counter", run) BY ItemsAre DEF Running
<1>2. \A i \in 1..Len(run.items) : run.items[i].val = Half(run.start, i) BY <1>1 DEF CounterInv, CounterRun
<1> QED BY <1>2, ReadsIf DEF Half, Expected

\* The joypad reads back as it was strobed.
LEMMA PadReadsBack ==
  ASSUME IsRun(run), PadInv, run.unit = "pad", run.clean PROVE ReadsBack
<1>1. Running("pad", run) BY ItemsAre DEF Running
<1>2. \A i \in 1..Len(run.items) : run.items[i].val = Bit(run.start, i) BY <1>1 DEF PadInv, PadRun
<1> QED BY <1>2, ReadsIf DEF Bit, Expected

-----------------------------------------------------------------------------
(* A step of one unit and the others.                                      *)

\* The run of another unit is not disturbed.
LEMMA OthersRun ==
  ASSUME NEW u, NEW x, NEW r, NEW r2, Touched(u, r, r2), Running(x, r2), x # u PROVE r2 = r /\ Running(x, r)
BY DEF Touched, Running

\* A step of another unit.
LEMMA OamKept ==
  ASSUME OamInv, oam' = oam, NEW u, u # "oam", Touched(u, run, run') PROVE OamInv'
BY OthersRun DEF OamInv

\* A step of another unit.
LEMMA CgramKept ==
  ASSUME CgramInv, cgram' = cgram, NEW u, u # "cgram", Touched(u, run, run') PROVE CgramInv'
BY OthersRun DEF CgramInv

\* A step of another unit.
LEMMA VramKept ==
  ASSUME VramInv, vram' = vram, NEW u, u # "vram", Touched(u, run, run') PROVE VramInv'
BY OthersRun DEF VramInv

\* A step of another unit.
LEMMA WramKept ==
  ASSUME WramInv, wram' = wram, NEW u, u # "wram", Touched(u, run, run') PROVE WramInv'
BY OthersRun DEF WramInv

\* A step of another unit.
LEMMA CounterKept ==
  ASSUME CounterInv, counter' = counter, NEW u, u # "counter", Touched(u, run, run') PROVE CounterInv'
BY OthersRun DEF CounterInv

\* A step of another unit.
LEMMA PadKept ==
  ASSUME PadInv, pad' = pad, NEW u, u # "pad", Touched(u, run, run') PROVE PadInv'
BY OthersRun DEF PadInv

\* A step of another unit.
LEMMA ScrollKept ==
  ASSUME ScrollInv, scroll' = scroll, pairs' = pairs PROVE ScrollInv'
BY DEF ScrollInv

PortsInv ==
  /\ Common
  /\ OamInv /\ CgramInv /\ VramInv /\ WramInv /\ ScrollInv /\ CounterInv /\ PadInv

\* Nothing has been accessed.
LEMMA PortsInitially == Init => PortsInv
<1> SUFFICES ASSUME Init PROVE PortsInv OBVIOUS
<1>1. run.unit = "none" /\ IsRun(run) BY DEF Init, IsRun
<1>2. \A u : u # "none" => ~Running(u, run) BY <1>1 DEF Running
<1>3. Common BY <1>1 DEF Init, Common
<1>4. 0 \in Uint8 /\ 1 \in Uint8 /\ 0 \in Uint16 /\ FALSE \in BOOLEAN BY Bytes
<1>5. OamInv
  <2>1. 0 \in Below(1024) BY Ranges
  <2>2. /\ DOMAIN oam = {"mem", "addr", "internal", "latch", "flipflop"} /\ oam.mem = Untouched /\ oam.addr = 0
        /\ oam.internal = 0 /\ oam.latch = 0 /\ oam.flipflop = FALSE
    BY DEF Init
  <2>3. oam.flipflop \in BOOLEAN BY <2>2
  <2> QED BY <1>2, <1>4, <2>1, <2>2, <2>3, UntouchedIs, SMT DEF OamInv
<1>6. CgramInv
  <2>1. 0 \in Below(256) BY Ranges
  <2> QED BY <1>2, <1>4, <2>1, UntouchedIs DEF Init, CgramInv
<1>7. VramInv
  <2>1. 0 \in Below(65536) /\ 0 \in Below(4) BY Ranges
  <2>2. /\ DOMAIN vram = {"mem", "addr", "vmain", "remap", "prefetch"} /\ vram.mem = Untouched /\ vram.addr = 0
        /\ vram.vmain = 1 /\ vram.remap = 0 /\ vram.prefetch = 0
    BY DEF Init
  <2>3. IsVram(vram) BY <1>4, <2>1, <2>2, UntouchedIs, SMT DEF IsVram
  <2> QED BY <1>2, <2>3 DEF VramInv
<1>8. WramInv
  <2>1. 0 \in Below(131072) BY Ranges
  <2>2. DOMAIN wram = {"mem", "addr"} /\ wram.mem = Untouched /\ wram.addr = 0 BY DEF Init
  <2> QED BY <1>2, <2>1, <2>2, UntouchedIs, SMT DEF WramInv
<1>9. ScrollInv
  <2>1. /\ DOMAIN scroll = {"regs", "latch", "hofsLatch", "m7Latch"} /\ DOMAIN pairs = {"scroll", "m7"}
        /\ DOMAIN scroll.regs = ScrollRegs \cup Mode7Regs /\ pairs.scroll = <<>> /\ pairs.m7 = <<>>
    BY DEF Init
  <2>2. Len(pairs.scroll) = 0 /\ Len(pairs.m7) = 0 BY <2>1
  <2>3. pairs.scroll \in Writes(ScrollRegs) /\ pairs.m7 \in Writes(Mode7Regs) BY <2>1 DEF Writes
  <2>4. ScrollPairs(pairs.scroll, scroll.regs, scroll.latch, scroll.hofsLatch)
    BY <2>2, <2>3 DEF ScrollPairs, Latched, HofsLatched, ScrollExact
  <2>5. Mode7Pairs(pairs.m7, scroll.regs, scroll.m7Latch) BY <2>2, <2>3 DEF Mode7Pairs, Latched, Mode7Exact
  <2> QED BY <2>1, <2>4, <2>5 DEF ScrollInv
<1>10. CounterInv BY <1>2, <1>4 DEF Init, CounterInv
<1>11. PadInv
  <2>1. DOMAIN pad = {"current", "latched", "index", "strobe"} /\ pad.index = 0 BY DEF Init
  <2>2. 0 \in 0..16 OBVIOUS
  <2> QED BY <1>2, <2>1, <2>2, SMT DEF PadInv
<1> QED BY <1>3, <1>5, <1>6, <1>7, <1>8, <1>9, <1>10, <1>11 DEF PortsInv

\* An access counts, or it is one to the joypad; nobody touches another unit.
Counted == program' = program /\ (accesses' = accesses \/ accesses' = accesses + 1)

\* What the step of this unit leaves alone.
LEMMA OamFrame ==
  ASSUME OamPort
  PROVE  /\ Counted /\ cgram' = cgram /\ vram' = vram /\ wram' = wram /\ scroll' = scroll /\ pairs' = pairs
         /\ counter' = counter /\ pad' = pad
<1>1. ASSUME NEW v, WriteOamaddl(v) \/ WriteOamaddh(v)
      PROVE  /\ Counted /\ cgram' = cgram /\ vram' = vram /\ wram' = wram /\ scroll' = scroll /\ pairs' = pairs
             /\ counter' = counter /\ pad' = pad
  BY <1>1 DEF WriteOamaddl, WriteOamaddh, Access, Counted
<1>2. CASE WriteOamdata BY <1>2 DEF WriteOamdata, Access, Counted
<1>3. CASE ReadOamdata BY <1>3 DEF ReadOamdata, Access, Counted
<1> QED BY <1>1, <1>2, <1>3 DEF OamPort

\* What the step of this unit leaves alone.
LEMMA CgramFrame ==
  ASSUME CgramPort
  PROVE  /\ Counted /\ oam' = oam /\ vram' = vram /\ wram' = wram /\ scroll' = scroll /\ pairs' = pairs
         /\ counter' = counter /\ pad' = pad
<1>1. ASSUME NEW v, WriteCgadd(v)
      PROVE  /\ Counted /\ oam' = oam /\ vram' = vram /\ wram' = wram /\ scroll' = scroll /\ pairs' = pairs
             /\ counter' = counter /\ pad' = pad
  BY <1>1 DEF WriteCgadd, Access, Counted
<1>2. CASE WriteCgdata BY <1>2 DEF WriteCgdata, Access, Counted
<1>3. CASE ReadCgdata BY <1>3 DEF ReadCgdata, Access, Counted
<1> QED BY <1>1, <1>2, <1>3 DEF CgramPort

\* What the step of this unit leaves alone.
LEMMA VramFrame ==
  ASSUME VramPort
  PROVE  /\ Counted /\ oam' = oam /\ cgram' = cgram /\ wram' = wram /\ scroll' = scroll /\ pairs' = pairs
         /\ counter' = counter /\ pad' = pad
<1>1. ASSUME NEW half, NEW v, WriteVmain(v) \/ WriteVmadd(half, v)
      PROVE  /\ Counted /\ oam' = oam /\ cgram' = cgram /\ wram' = wram /\ scroll' = scroll /\ pairs' = pairs
             /\ counter' = counter /\ pad' = pad
  BY <1>1 DEF WriteVmain, WriteVmadd, Access, Counted
<1>2. ASSUME NEW half, WriteVmdata(half) \/ ReadVmdata(half)
      PROVE  /\ Counted /\ oam' = oam /\ cgram' = cgram /\ wram' = wram /\ scroll' = scroll /\ pairs' = pairs
             /\ counter' = counter /\ pad' = pad
  <2>1. CASE WriteVmdata(half) BY <2>1 DEF WriteVmdata, Access, Counted
  <2>2. CASE ReadVmdata(half) BY <2>2 DEF ReadVmdata, Access, Counted
  <2> QED BY <1>2, <2>1, <2>2
<1> QED BY <1>1, <1>2 DEF VramPort

\* What the step of this unit leaves alone.
LEMMA WramFrame ==
  ASSUME WramPort
  PROVE  /\ Counted /\ oam' = oam /\ cgram' = cgram /\ vram' = vram /\ scroll' = scroll /\ pairs' = pairs
         /\ counter' = counter /\ pad' = pad
BY DEF WramPort, WriteWmadd, WriteWmdata, ReadWmdata, Access, Counted

\* What the step of this unit leaves alone.
LEMMA ScrollFrame ==
  ASSUME ScrollPort
  PROVE  /\ Counted /\ oam' = oam /\ cgram' = cgram /\ vram' = vram /\ wram' = wram
         /\ counter' = counter /\ pad' = pad
BY DEF ScrollPort, WriteScroll, WriteMode7, Access, Counted

\* What the step of this unit leaves alone.
LEMMA CounterFrame ==
  ASSUME CounterPort
  PROVE  /\ Counted /\ oam' = oam /\ cgram' = cgram /\ vram' = vram /\ wram' = wram /\ scroll' = scroll
         /\ pairs' = pairs /\ pad' = pad
BY DEF CounterPort, SetScanline, ReadSlhv, ReadOpvct, ReadStat78, Access, Counted

\* What the step of this unit leaves alone.
LEMMA PadFrame ==
  ASSUME PadPort
  PROVE  /\ Counted /\ oam' = oam /\ cgram' = cgram /\ vram' = vram /\ wram' = wram /\ scroll' = scroll
         /\ pairs' = pairs /\ counter' = counter
<1>1. ASSUME NEW b, NEW pressed, SetButton(b, pressed)
      PROVE  /\ Counted /\ oam' = oam /\ cgram' = cgram /\ vram' = vram /\ wram' = wram /\ scroll' = scroll
             /\ pairs' = pairs /\ counter' = counter
  BY <1>1 DEF SetButton, Counted
<1>2. ASSUME NEW new, WriteStrobe(new)
      PROVE  /\ Counted /\ oam' = oam /\ cgram' = cgram /\ vram' = vram /\ wram' = wram /\ scroll' = scroll
             /\ pairs' = pairs /\ counter' = counter
  BY <1>2 DEF WriteStrobe, Counted
<1>3. CASE ReadSerial BY <1>3 DEF ReadSerial, Counted
<1> QED BY <1>1, <1>2, <1>3 DEF PadPort

\* A step is one of a unit's accesses; the others keep their parts.
LEMMA PortsInductive == PortsInv /\ [Next]_vars => PortsInv'
<1> SUFFICES ASSUME PortsInv, [Next]_vars PROVE PortsInv' OBVIOUS
<1>0. Common /\ OamInv /\ CgramInv /\ VramInv /\ WramInv /\ ScrollInv /\ CounterInv /\ PadInv BY DEF PortsInv
<1>1. IsRun(run) BY <1>0 DEF Common
<1>2. CASE OamPort
  <2>1. OamInv' /\ IsRun(run') /\ Touched("oam", run, run') BY <1>0, <1>2, OamStepped
  <2>2. /\ cgram' = cgram /\ vram' = vram /\ wram' = wram /\ scroll' = scroll /\ pairs' = pairs
        /\ counter' = counter /\ pad' = pad
    BY <1>2, OamFrame
  <2>3. CgramInv' /\ VramInv' /\ WramInv' BY <1>0, <2>1, <2>2, CgramKept, VramKept, WramKept
  <2>4. ScrollInv' /\ CounterInv' /\ PadInv' BY <1>0, <2>1, <2>2, ScrollKept, CounterKept, PadKept
  <2>5. Common' BY <1>0, <1>2, <2>1, OamFrame DEF Common, Counted
  <2> QED BY <2>1, <2>3, <2>4, <2>5 DEF PortsInv
<1>3. CASE CgramPort
  <2>1. CgramInv' /\ IsRun(run') /\ Touched("cgram", run, run') BY <1>0, <1>3, CgramStepped
  <2>2. /\ oam' = oam /\ vram' = vram /\ wram' = wram /\ scroll' = scroll /\ pairs' = pairs
        /\ counter' = counter /\ pad' = pad
    BY <1>3, CgramFrame
  <2>3. OamInv' /\ VramInv' /\ WramInv' BY <1>0, <2>1, <2>2, OamKept, VramKept, WramKept
  <2>4. ScrollInv' /\ CounterInv' /\ PadInv' BY <1>0, <2>1, <2>2, ScrollKept, CounterKept, PadKept
  <2>5. Common' BY <1>0, <1>3, <2>1, CgramFrame DEF Common, Counted
  <2> QED BY <2>1, <2>3, <2>4, <2>5 DEF PortsInv
<1>4. CASE VramPort
  <2>1. VramInv' /\ IsRun(run') /\ Touched("vram", run, run') BY <1>0, <1>4, VramStepped
  <2>2. /\ oam' = oam /\ cgram' = cgram /\ wram' = wram /\ scroll' = scroll /\ pairs' = pairs
        /\ counter' = counter /\ pad' = pad
    BY <1>4, VramFrame
  <2>3. OamInv' /\ CgramInv' /\ WramInv' BY <1>0, <2>1, <2>2, OamKept, CgramKept, WramKept
  <2>4. ScrollInv' /\ CounterInv' /\ PadInv' BY <1>0, <2>1, <2>2, ScrollKept, CounterKept, PadKept
  <2>5. Common' BY <1>0, <1>4, <2>1, VramFrame DEF Common, Counted
  <2> QED BY <2>1, <2>3, <2>4, <2>5 DEF PortsInv
<1>5. CASE WramPort
  <2>1. WramInv' /\ IsRun(run') /\ Touched("wram", run, run') BY <1>0, <1>5, WramStepped
  <2>2. /\ oam' = oam /\ cgram' = cgram /\ vram' = vram /\ scroll' = scroll /\ pairs' = pairs
        /\ counter' = counter /\ pad' = pad
    BY <1>5, WramFrame
  <2>3. OamInv' /\ CgramInv' /\ VramInv' BY <1>0, <2>1, <2>2, OamKept, CgramKept, VramKept
  <2>4. ScrollInv' /\ CounterInv' /\ PadInv' BY <1>0, <2>1, <2>2, ScrollKept, CounterKept, PadKept
  <2>5. Common' BY <1>0, <1>5, <2>1, WramFrame DEF Common, Counted
  <2> QED BY <2>1, <2>3, <2>4, <2>5 DEF PortsInv
<1>6. CASE ScrollPort
  <2>1. ScrollInv' /\ run' = run BY <1>0, <1>6, ScrollStepped
  <2>2. oam' = oam /\ cgram' = cgram /\ vram' = vram /\ wram' = wram /\ counter' = counter /\ pad' = pad
    BY <1>6, ScrollFrame
  <2>3. OamInv' /\ CgramInv' /\ VramInv' /\ WramInv' /\ CounterInv' /\ PadInv'
    BY <1>0, <2>1, <2>2 DEF OamInv, CgramInv, VramInv, WramInv, CounterInv, PadInv
  <2>4. Common' BY <1>0, <1>1, <1>6, <2>1, ScrollFrame DEF Common, Counted
  <2> QED BY <2>1, <2>3, <2>4 DEF PortsInv
<1>7. CASE CounterPort
  <2>1. CounterInv' /\ IsRun(run') /\ Touched("counter", run, run') BY <1>0, <1>7, CounterStepped
  <2>2. /\ oam' = oam /\ cgram' = cgram /\ vram' = vram /\ wram' = wram /\ scroll' = scroll /\ pairs' = pairs
        /\ pad' = pad
    BY <1>7, CounterFrame
  <2>3. OamInv' /\ CgramInv' /\ VramInv' BY <1>0, <2>1, <2>2, OamKept, CgramKept, VramKept
  <2>4. WramInv' /\ ScrollInv' /\ PadInv' BY <1>0, <2>1, <2>2, WramKept, ScrollKept, PadKept
  <2>5. Common' BY <1>0, <1>7, <2>1, CounterFrame DEF Common, Counted
  <2> QED BY <2>1, <2>3, <2>4, <2>5 DEF PortsInv
<1>8. CASE PadPort
  <2>1. PadInv' /\ IsRun(run') /\ Touched("pad", run, run') BY <1>0, <1>8, PadStepped
  <2>2. /\ oam' = oam /\ cgram' = cgram /\ vram' = vram /\ wram' = wram /\ scroll' = scroll /\ pairs' = pairs
        /\ counter' = counter
    BY <1>8, PadFrame
  <2>3. OamInv' /\ CgramInv' /\ VramInv' BY <1>0, <2>1, <2>2, OamKept, CgramKept, VramKept
  <2>4. WramInv' /\ ScrollInv' /\ CounterInv' BY <1>0, <2>1, <2>2, WramKept, ScrollKept, CounterKept
  <2>5. Common' BY <1>0, <1>8, <2>1, PadFrame DEF Common, Counted
  <2> QED BY <2>1, <2>3, <2>4, <2>5 DEF PortsInv
<1>9. CASE UNCHANGED vars
  BY <1>0, <1>9 DEF vars, PortsInv, Common, OamInv, CgramInv, VramInv, WramInv, ScrollInv, CounterInv, PadInv
<1> QED BY <1>2, <1>3, <1>4, <1>5, <1>6, <1>7, <1>8, <1>9 DEF Next

\* THEOREM.  Whatever the program, its data, the host and the beam do, every unit's address,
\* latch and flip-flop are those of a block with as many accesses as there have been since the
\* address was set, and its memory is what those accesses should have made of it.
THEOREM PortsInvariant == Spec => []PortsInv
BY PortsInitially, PortsInductive, PTL DEF Spec

\* THEOREM.  Every block written after its address was set lands where it should, byte by byte,
\* and nothing else changes (ppu/mod.rs:235-264, 379-468; bus.rs:417-429).
THEOREM BlocksLand == Spec => []BlockLands
<1>1. PortsInv => BlockLands
  <2> SUFFICES ASSUME PortsInv, run.clean, run.unit \in {"oam", "cgram", "vram", "wram"},
                      run.unit = "wram" \/ Only("w")
               PROVE  BlockLands
    BY DEF BlockLands
  <2>1. IsRun(run) /\ OamInv /\ CgramInv /\ VramInv /\ WramInv BY DEF PortsInv, Common
  <2> QED BY <2>1, OamLands, CgramLands, VramLands, WramLands
<1> QED BY <1>1, PortsInvariant, PTL

\* THEOREM.  What is read after an address was set, the counters latched or the joypad strobed
\* is what was there at that moment, in order (ppu/mod.rs:699-777, joypad.rs:48-79).
THEOREM DataReadBack == Spec => []ReadsBack
<1>1. PortsInv => ReadsBack
  <2> SUFFICES ASSUME PortsInv, run.clean, run.unit \in {"oam", "cgram", "vram", "counter", "pad"}, Only("r")
               PROVE  ReadsBack
    BY DEF ReadsBack
  <2>1. IsRun(run) /\ OamInv /\ CgramInv /\ VramInv /\ CounterInv /\ PadInv BY DEF PortsInv, Common
  <2> QED BY <2>1, OamReadsBack, CgramReadsBack, VramReadsBack, CounterReadsBack, PadReadsBack
<1> QED BY <1>1, PortsInvariant, PTL

\* THEOREM.  Two writes to one register of two halves leave the value they are halves of, if none
\* to a register that shares its latch came between them (ppu/mod.rs:304-378).
THEOREM PairsExact == Spec => []PairExact
<1>1. PortsInv => PairExact BY ScrollPairExact DEF PortsInv
<1> QED BY <1>1, PortsInvariant, PTL
=============================================================================
