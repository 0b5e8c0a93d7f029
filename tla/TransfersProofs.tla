--------------------------- MODULE TransfersProofs ---------------------------
(***************************************************************************)
(* A general DMA transfer moves what its registers asked for and is paid   *)
(* for once, for any registers, sizes and depth of calls inside calls; an  *)
(* HDMA channel that is left alone sends what its table asks for, line by  *)
(* line, for any tables anywhere in the bank.                              *)
(*                                                                         *)
(* General DMA.  The properties speak of the time when every call has returned; the      *)
(* invariant says how far the outermost call has got: which channels are   *)
(* done, where the current one is, and that a byte is moved but not booked *)
(* while the call is interrupted by another (Progress).  What the calls    *)
(* have spent and synced adds up along the stack; as sums over sequences   *)
(* are out of reach, the invariant says that there are numbers that add up *)
(* from the outermost call to the innermost (Books).                       *)
(*                                                                         *)
(* HDMA.  A channel's cursor, counter and flags are those of some line of  *)
(* some entry of its table, or the table has ended (PlacedAt): LoadIs and  *)
(* RunIs take the cursor from one line to the next, and OneAsked says that *)
(* the table asks that line for what is sent, and for nothing else.        *)
(***************************************************************************)
EXTENDS MCTransfers, WellFoundedInduction, SequenceTheorems, TLAPS

-----------------------------------------------------------------------------
(* Arithmetic of addresses, and the first enabled channel.                 *)

LEMMA ModUnique ==
  ASSUME NEW m \in Nat \ {0}, NEW q \in Int, NEW r \in 0..m-1
  PROVE  (m * q + r) % m = r
<1> DEFINE x == m * q + r
           p == x \div m
           s == x % m
<1>1. x \in Int /\ p \in Int /\ s \in 0..m-1 /\ x = m * p + s
  OBVIOUS
<1>2. m * p + s = m * q + r
  BY <1>1
<1> HIDE DEF x, p, s
<1>3. CASE p >= q + 1
  <2>1. m * p >= m * q + m
    <3>1. m * p >= m * (q + 1) /\ m * (q + 1) = m * q + m /\ m * q \in Int /\ m * p \in Int
      BY <1>1, <1>3
    <3> QED
      BY <3>1
  <2> QED
    BY <1>1, <1>2, <2>1
<1>4. CASE q >= p + 1
  <2>1. m * q >= m * p + m
    <3>1. m * q >= m * (p + 1) /\ m * (p + 1) = m * p + m /\ m * q \in Int /\ m * p \in Int
      BY <1>1, <1>4
    <3> QED
      BY <3>1
  <2> QED
    BY <1>1, <1>2, <2>1
<1>5. p = q => s = r
  BY <1>1, <1>2
<1> QED
  BY <1>1, <1>3, <1>4, <1>5 DEF x, s

\* Steps in a circle add up.
LEMMA ModStep ==
  ASSUME NEW m \in Nat \ {0}, NEW x \in Int
  PROVE  /\ x % m \in 0..m-1 /\ (x \in 0..m-1 => x % m = x)
         /\ ((x % m) + 1) % m = (x + 1) % m /\ ((x % m) - 1) % m = (x - 1) % m
<1> DEFINE q == x \div m
           r == x % m
<1>1. q \in Int /\ r \in 0..m-1 /\ x = m * q + r
  OBVIOUS
<1> HIDE DEF q, r
<1>0. 0 \in 0..m-1 /\ m - 1 \in 0..m-1 /\ m * 0 = 0 /\ m * 1 = m /\ m * (-1) = -m
  OBVIOUS
<1>2. ASSUME x \in 0..m-1 PROVE r = x
  <2>1. (m * 0 + x) % m = x
    BY <1>2, ModUnique
  <2> QED
    BY <1>0, <1>2, <2>1 DEF r
<1>3. (r + 1) % m = (x + 1) % m
  <2>1. CASE r + 1 < m
    <3>1. r + 1 \in 0..m-1
      BY <1>1, <2>1
    <3>2. (m * 0 + (r + 1)) % m = r + 1 /\ (m * q + (r + 1)) % m = r + 1
      BY <1>1, <3>1, ModUnique
    <3>3. m * 0 + (r + 1) = r + 1 /\ m * q + (r + 1) = x + 1
      BY <1>0, <1>1
    <3> QED
      BY <3>2, <3>3
  <2>2. CASE r + 1 = m
    <3>1. (m * 1 + 0) % m = 0 /\ (m * (q + 1) + 0) % m = 0
      BY <1>0, <1>1, ModUnique
    <3>2. m * 1 + 0 = r + 1 /\ m * (q + 1) + 0 = x + 1
      BY <1>0, <1>1, <2>2
    <3> QED
      BY <3>1, <3>2
  <2> QED
    BY <1>1, <2>1, <2>2
<1>4. (r - 1) % m = (x - 1) % m
  <2>1. CASE r > 0
    <3>1. r - 1 \in 0..m-1
      BY <1>1, <2>1
    <3>2. (m * 0 + (r - 1)) % m = r - 1 /\ (m * q + (r - 1)) % m = r - 1
      BY <1>1, <3>1, ModUnique
    <3>3. m * 0 + (r - 1) = r - 1 /\ m * q + (r - 1) = x - 1
      BY <1>0, <1>1
    <3> QED
      BY <3>2, <3>3
  <2>2. CASE r = 0
    <3>1. (m * (-1) + (m - 1)) % m = m - 1 /\ (m * (q - 1) + (m - 1)) % m = m - 1
      BY <1>0, <1>1, ModUnique
    <3>2. m * (-1) + (m - 1) = r - 1 /\ m * (q - 1) + (m - 1) = x - 1
      BY <1>0, <1>1, <2>2
    <3> QED
      BY <3>1, <3>2
  <2> QED
    BY <1>1, <2>1, <2>2
<1> QED
  BY <1>1, <1>2, <1>3, <1>4 DEF r

LEMMA NatLess == \E R : IsWellFoundedOn(R, Nat) /\ \A x, y \in Nat : y < x => <<y, x>> \in R
<1> DEFINE R == OpToRel(<, Nat)
<1>1. IsWellFoundedOn(R, Nat)
  BY NatLessThanWellFounded
<1>2. R = {p \in Nat \X Nat : p[1] < p[2]}
  BY DEF OpToRel
<1>3. \A x, y \in Nat : y < x => <<y, x>> \in R
  BY <1>2
<1> QED
  BY <1>1, <1>3

\* Min of numbers is one of them.
LEMMA MinIs ==
  ASSUME NEW S \in SUBSET Nat, S # {}
  PROVE  Min(S) \in S /\ \A y \in S : Min(S) <= y
<1>1. PICK R : IsWellFoundedOn(R, Nat) /\ \A x, y \in Nat : y < x => <<y, x>> \in R
  BY NatLess
<1>2. PICK x \in S : \A y \in S : ~(<<y, x>> \in R)
  BY <1>1, WFMin
<1>3. x \in Nat
  BY <1>2
<1>4. ASSUME NEW y \in S PROVE x <= y
  <2>1. y \in Nat
    OBVIOUS
  <2>2. ~(y < x)
    BY <1>1, <1>2, <1>3, <2>1, Zenon
  <2> QED
    BY <1>3, <2>1, <2>2
<1>5. Min(S) = CHOOSE z \in S : \A y \in S : z <= y
  BY DEF Min
<1> QED
  BY <1>4, <1>5, Zenon

-----------------------------------------------------------------------------
(* The calls in progress and what is true of them.                         *)

Settings == [mode : 0..7, toA : BOOLEAN, fixed : BOOLEAN, dec : BOOLEAN,
             src : 0..AddrSize-1, size : Nat]

Calls == [regs : [Channel -> Settings], todo : SUBSET Channel, ch : Channel,
          left : Nat, unit : Nat, spent : Nat, unsynced : Nat]

Asks == [regs : [Channel -> Settings], mask : SUBSET Channel]

\* The registers in the bus, the calls and the books are of the right kind.
DmaType ==
  /\ dma \in [Channel -> Settings]
  /\ stack \in Seq(Calls)
  /\ asked \in Asks
  /\ pending \in Nat /\ advance \in Nat /\ bytes \in Nat

\* The i-th call, the outermost one first.
At(st, i) == st[Len(st) + 1 - i]

\* The first k bytes of a channel.
ByteAt(s, i) ==
  [a |-> SourceAt(s, i - 1), b |-> Pattern[s.mode][1 + ((i - 1) % Len(Pattern[s.mode]))]]
Taken(s, k) == [i \in 1..k |-> ByteAt(s, i)]

\* A channel's registers when its bytes have moved, and after k of them.
After(s) == [s EXCEPT !.size = 0, !.src = SourceAt(s, SizeOf(s))]
Amid(s, k) == [s EXCEPT !.src = SourceAt(s, k)]

\* The call o has its registers and has done nothing.
Fresh(q, m, o) ==
  /\ o.todo = q.mask /\ o.left = 0 /\ o.spent = 0
  /\ o.regs = q.regs /\ m = Nothing

\* The call o, asked for q, has booked the first k bytes of channel o.ch and has
\* moved e more; the channels in d are done.  m are the bytes moved.
Begun(q, m, o, d, k, e) ==
  /\ d \subseteq Channel /\ k \in Nat
  /\ q.mask = d \cup {o.ch} \cup o.todo
  /\ \A c \in d : c < o.ch
  /\ \A c \in o.todo : o.ch < c
  /\ k + o.left = SizeOf(q.regs[o.ch]) /\ e <= o.left
  /\ o.unit = k % Len(Pattern[q.regs[o.ch].mode])
  /\ k > 0 => o.spent > 0
  /\ o.regs = [c \in Channel |-> IF c \in d THEN After(q.regs[c])
                                 ELSE IF c = o.ch THEN Amid(q.regs[c], k)
                                 ELSE q.regs[c]]
  /\ m = [c \in Channel |-> IF c \in d THEN Bytes(q.regs[c])
                            ELSE IF c = o.ch THEN Taken(q.regs[c], k + e)
                            ELSE <<>>]

\* What is moved, and the registers, when the call has returned.
AllMoved(q) == [c \in Channel |-> IF c \in q.mask THEN Bytes(q.regs[c]) ELSE <<>>]
AllAfter(q) == [c \in Channel |-> IF c \in q.mask THEN After(q.regs[c]) ELSE q.regs[c]]

\* Where the outermost call is.  While another is inside it, the byte that was
\* the write of MDMAEN has moved and is not booked.
Under(st) == IF Len(st) = 1 THEN 0 ELSE 1

Where(q, m, st) ==
  \/ Fresh(q, m, At(st, 1)) /\ Under(st) = 0
  \/ \E d, k : Begun(q, m, At(st, 1), d, k, Under(st))

Progress ==
  IF stack = <<>>
  THEN moved = AllMoved(asked) /\ dma = AllAfter(asked)
  ELSE Where(asked, moved, stack)

\* The sums f of the values v along the first n calls.
Sums(v, n, f) ==
  /\ f \in [0..n -> Nat] /\ f[0] = 0
  /\ \A i \in 1..n : f[i] = f[i - 1] + v[i]

Spent(st) == [i \in 1..Len(st) |-> At(st, i).spent]
Unsynced(st) == [i \in 1..Len(st) |-> At(st, i).unsynced]

\* Every one of the y bytes but those that are still being written is in the
\* books, and what the clock has not been given is in the calls.
Balance(p, a, y, st) ==
  \E f, g :
    LET n == Len(st)
    IN  /\ Sums(Spent(st), n, f) /\ Sums(Unsynced(st), n, g)
        /\ p + f[n] + ByteCycles * (n - 1) = ByteCycles * y
        /\ a + g[n] = p + f[n]

Books ==
  IF stack = <<>>
  THEN pending = ByteCycles * bytes /\ advance = pending
  ELSE Balance(pending, advance, bytes, stack)

\* The calls that wait for the one they started have a byte to book.
Waits(st) == \A i \in 1..Len(st)-1 : At(st, i).left > 0

DmaInv == DmaType /\ Waits(stack) /\ Progress /\ Books

-----------------------------------------------------------------------------
(* The operators of the model.                                             *)

LEMMA PatternIs == \A m \in 0..7 : /\ Pattern[m] \in Seq(0..3)
                                   /\ Len(Pattern[m]) \in 1..4
<1> SUFFICES ASSUME NEW m \in 0..7
             PROVE  Pattern[m] \in Seq(0..3) /\ Len(Pattern[m]) \in 1..4
  OBVIOUS
<1>1. CASE m = 0
  BY <1>1 DEF Pattern
<1>2. CASE m = 1
  BY <1>2 DEF Pattern
<1>3. CASE m = 2
  BY <1>3 DEF Pattern
<1>4. CASE m = 3
  BY <1>4 DEF Pattern
<1>5. CASE m = 4
  BY <1>5 DEF Pattern
<1>6. CASE m = 5
  BY <1>6 DEF Pattern
<1>7. CASE m = 6
  BY <1>7 DEF Pattern
<1>8. CASE m = 7
  BY <1>8 DEF Pattern
<1> QED
  BY <1>1, <1>2, <1>3, <1>4, <1>5, <1>6, <1>7, <1>8

LEMMA SizeIs == \A s \in Settings : SizeOf(s) \in Nat \ {0}
  BY DmaAssumption DEF SizeOf, Settings

LEMMA SourceIs ==
  ASSUME NEW s \in Settings, NEW k \in Nat
  PROVE  /\ SourceAt(s, k) \in 0..AddrSize-1
         /\ SourceAt(s, 0) = s.src
         /\ Step(Amid(s, k)) = SourceAt(s, k + 1)
<1> DEFINE up == s.src + k
           down == s.src - k
<1>1. AddrSize \in Nat \ {0}
  BY DmaAssumption
<1>2. s.src \in 0..AddrSize-1 /\ s.fixed \in BOOLEAN /\ s.dec \in BOOLEAN
  BY DEF Settings
<1>3. up \in Int /\ down \in Int /\ s.src \in Int /\ s.src + 0 = s.src /\ s.src - 0 = s.src
      /\ up + 1 = s.src + (k + 1) /\ down - 1 = s.src - (k + 1)
  BY <1>1, <1>2
<1>4. /\ up % AddrSize \in 0..AddrSize-1 /\ down % AddrSize \in 0..AddrSize-1
      /\ s.src % AddrSize = s.src
      /\ ((up % AddrSize) + 1) % AddrSize = (up + 1) % AddrSize
      /\ ((down % AddrSize) - 1) % AddrSize = (down - 1) % AddrSize
  <2> HIDE DEF up, down
  <2> QED
    BY <1>1, <1>2, <1>3, ModStep
<1>5. /\ Amid(s, k).src = SourceAt(s, k)
      /\ Amid(s, k).fixed = s.fixed /\ Amid(s, k).dec = s.dec
  BY DEF Amid, Settings
<1>6. SourceAt(s, k) = IF s.fixed THEN s.src
                       ELSE IF s.dec THEN down % AddrSize ELSE up % AddrSize
  BY DEF SourceAt
<1>7. SourceAt(s, k + 1) = IF s.fixed THEN s.src
                           ELSE IF s.dec THEN (down - 1) % AddrSize ELSE (up + 1) % AddrSize
  BY <1>3 DEF SourceAt
<1>8. SourceAt(s, 0) = IF s.fixed THEN s.src
                       ELSE IF s.dec THEN s.src % AddrSize ELSE s.src % AddrSize
  BY <1>3 DEF SourceAt
<1> HIDE DEF up, down
<1> QED
  BY <1>2, <1>4, <1>5, <1>6, <1>7, <1>8 DEF Step

LEMMA AmidIs ==
  ASSUME NEW s \in Settings, NEW k \in Nat
  PROVE  /\ Amid(s, k) \in Settings /\ After(s) \in Settings
         /\ Amid(s, 0) = s /\ Amid(s, k).mode = s.mode /\ Amid(s, k).src = SourceAt(s, k)
         /\ [Amid(s, k) EXCEPT !.src = SourceAt(s, k + 1)] = Amid(s, k + 1)
         /\ [Amid(s, SizeOf(s)) EXCEPT !.size = 0] = After(s)
<1>1. SourceAt(s, k) \in 0..AddrSize-1 /\ SourceAt(s, 0) = s.src
  BY SourceIs
<1>2. SourceAt(s, SizeOf(s)) \in 0..AddrSize-1
  BY SizeIs, SourceIs
<1>3. Amid(s, 0) = s
  BY <1>1 DEF Amid, Settings
<1> QED
  BY <1>1, <1>2, <1>3 DEF Amid, After, Settings

\* One more byte.
LEMMA TakenIs ==
  ASSUME NEW s, NEW k \in Nat
  PROVE  /\ Len(Taken(s, k)) = k /\ Taken(s, 0) = <<>>
         /\ Append(Taken(s, k), ByteAt(s, k + 1)) = Taken(s, k + 1)
         /\ Bytes(s) = Taken(s, SizeOf(s))
<1> DEFINE B(i) == ByteAt(s, i)
           T(n) == [i \in 1..n |-> B(i)]
<1>1. \A n : Taken(s, n) = T(n)
  BY DEF Taken
<1>2. Bytes(s) = T(SizeOf(s))
  BY DEF Bytes, ByteAt
<1> HIDE DEF B
<1>3. Len(T(k)) = k /\ T(0) = <<>> /\ Append(T(k), B(k + 1)) = T(k + 1)
  OBVIOUS
<1> QED
  BY <1>1, <1>2, <1>3 DEF B

\* A byte in the books.
LEMMA BookedIs ==
  ASSUME NEW c \in Calls, c.left > 0
  PROVE  /\ Booked(c) \in Calls /\ Credit(c) \in Nat
         /\ Booked(c).regs = [c.regs EXCEPT ![c.ch].src = Step(c.regs[c.ch])]
         /\ Booked(c).todo = c.todo /\ Booked(c).ch = c.ch
         /\ Booked(c).left = c.left - 1 /\ Booked(c).spent = c.spent + ByteCycles
         /\ Booked(c).unit = (c.unit + 1) % Len(Pattern[c.regs[c.ch].mode])
         /\ Credit(c) + Booked(c).unsynced = c.unsynced + ByteCycles
<1> DEFINE s == c.regs[c.ch]
           due == c.unsynced + ByteCycles >= Chunk
           r == [c.regs EXCEPT ![c.ch].src = Step(s)]
           u == (c.unit + 1) % Len(Pattern[s.mode])
           y == IF due THEN 0 ELSE c.unsynced + ByteCycles
<1>1. /\ c.regs \in [Channel -> Settings] /\ c.ch \in Channel /\ c.todo \in SUBSET Channel
      /\ c.left \in Nat /\ c.unit \in Nat /\ c.spent \in Nat /\ c.unsynced \in Nat
  BY DEF Calls
<1>2. s \in Settings /\ s.mode \in 0..7 /\ s.src \in 0..AddrSize-1 /\ s.fixed \in BOOLEAN
      /\ s.dec \in BOOLEAN
  BY <1>1 DEF Settings
<1>3. ByteCycles \in Nat \ {0} /\ Chunk \in Nat \ {0} /\ AddrSize \in Nat \ {0}
  BY DmaAssumption
<1>4. Len(Pattern[s.mode]) \in 1..4
  BY <1>2, PatternIs
<1>5. u \in Nat
  <2> DEFINE l == Len(Pattern[s.mode])
  <2>1. l \in 1..4
    BY <1>4
  <2> HIDE DEF l
  <2>2. (c.unit + 1) % l \in Nat
    BY <1>1, <2>1
  <2> QED
    BY <2>2 DEF l
<1>6. Step(s) \in 0..AddrSize-1
  <2>1. /\ (s.src - 1) % AddrSize \in 0..AddrSize-1
        /\ (s.src + 1) % AddrSize \in 0..AddrSize-1
    BY <1>2, <1>3
  <2> QED
    BY <1>2, <2>1 DEF Step
<1>7. r \in [Channel -> Settings]
  <2> DEFINE x == Step(s)
  <2> HIDE DEF x
  <2>1. [s EXCEPT !.src = x] \in Settings
    BY <1>2, <1>6 DEF Settings, x
  <2>2. r = [c.regs EXCEPT ![c.ch] = [s EXCEPT !.src = x]]
    BY <1>1 DEF x
  <2> QED
    BY <1>1, <2>1, <2>2
<1>8. y \in Nat /\ Credit(c) \in Nat /\ Credit(c) + y = c.unsynced + ByteCycles
  BY <1>1, <1>3 DEF Credit
<1>9. Booked(c) = [c EXCEPT !.regs = r, !.unit = u, !.left = c.left - 1,
                            !.spent = c.spent + ByteCycles, !.unsynced = y]
  BY <1>1 DEF Booked, Calls
<1> HIDE DEF r, u, y
<1>10. c.left - 1 \in Nat /\ c.spent + ByteCycles \in Nat
  BY <1>1, <1>3
<1>11. /\ Booked(c) \in Calls /\ Booked(c).regs = r /\ Booked(c).unit = u
       /\ Booked(c).left = c.left - 1 /\ Booked(c).spent = c.spent + ByteCycles
       /\ Booked(c).unsynced = y /\ Booked(c).todo = c.todo /\ Booked(c).ch = c.ch
  BY <1>1, <1>5, <1>7, <1>8, <1>9, <1>10 DEF Calls
<1> QED
  BY <1>8, <1>11 DEF r, u, y

\* A channel that is done, and the next one.
LEMMA FinishedIs ==
  ASSUME NEW c \in Calls
  PROVE  /\ Finished(c) \in Calls
         /\ Finished(c).spent = c.spent /\ Finished(c).unsynced = c.unsynced
         /\ Finished(c).todo = c.todo /\ Finished(c).ch = c.ch /\ Finished(c).left = c.left
         /\ Finished(c).regs = IF c.spent = 0 THEN c.regs
                               ELSE [c.regs EXCEPT ![c.ch].size = 0]
<1> DEFINE r == [c.regs EXCEPT ![c.ch].size = 0]
<1>1. c.regs \in [Channel -> Settings] /\ c.ch \in Channel
  BY DEF Calls
<1>2. r \in [Channel -> Settings]
  <2>1. [c.regs[c.ch] EXCEPT !.size = 0] \in Settings
    BY <1>1 DEF Settings
  <2>2. r = [c.regs EXCEPT ![c.ch] = [c.regs[c.ch] EXCEPT !.size = 0]]
    BY <1>1
  <2> QED
    BY <1>1, <2>1, <2>2
<1>3. Finished(c) = IF c.spent = 0 THEN c ELSE [c EXCEPT !.regs = r]
  BY <1>1 DEF Finished, Calls
<1> HIDE DEF r
<1>4. ASSUME NEW d, d = [c EXCEPT !.regs = r]
      PROVE  /\ d \in Calls /\ d.regs = r /\ d.spent = c.spent /\ d.unsynced = c.unsynced
             /\ d.todo = c.todo /\ d.ch = c.ch /\ d.left = c.left
  BY <1>2, <1>4 DEF Calls
<1> QED
  BY <1>3, <1>4 DEF r

\* The stack st is the first k calls of old, outermost first, and c on top.
Over(st, k, c, old) ==
  /\ st \in Seq(Calls) /\ Len(st) = k + 1 /\ st[1] = c /\ At(st, k + 1) = c
  /\ \A i \in 1..k : At(st, i) = At(old, i)

LEMMA Pushed ==
  ASSUME NEW old \in Seq(Calls), NEW c \in Calls
  PROVE  Over(<<c>> \o old, Len(old), c, old)
<1> DEFINE st == <<c>> \o old
           n == Len(old)
<1>1. n \in Nat /\ <<c>> \in Seq(Calls) /\ Len(<<c>>) = 1
  OBVIOUS
<1>2. /\ st \in Seq(Calls) /\ Len(st) = n + 1 /\ st[1] = c
      /\ \A i \in 1..n : st[i + 1] = old[i]
  BY <1>1
<1> HIDE DEF st
<1>3. ASSUME NEW i \in 1..n PROVE At(st, i) = At(old, i)
  <2>1. n + 1 - i \in 1..n /\ (n + 1) + 1 - i = (n + 1 - i) + 1
    BY <1>1
  <2>2. st[(n + 1) + 1 - i] = old[n + 1 - i]
    BY <1>2, <2>1
  <2> QED
    BY <1>2, <2>2 DEF At
<1>4. At(st, n + 1) = c
  <2>1. (n + 1) + 1 - (n + 1) = 1
    BY <1>1
  <2> QED
    BY <1>2, <2>1 DEF At
<1> QED
  BY <1>2, <1>3, <1>4 DEF Over, st

LEMMA Popped ==
  ASSUME NEW old \in Seq(Calls), old # <<>>
  PROVE  /\ Tail(old) \in Seq(Calls) /\ Len(Tail(old)) = Len(old) - 1
         /\ \A i \in 1..Len(old)-1 : At(Tail(old), i) = At(old, i)
         /\ old[1] \in Calls /\ At(old, Len(old)) = old[1] /\ Len(old) \in Nat \ {0}
<1> DEFINE n == Len(old)
           t == Tail(old)
<1>1. n \in Nat \ {0} /\ old[1] \in Calls
  OBVIOUS
<1>2. t \in Seq(Calls) /\ Len(t) = n - 1 /\ \A i \in 1..n-1 : t[i] = old[i + 1]
  OBVIOUS
<1> HIDE DEF t
<1>3. ASSUME NEW i \in 1..n-1 PROVE At(t, i) = At(old, i)
  <2>1. (n - 1) + 1 - i \in 1..n-1 /\ ((n - 1) + 1 - i) + 1 = n + 1 - i
    BY <1>1
  <2> QED
    BY <1>2, <2>1 DEF At
<1>4. At(old, n) = old[1]
  <2>1. n + 1 - n = 1
    BY <1>1
  <2> QED
    BY <2>1 DEF At
<1> QED
  BY <1>1, <1>2, <1>3, <1>4 DEF t

LEMMA Replaced ==
  ASSUME NEW old \in Seq(Calls), old # <<>>, NEW c \in Calls
  PROVE  Over(<<c>> \o Tail(old), Len(old) - 1, c, old)
<1> DEFINE t == Tail(old)
<1>1. t \in Seq(Calls) /\ Len(t) = Len(old) - 1 /\ \A i \in 1..Len(old)-1 : At(t, i) = At(old, i)
  BY Popped
<1> HIDE DEF t
<1>2. Over(<<c>> \o t, Len(t), c, t)
  BY <1>1, Pushed
<1>3. Over(<<c>> \o t, Len(t), c, old)
  BY <1>1, <1>2 DEF Over
<1> QED
  BY <1>1, <1>3 DEF t

LEMMA Returned ==
  ASSUME NEW old \in Seq(Calls), Len(old) > 1, NEW c \in Calls
  PROVE  /\ Over(<<c>> \o Tail(Tail(old)), Len(old) - 2, c, old)
         /\ old[2] \in Calls /\ At(old, Len(old) - 1) = old[2]
<1> DEFINE t == Tail(old)
           n == Len(old)
<1>1. /\ old # <<>> /\ n \in Nat /\ n > 1
  OBVIOUS
<1>2. t \in Seq(Calls) /\ Len(t) = n - 1 /\ \A i \in 1..n-1 : At(t, i) = At(old, i)
  BY <1>1, Popped
<1>3. t[1] = old[2] /\ old[2] \in Calls
  BY <1>1
<1> HIDE DEF t, n
<1>4. t # <<>>
  BY <1>1, <1>2
<1>5. Over(<<c>> \o Tail(t), n - 2, c, t)
  <2>1. (n - 1) - 1 = n - 2
    BY <1>1
  <2> QED
    BY <1>2, <1>4, <2>1, Replaced
<1>6. \A i \in 1..n-2 : At(t, i) = At(old, i)
  BY <1>1, <1>2
<1>7. Over(<<c>> \o Tail(t), n - 2, c, old)
  BY <1>5, <1>6 DEF Over
<1>8. At(old, n - 1) = old[2]
  <2>1. n - 1 \in 1..n-1
    BY <1>1
  <2>2. At(t, n - 1) = t[1]
    <3>1. At(t, Len(t)) = t[1]
      BY <1>2, <1>4, Popped
    <3> QED
      BY <1>2, <3>1
  <2> QED
    BY <1>2, <1>3, <2>1, <2>2
<1> QED
  BY <1>3, <1>7, <1>8 DEF t, n

Agree(v, w, k) == \A i \in 1..k : w[i] = v[i]

\* Values that agree up to k have sums that do.
LEMMA SumsOver ==
  ASSUME NEW n \in Nat, NEW k \in 0..n, NEW v, NEW w, NEW x \in Nat, NEW f,
         NEW l, l = k + 1,
         Sums(v, n, f), Agree(v, w, k), w[l] = x
  PROVE  \E h : Sums(w, l, h) /\ h[l] = f[k] + x
<1> DEFINE h == [i \in 0..k+1 |-> IF i = k + 1 THEN f[k] + x ELSE f[i]]
<1>1. f \in [0..n -> Nat] /\ f[0] = 0 /\ \A i \in 1..n : f[i] = f[i - 1] + v[i]
  BY DEF Sums
<1>2. h \in [0..k+1 -> Nat] /\ h[0] = 0 /\ h[k + 1] = f[k] + x /\ h[k] = f[k]
  BY <1>1
<1>3. ASSUME NEW i \in 1..k+1 PROVE h[i] = h[i - 1] + w[i]
  <2>1. CASE i = k + 1
    <3>1. i - 1 = k
      BY <2>1
    <3> QED
      BY <1>2, <2>1, <3>1
  <2>2. CASE i # k + 1
    <3>1. i \in 1..k /\ i \in 1..n /\ i - 1 \in 0..k
      BY <2>2
    <3>2. h[i] = f[i] /\ h[i - 1] = f[i - 1]
      BY <2>2, <3>1
    <3> QED
      BY <1>1, <3>1, <3>2 DEF Agree
  <2> QED
    BY <2>1, <2>2
<1> HIDE DEF h
<1>4. Sums(w, k + 1, h)
  BY <1>2, <1>3 DEF Sums
<1> QED
  BY <1>2, <1>4

LEMMA SpentOver ==
  ASSUME NEW old \in Seq(Calls), NEW k \in 0..Len(old), NEW c \in Calls, NEW st,
         Over(st, k, c, old)
  PROVE  /\ \A i \in 1..k : Spent(st)[i] = Spent(old)[i] /\ Unsynced(st)[i] = Unsynced(old)[i]
         /\ Spent(st)[k + 1] = c.spent /\ Unsynced(st)[k + 1] = c.unsynced
<1>1. Len(old) \in Nat /\ k \in Nat /\ k <= Len(old)
  OBVIOUS
<1>2. Len(st) = k + 1 /\ At(st, k + 1) = c /\ \A i \in 1..k : At(st, i) = At(old, i)
  BY DEF Over
<1>3. \A i \in 1..k : i \in 1..Len(st) /\ i \in 1..Len(old)
  BY <1>1, <1>2
<1>4. k + 1 \in 1..Len(st)
  BY <1>1, <1>2
<1> QED
  BY <1>2, <1>3, <1>4 DEF Spent, Unsynced

\* The books when a step leaves the first k calls as they were and puts c on
\* top of them.
LEMMA BooksOver ==
  ASSUME NEW old \in Seq(Calls), NEW k \in 0..Len(old), NEW c \in Calls, NEW st,
         Over(st, k, c, old), NEW f, NEW g,
         Sums(Spent(old), Len(old), f), Sums(Unsynced(old), Len(old), g)
  PROVE  \E h, j :
           /\ Sums(Spent(st), Len(st), h) /\ Sums(Unsynced(st), Len(st), j)
           /\ h[Len(st)] = f[k] + c.spent /\ j[Len(st)] = g[k] + c.unsynced
<1>1. Len(st) = k + 1 /\ c.spent \in Nat /\ c.unsynced \in Nat /\ Len(old) \in Nat
  BY DEF Over, Calls
<1> DEFINE v == Spent(old)
           w == Spent(st)
           y == Unsynced(old)
           z == Unsynced(st)
           n == Len(old)
<1> DEFINE l == Len(st)
<1>2. /\ Agree(v, w, k) /\ Agree(y, z, k)
      /\ w[l] = c.spent /\ z[l] = c.unsynced
  BY <1>1, SpentOver DEF Agree
<1>3. n \in Nat /\ k \in 0..n /\ Sums(v, n, f) /\ Sums(y, n, g) /\ l = k + 1
  BY <1>1
<1> HIDE DEF v, w, y, z, n, l
<1>5. \E h : Sums(w, l, h) /\ h[l] = f[k] + c.spent
  BY <1>1, <1>2, <1>3, SumsOver
<1>6. \E j : Sums(z, l, j) /\ j[l] = g[k] + c.unsynced
  BY <1>1, <1>2, <1>3, SumsOver
<1> QED
  BY <1>5, <1>6 DEF w, z, l

-----------------------------------------------------------------------------
(* The outermost call's steps.                                             *)

\* The byte that is moved next.
Byte(o) == [a |-> o.regs[o.ch].src, b |-> BBus(o)]

LEMMA BegunIs ==
  ASSUME NEW q \in Asks, NEW m, NEW o \in Calls, NEW d, NEW k, NEW e,
         Begun(q, m, o, d, k, e)
  PROVE  /\ o.ch \in Channel /\ q.regs[o.ch] \in Settings /\ ~(o.ch \in d)
         /\ q.regs[o.ch].mode \in 0..7
         /\ o.regs[o.ch] = Amid(q.regs[o.ch], k) /\ k \in Nat
         /\ m[o.ch] = Taken(q.regs[o.ch], k + e)
<1>1. /\ o.ch \in Channel /\ Channel \subseteq Nat /\ q.regs \in [Channel -> Settings]
  BY DmaAssumption DEF Calls, Asks
<1>2. ~(o.ch \in d)
  <2>1. o.ch \in d => o.ch < o.ch
    BY DEF Begun
  <2>2. o.ch \in Nat
    BY <1>1
  <2>3. ~(o.ch < o.ch)
    BY <2>2
  <2> QED
    BY <2>1, <2>3
<1>3. q.regs[o.ch] \in Settings
  BY <1>1
<1>4. q.regs[o.ch].mode \in 0..7
  BY <1>3 DEF Settings
<1>5. /\ o.regs[o.ch] = Amid(q.regs[o.ch], k) /\ k \in Nat
      /\ m[o.ch] = Taken(q.regs[o.ch], k + e)
  BY <1>1, <1>2 DEF Begun
<1> QED
  BY <1>1, <1>2, <1>3, <1>4, <1>5

LEMMA MoveProg ==
  ASSUME NEW q \in Asks, NEW m, NEW o \in Calls, NEW d, NEW k, Begun(q, m, o, d, k, 0),
         o.left > 0
  PROVE  Begun(q, [m EXCEPT ![o.ch] = Append(@, Byte(o))], o, d, k, 1)
<1> DEFINE s == q.regs[o.ch]
           z == [m EXCEPT ![o.ch] = Append(@, Byte(o))]
<1>1. /\ o.ch \in Channel /\ s \in Settings /\ ~(o.ch \in d)
      /\ s.mode \in 0..7
      /\ o.regs[o.ch] = Amid(s, k) /\ k \in Nat
      /\ m[o.ch] = Taken(s, k + 0)
  <2>1. /\ o.ch \in Channel /\ q.regs[o.ch] \in Settings /\ ~(o.ch \in d)
        /\ q.regs[o.ch].mode \in 0..7
        /\ o.regs[o.ch] = Amid(q.regs[o.ch], k) /\ k \in Nat
        /\ m[o.ch] = Taken(q.regs[o.ch], k + 0)
    <3> HIDE DEF s, z
    <3> QED
      BY BegunIs
  <2> QED
    BY <2>1
<1>2. k + 0 = k /\ (k + 1) - 1 = k /\ o.left \in Nat
  BY <1>1 DEF Calls
<1>3. Byte(o) = ByteAt(s, k + 1)
  <2>1. Amid(s, k).src = SourceAt(s, k) /\ Amid(s, k).mode = s.mode
    BY <1>1, AmidIs
  <2>2. o.unit = k % Len(Pattern[s.mode])
    BY DEF Begun
  <2>3. ByteAt(s, k + 1) = [a |-> SourceAt(s, k),
                            b |-> Pattern[s.mode][1 + (k % Len(Pattern[s.mode]))]]
    BY <1>2 DEF ByteAt
  <2>4. BBus(o) = Pattern[s.mode][(k % Len(Pattern[s.mode])) + 1]
    BY <1>1, <2>1, <2>2 DEF BBus
  <2>5. Len(Pattern[s.mode]) \in 1..4
    BY <1>1, PatternIs
  <2>6. 1 + (k % Len(Pattern[s.mode])) = (k % Len(Pattern[s.mode])) + 1
    <3> DEFINE l == Len(Pattern[s.mode])
    <3> HIDE DEF l
    <3>1. l \in 1..4
      BY <2>5 DEF l
    <3>2. 1 + (k % l) = (k % l) + 1
      BY <1>1, <3>1
    <3> QED
      BY <3>2 DEF l
  <2> QED
    BY <1>1, <2>1, <2>3, <2>4, <2>6 DEF Byte
<1>4. Append(Taken(s, k), ByteAt(s, k + 1)) = Taken(s, k + 1)
  BY <1>1, TakenIs
<1>5. m = [c \in Channel |-> IF c \in d THEN Bytes(q.regs[c])
                             ELSE IF c = o.ch THEN Taken(q.regs[c], k + 0)
                             ELSE <<>>]
  BY DEF Begun
<1>6. z = [m EXCEPT ![o.ch] = Taken(s, k + 1)]
  BY <1>1, <1>2, <1>3, <1>4
<1>7. z = [c \in Channel |-> IF c \in d THEN Bytes(q.regs[c])
                             ELSE IF c = o.ch THEN Taken(q.regs[c], k + 1)
                             ELSE <<>>]
  BY <1>1, <1>5, <1>6
<1> HIDE DEF z
<1> QED
  BY <1>2, <1>7 DEF Begun, z

LEMMA BookProg ==
  ASSUME NEW q \in Asks, NEW m, NEW o \in Calls, NEW d, NEW k, Begun(q, m, o, d, k, 1)
  PROVE  o.left > 0 /\ Begun(q, m, Booked(o), d, k + 1, 0)
<1> DEFINE s == q.regs[o.ch]
           b == Booked(o)
           l == Len(Pattern[s.mode])
<1>1. /\ o.ch \in Channel /\ s \in Settings /\ ~(o.ch \in d) /\ s.mode \in 0..7
      /\ o.regs[o.ch] = Amid(s, k) /\ k \in Nat
  <2>1. /\ o.ch \in Channel /\ q.regs[o.ch] \in Settings /\ ~(o.ch \in d)
        /\ q.regs[o.ch].mode \in 0..7
        /\ o.regs[o.ch] = Amid(q.regs[o.ch], k) /\ k \in Nat
        /\ m[o.ch] = Taken(q.regs[o.ch], k + 1)
    <3> HIDE DEF s, b, l
    <3> QED
      BY BegunIs
  <2> QED
    BY <2>1
<1>2. /\ o.left \in Nat /\ o.spent \in Nat /\ ByteCycles \in Nat \ {0}
      /\ o.regs \in [Channel -> Settings]
  BY DmaAssumption DEF Calls
<1>3. o.left > 0 /\ 1 <= o.left
  BY <1>2 DEF Begun
<1>4. /\ b.regs = [o.regs EXCEPT ![o.ch].src = Step(o.regs[o.ch])]
      /\ b.todo = o.todo /\ b.ch = o.ch /\ b.left = o.left - 1
      /\ b.spent = o.spent + ByteCycles
      /\ b.unit = (o.unit + 1) % Len(Pattern[o.regs[o.ch].mode])
  BY <1>3, BookedIs
<1>5. /\ Amid(s, k).mode = s.mode /\ Step(Amid(s, k)) = SourceAt(s, k + 1)
      /\ [Amid(s, k) EXCEPT !.src = SourceAt(s, k + 1)] = Amid(s, k + 1)
  BY <1>1, AmidIs, SourceIs
<1>6. l \in 1..4
  BY <1>1, PatternIs
<1>7. b.unit = (k + 1) % l
  <2>1. o.unit = k % l
    BY DEF Begun
  <2>2. b.unit = (o.unit + 1) % l
    BY <1>1, <1>4, <1>5
  <2> HIDE DEF l, b
  <2>3. ((k % l) + 1) % l = (k + 1) % l
    <3>1. l \in Nat \ {0} /\ k \in Int
      BY <1>1, <1>6
    <3> QED
      BY <3>1, ModStep
  <2> QED
    BY <2>1, <2>2, <2>3
<1>8. b.regs = [c \in Channel |-> IF c \in d THEN After(q.regs[c])
                                  ELSE IF c = o.ch THEN Amid(q.regs[c], k + 1)
                                  ELSE q.regs[c]]
  <2>1. o.regs = [c \in Channel |-> IF c \in d THEN After(q.regs[c])
                                    ELSE IF c = o.ch THEN Amid(q.regs[c], k)
                                    ELSE q.regs[c]]
    BY DEF Begun
  <2>2. b.regs = [o.regs EXCEPT ![o.ch] = [o.regs[o.ch] EXCEPT !.src = Step(o.regs[o.ch])]]
    BY <1>4
  <2>3. b.regs = [o.regs EXCEPT ![o.ch] = Amid(s, k + 1)]
    BY <1>1, <1>5, <2>2
  <2> HIDE DEF b
  <2> QED
    BY <1>1, <2>1, <2>3
<1>9. /\ k + 1 \in Nat /\ (k + 1) + b.left = k + o.left /\ 0 <= b.left /\ b.spent > 0
      /\ k + 1 = (k + 1) + 0
  <2> HIDE DEF b
  <2>1. /\ k \in Nat /\ o.left \in Nat /\ 1 <= o.left /\ b.left = o.left - 1
        /\ o.spent \in Nat /\ b.spent = o.spent + ByteCycles /\ ByteCycles \in Nat \ {0}
    BY <1>1, <1>2, <1>3, <1>4
  <2> QED
    BY ONLY <2>1
<1>10. Begun(q, m, b, d, k + 1, 0)
  <2> HIDE DEF b
  <2>1. /\ d \subseteq Channel
        /\ q.mask = d \cup {b.ch} \cup b.todo
        /\ \A c \in d : c < b.ch
        /\ \A c \in b.todo : b.ch < c
    BY <1>4 DEF Begun
  <2>2. (k + 1) + b.left = SizeOf(q.regs[b.ch])
    BY <1>4, <1>9 DEF Begun
  <2>3. b.unit = (k + 1) % Len(Pattern[q.regs[b.ch].mode])
    BY <1>4, <1>7
  <2>4. m = [c \in Channel |-> IF c \in d THEN Bytes(q.regs[c])
                               ELSE IF c = b.ch THEN Taken(q.regs[c], (k + 1) + 0)
                               ELSE <<>>]
    BY <1>4, <1>9 DEF Begun
  <2>5. b.regs = [c \in Channel |-> IF c \in d THEN After(q.regs[c])
                                    ELSE IF c = b.ch THEN Amid(q.regs[c], k + 1)
                                    ELSE q.regs[c]]
    BY <1>4, <1>8
  <2> QED
    BY <1>9, <2>1, <2>2, <2>3, <2>4, <2>5 DEF Begun
<1> QED
  BY <1>3, <1>10

\* The channels of e, and no others, have been moved when o has finished.
Through(q, m, o, e) ==
  /\ m = [c \in Channel |-> IF c \in e THEN Bytes(q.regs[c]) ELSE <<>>]
  /\ Finished(o).regs = [c \in Channel |-> IF c \in e THEN After(q.regs[c]) ELSE q.regs[c]]

\* A finished channel's registers are as they shall be.
LEMMA FinishedProg ==
  ASSUME NEW q \in Asks, NEW m, NEW o \in Calls, NEW d, NEW k, Begun(q, m, o, d, k, 0),
         o.left = 0
  PROVE  Through(q, m, o, d \cup {o.ch})
<1> DEFINE s == q.regs[o.ch]
<1>1. /\ o.ch \in Channel /\ s \in Settings /\ ~(o.ch \in d)
      /\ o.regs[o.ch] = Amid(s, k) /\ k \in Nat
  <2>1. /\ o.ch \in Channel /\ q.regs[o.ch] \in Settings /\ ~(o.ch \in d)
        /\ q.regs[o.ch].mode \in 0..7
        /\ o.regs[o.ch] = Amid(q.regs[o.ch], k) /\ k \in Nat
        /\ m[o.ch] = Taken(q.regs[o.ch], k + 0)
    <3> HIDE DEF s
    <3> QED
      BY BegunIs
  <2> QED
    BY <2>1
<1>2. k = SizeOf(s) /\ k > 0 /\ k + 0 = k
  <2>1. k + o.left = SizeOf(s)
    BY DEF Begun
  <2> QED
    BY <1>1, <2>1, SizeIs
<1>3. o.spent > 0 /\ o.spent # 0
  BY <1>2 DEF Begun, Calls
<1>4. Finished(o).regs = [o.regs EXCEPT ![o.ch].size = 0]
  BY <1>3, FinishedIs
<1>5. Finished(o).regs = [o.regs EXCEPT ![o.ch] = After(s)]
  <2>1. Finished(o).regs = [o.regs EXCEPT ![o.ch] = [o.regs[o.ch] EXCEPT !.size = 0]]
    BY <1>4
  <2>2. [Amid(s, SizeOf(s)) EXCEPT !.size = 0] = After(s)
    BY <1>1, <1>2, AmidIs
  <2> QED
    BY <1>1, <1>2, <2>1, <2>2
<1>6. o.regs = [c \in Channel |-> IF c \in d THEN After(q.regs[c])
                                  ELSE IF c = o.ch THEN Amid(q.regs[c], k)
                                  ELSE q.regs[c]]
  BY DEF Begun
<1>7. m = [c \in Channel |-> IF c \in d THEN Bytes(q.regs[c])
                             ELSE IF c = o.ch THEN Taken(q.regs[c], k + 0)
                             ELSE <<>>]
  BY DEF Begun
<1>8. Bytes(s) = Taken(s, k)
  BY <1>1, <1>2, TakenIs
<1>9. m = [c \in Channel |-> IF c \in d \cup {o.ch} THEN Bytes(q.regs[c]) ELSE <<>>]
  BY <1>1, <1>2, <1>7, <1>8
<1>10. Finished(o).regs = [c \in Channel |-> IF c \in d \cup {o.ch}
                                            THEN After(q.regs[c]) ELSE q.regs[c]]
  BY <1>1, <1>5, <1>6
<1> QED
  BY <1>9, <1>10 DEF Through

\* The call's next channel.
Chosen(o, c) == [Finished(o) EXCEPT !.ch = c, !.todo = @ \ {c}, !.unit = 0,
                                    !.left = SizeOf(o.regs[c])]

LEMMA ChosenIs ==
  ASSUME NEW o \in Calls, NEW c \in o.todo
  PROVE  /\ Chosen(o, c) \in Calls /\ Chosen(o, c).ch = c /\ Chosen(o, c).todo = o.todo \ {c}
         /\ Chosen(o, c).unit = 0 /\ Chosen(o, c).left = SizeOf(o.regs[c])
         /\ Chosen(o, c).left > 0
         /\ Chosen(o, c).regs = Finished(o).regs
         /\ Chosen(o, c).spent = o.spent /\ Chosen(o, c).unsynced = o.unsynced
<1>1. /\ Finished(o) \in Calls /\ Finished(o).todo = o.todo
      /\ Finished(o).spent = o.spent /\ Finished(o).unsynced = o.unsynced
  BY FinishedIs
<1>2. c \in Channel /\ o.regs[c] \in Settings
  BY DEF Calls
<1>3. SizeOf(o.regs[c]) \in Nat \ {0}
  BY <1>2, SizeIs
<1> DEFINE t == o.todo \ {c}
           f == Finished(o)
           l == SizeOf(o.regs[c])
           n == Chosen(o, c)
<1>4. n = [f EXCEPT !.ch = c, !.todo = t, !.unit = 0, !.left = l]
  BY <1>1 DEF Chosen, Calls
<1>5. f \in Calls /\ t \in SUBSET Channel /\ l \in Nat /\ l > 0
  BY <1>1, <1>3 DEF Calls
<1> HIDE DEF t, f, l, n
<1>6. n = [regs |-> f.regs, todo |-> t, ch |-> c, left |-> l, unit |-> 0,
           spent |-> f.spent, unsynced |-> f.unsynced]
  BY <1>4, <1>5 DEF Calls
<1>7. f.regs \in [Channel -> Settings] /\ f.spent \in Nat /\ f.unsynced \in Nat
  BY <1>5 DEF Calls
<1>8. n \in Calls
  BY <1>2, <1>5, <1>6, <1>7 DEF Calls
<1>9. /\ n.ch = c /\ n.todo = t /\ n.unit = 0 /\ n.left = l
      /\ n.regs = f.regs /\ n.spent = f.spent /\ n.unsynced = f.unsynced
  BY <1>6
<1>10. f.spent = o.spent /\ f.unsynced = o.unsynced
  BY <1>1 DEF f
<1> QED
  BY <1>5, <1>8, <1>9, <1>10 DEF t, f, l, n

LEMMA NextProg ==
  ASSUME NEW q \in Asks, NEW m, NEW o \in Calls, o.left = 0, o.todo # {}, NEW c, c = Min(o.todo),
         Fresh(q, m, o) \/ \E d, k : Begun(q, m, o, d, k, 0)
  PROVE  /\ c \in o.todo
         /\ \E d, k : Begun(q, m, Chosen(o, c), d, k, 0)
<1> DEFINE n == Chosen(o, c)
<1>1. o.todo \subseteq Channel /\ Channel \subseteq Nat /\ q.regs \in [Channel -> Settings]
  BY DmaAssumption DEF Calls, Asks
<1>2. c \in o.todo /\ \A x \in o.todo : c <= x
  BY <1>1, MinIs
<1>3. c \in Channel /\ q.regs[c] \in Settings /\ q.regs[c].mode \in 0..7
  BY <1>1, <1>2 DEF Settings
<1>4. /\ n.ch = c /\ n.todo = o.todo \ {c} /\ n.unit = 0 /\ n.left = SizeOf(o.regs[c])
      /\ n.regs = Finished(o).regs
  BY <1>2, ChosenIs
<1>5. /\ Amid(q.regs[c], 0) = q.regs[c] /\ Taken(q.regs[c], 0) = <<>>
      /\ 0 % Len(Pattern[q.regs[c].mode]) = 0
  <2> DEFINE l == Len(Pattern[q.regs[c].mode])
  <2>1. l \in 1..4
    BY <1>3, PatternIs
  <2> HIDE DEF l
  <2>2. 0 % l = 0
    BY <2>1
  <2> QED
    BY <1>3, <2>2, AmidIs, TakenIs DEF l
<1>6. \A x \in n.todo : c < x
  <2> HIDE DEF n
  <2> QED
    BY <1>1, <1>2, <1>4
<1>7. ASSUME NEW d \in SUBSET Channel, q.mask = d \cup o.todo, \A x \in d : x < c,
             o.regs[c] = q.regs[c],
             m = [x \in Channel |-> IF x \in d THEN Bytes(q.regs[x]) ELSE <<>>],
             Finished(o).regs = [x \in Channel |-> IF x \in d THEN After(q.regs[x])
                                                   ELSE q.regs[x]]
      PROVE  Begun(q, m, n, d, 0, 0)
  <2> HIDE DEF n
  <2>1. 0 \in Nat /\ 0 + 0 = 0 /\ ~(0 > 0) /\ SizeOf(q.regs[c]) \in Nat
        /\ 0 + SizeOf(q.regs[c]) = SizeOf(q.regs[c]) /\ 0 <= SizeOf(q.regs[c])
    BY <1>3, SizeIs
  <2>2. n.regs = [x \in Channel |-> IF x \in d THEN After(q.regs[x])
                                    ELSE IF x = n.ch THEN Amid(q.regs[x], 0)
                                    ELSE q.regs[x]]
    BY <1>4, <1>5, <1>7
  <2>3. m = [x \in Channel |-> IF x \in d THEN Bytes(q.regs[x])
                               ELSE IF x = n.ch THEN Taken(q.regs[x], 0)
                               ELSE <<>>]
    BY <1>4, <1>5, <1>7
  <2>4. q.mask = d \cup {n.ch} \cup n.todo
    BY <1>2, <1>4, <1>7
  <2>5. n.unit = 0 % Len(Pattern[q.regs[n.ch].mode])
    BY <1>4, <1>5
  <2>6. 0 + n.left = SizeOf(q.regs[n.ch]) /\ 0 <= n.left
    BY <1>4, <1>7, <2>1
  <2>7. /\ d \subseteq Channel /\ 0 \in Nat /\ (0 > 0 => n.spent > 0)
        /\ \A x \in d : x < n.ch
        /\ \A x \in n.todo : n.ch < x
    BY <1>4, <1>6, <1>7, <2>1
  <2>8. m = [x \in Channel |-> IF x \in d THEN Bytes(q.regs[x])
                               ELSE IF x = n.ch THEN Taken(q.regs[x], 0 + 0)
                               ELSE <<>>]
    BY <2>1, <2>3
  <2> QED
    BY <2>2, <2>4, <2>5, <2>6, <2>7, <2>8 DEF Begun
<1>8. CASE Fresh(q, m, o)
  <2>1. q.mask = {} \cup o.todo /\ o.regs = q.regs /\ o.spent = 0
        /\ m = [x \in Channel |-> <<>>]
    BY <1>8 DEF Fresh, Nothing
  <2>2. Finished(o).regs = q.regs
    BY <2>1, FinishedIs
  <2>3. m = [x \in Channel |-> IF x \in {} THEN Bytes(q.regs[x]) ELSE <<>>]
    BY <2>1
  <2>4. Finished(o).regs = [x \in Channel |-> IF x \in {} THEN After(q.regs[x])
                                              ELSE q.regs[x]]
    BY <1>1, <2>2
  <2>5. {} \in SUBSET Channel /\ \A x \in {} : x < c
    OBVIOUS
  <2>6. Begun(q, m, n, {}, 0, 0)
    BY <1>7, <2>1, <2>3, <2>4, <2>5, Zenon
  <2> QED
    BY <1>2, <2>6
<1>9. CASE \E d, k : Begun(q, m, o, d, k, 0)
  <2>1. PICK d, k : Begun(q, m, o, d, k, 0)
    BY <1>9
  <2> DEFINE e == d \cup {o.ch}
  <2>2. /\ o.ch \in Channel /\ d \subseteq Channel /\ q.mask = e \cup o.todo
        /\ \A x \in d : x < o.ch
        /\ \A x \in o.todo : o.ch < x
    <3>1. o.ch \in Channel
      BY DEF Calls
    <3> QED
      BY <2>1, <3>1 DEF Begun
  <2>3. o.ch < c /\ \A x \in e : x < c
    <3>1. o.ch \in Nat /\ c \in Nat /\ o.ch < c
      BY <1>1, <1>2, <2>2
    <3>2. \A x \in d : x \in Nat
      BY <1>1, <2>2
    <3>3. \A x \in d : x < c
      BY <2>2, <3>1, <3>2
    <3> QED
      BY <3>1, <3>3
  <2>4. o.regs[c] = q.regs[c]
    <3>1. ~(c \in d) /\ c # o.ch
      BY <1>1, <1>2, <2>2, <2>3
    <3> QED
      BY <1>3, <2>1, <3>1 DEF Begun
  <2>5. /\ m = [x \in Channel |-> IF x \in e THEN Bytes(q.regs[x]) ELSE <<>>]
        /\ Finished(o).regs = [x \in Channel |-> IF x \in e THEN After(q.regs[x])
                                                 ELSE q.regs[x]]
    <3> HIDE DEF n
    <3> HIDE DEF e
    <3>1. Through(q, m, o, d \cup {o.ch})
      <4>1. o.left = 0 /\ q \in Asks /\ o \in Calls
        OBVIOUS
      <4> QED
        BY ONLY <2>1, <4>1, FinishedProg
    <3>2. e = d \cup {o.ch}
      BY DEF e
    <3> QED
      BY ONLY <3>1, <3>2 DEF Through
  <2>6. e \in SUBSET Channel
    BY <2>2
  <2> HIDE DEF e, n
  <2>7. Begun(q, m, n, e, 0, 0)
    BY <1>7, <2>2, <2>3, <2>4, <2>5, <2>6
  <2> QED
    BY <1>2, <2>7 DEF n
<1> QED
  BY <1>8, <1>9

LEMMA DoneProg ==
  ASSUME NEW q \in Asks, NEW m, NEW o \in Calls, o.left = 0, o.todo = {},
         Fresh(q, m, o) \/ \E d, k : Begun(q, m, o, d, k, 0)
  PROVE  m = AllMoved(q) /\ Finished(o).regs = AllAfter(q)
<1>1. q.regs \in [Channel -> Settings]
  BY DEF Asks
<1>2. CASE Fresh(q, m, o)
  <2>1. q.mask = {} /\ o.regs = q.regs /\ o.spent = 0 /\ m = [x \in Channel |-> <<>>]
    BY <1>2 DEF Fresh, Nothing
  <2>2. Finished(o).regs = q.regs
    BY <2>1, FinishedIs
  <2>3. AllMoved(q) = [x \in Channel |-> <<>>]
    BY <2>1 DEF AllMoved
  <2>4. AllAfter(q) = [x \in Channel |-> q.regs[x]]
    BY <2>1 DEF AllAfter
  <2> QED
    BY <1>1, <2>1, <2>2, <2>3, <2>4
<1>3. CASE \E d, k : Begun(q, m, o, d, k, 0)
  <2>1. PICK d, k : Begun(q, m, o, d, k, 0)
    BY <1>3
  <2>2. q.mask = d \cup {o.ch}
    BY <2>1 DEF Begun
  <2>3. Through(q, m, o, d \cup {o.ch})
    <3>1. o.left = 0 /\ q \in Asks /\ o \in Calls
      OBVIOUS
    <3> QED
      BY ONLY <2>1, <3>1, FinishedProg
  <2> QED
    BY ONLY <2>2, <2>3 DEF Through, AllMoved, AllAfter
<1> QED
  BY <1>2, <1>3

-----------------------------------------------------------------------------
(* The outermost call in the stack.                                        *)

\* The numbers of calls that the cases below distinguish.
LEMMA Counts ==
  ASSUME NEW l \in Nat \ {0}
  PROVE  /\ l = 1 \/ (l > 1 /\ l \in 1..l /\ l - 1 \in 1..l)
         /\ (l > 1 /\ l # 2) => l - 2 \in 1..l
         /\ l > 1 => l # 1
OBVIOUS

LEMMA Beneath ==
  ASSUME NEW q \in Asks, NEW m, NEW old \in Seq(Calls), NEW k \in 1..Len(old), Len(old) > 1,
         NEW c \in Calls, NEW st, Over(st, k, c, old), Where(q, m, old)
  PROVE  Where(q, m, st)
<1>0. Len(old) \in Nat /\ Len(old) > 1
  OBVIOUS
<1>1. k \in Nat /\ k > 0 /\ Len(st) = k + 1 /\ Len(old) \in Nat /\ 1 \in 1..k
  BY DEF Over
<1>2. At(st, 1) = At(old, 1)
  BY <1>1 DEF Over
<1>3. Under(st) = Under(old)
  <2>1. Len(st) # 1
    BY <1>1
  <2>2. Len(old) # 1
    <3> DEFINE l == Len(old)
    <3>1. l \in Nat /\ l > 1
      BY <1>0
    <3> HIDE DEF l
    <3>2. l # 1
      BY <3>1
    <3> QED
      BY <3>2 DEF l
  <2> QED
    BY <2>1, <2>2 DEF Under
<1> QED
  BY <1>2, <1>3 DEF Where

LEMMA Alone ==
  ASSUME NEW old \in Seq(Calls), Len(old) = 1
  PROVE  At(old, 1) = old[1] /\ Under(old) = 0 /\ old[1] \in Calls
<1>1. old # <<>>
  OBVIOUS
<1>2. At(old, Len(old)) = old[1] /\ old[1] \in Calls
  BY <1>1, Popped
<1> QED
  BY <1>2 DEF Under

LEMMA OnlyOver ==
  ASSUME NEW old, NEW c \in Calls, NEW st, Over(st, 0, c, old)
  PROVE  At(st, 1) = c /\ Under(st) = 0
BY DEF Over, Under

LEMMA WhereMoves ==
  ASSUME NEW q \in Asks, NEW m, NEW old \in Seq(Calls), old # <<>>, old[1].left > 0,
         NEW st, Over(st, Len(old) - 1, Booked(old[1]), old), Where(q, m, old),
         NEW n, n = IF Len(old) = 1 THEN [m EXCEPT ![old[1].ch] = Append(@, Byte(old[1]))] ELSE m
  PROVE  Where(q, n, st)
<1> DEFINE o == old[1]
<1>1. o \in Calls /\ Len(old) \in Nat \ {0} /\ Booked(o) \in Calls /\ o.left # 0
  <2>1. o \in Calls /\ Len(old) \in Nat \ {0}
    BY Popped
  <2>2. o.left \in Nat
    BY <2>1 DEF Calls
  <2>3. o.left > 0
    OBVIOUS
  <2> HIDE DEF o
  <2>4. Booked(o) \in Calls
    BY <2>1, <2>3, BookedIs
  <2>5. o.left # 0
    BY <2>2, <2>3
  <2> QED
    BY <2>1, <2>4, <2>5
<1>2. CASE Len(old) = 1
  <2>1. At(old, 1) = o /\ Under(old) = 0
    BY <1>2, Alone
  <2>2. At(st, 1) = Booked(o) /\ Under(st) = 0
    <3>1. Over(st, 0, Booked(o), old)
      BY <1>2
    <3> HIDE DEF o
    <3> QED
      BY <1>1, <3>1, OnlyOver
  <2>3. PICK d, k : Begun(q, m, o, d, k, 0)
    BY <1>1, <2>1 DEF Where, Fresh
  <2>4. n = [m EXCEPT ![o.ch] = Append(@, Byte(o))]
    BY <1>2
  <2> HIDE DEF o
  <2>5. o.left > 0
    BY DEF o
  <2>6. Begun(q, [m EXCEPT ![o.ch] = Append(@, Byte(o))], o, d, k, 1)
    BY ONLY <1>1, <2>3, <2>5, MoveProg, q \in Asks
  <2>7. Begun(q, n, o, d, k, 1)
    BY <2>4, <2>6
  <2>8. Begun(q, n, Booked(o), d, k + 1, 0)
    BY ONLY <1>1, <2>7, BookProg, q \in Asks
  <2> QED
    BY <2>2, <2>8 DEF Where
<1>3. CASE Len(old) # 1
  <2>1. Len(old) > 1 /\ Len(old) - 1 \in 1..Len(old)
    BY <1>1, <1>3, Counts
  <2> QED
    BY <1>1, <1>3, <2>1, Beneath
<1> QED
  BY <1>2, <1>3

LEMMA WhereEnters ==
  ASSUME NEW q \in Asks, NEW m, NEW old \in Seq(Calls), old # <<>>, old[1].left > 0,
         NEW c \in Calls, NEW st, Over(st, Len(old), c, old), Where(q, m, old),
         NEW n, n = IF Len(old) = 1 THEN [m EXCEPT ![old[1].ch] = Append(@, Byte(old[1]))] ELSE m
  PROVE  Where(q, n, st)
<1> DEFINE o == old[1]
<1>1. o \in Calls /\ Len(old) \in Nat \ {0} /\ o.left # 0
  <2>1. o \in Calls /\ Len(old) \in Nat \ {0}
    BY Popped
  <2>2. o.left \in Nat
    BY <2>1 DEF Calls
  <2> QED
    BY <2>1, <2>2
<1>2. CASE Len(old) = 1
  <2>1. At(old, 1) = o /\ Under(old) = 0
    BY <1>2, Alone
  <2>2. At(st, 1) = o /\ Under(st) = 1
    BY <1>2, <2>1 DEF Over, Under
  <2>3. PICK d, k : Begun(q, m, o, d, k, 0)
    BY <1>1, <2>1 DEF Where, Fresh
  <2>4. n = [m EXCEPT ![o.ch] = Append(@, Byte(o))]
    BY <1>2
  <2> HIDE DEF o
  <2>5. o.left > 0
    BY DEF o
  <2>6. Begun(q, [m EXCEPT ![o.ch] = Append(@, Byte(o))], o, d, k, 1)
    BY ONLY <1>1, <2>3, <2>5, MoveProg, q \in Asks
  <2>7. Begun(q, n, o, d, k, 1)
    BY <2>4, <2>6
  <2> QED
    BY <2>2, <2>7 DEF Where
<1>3. CASE Len(old) # 1
  <2>1. Len(old) > 1 /\ Len(old) \in 1..Len(old)
    BY <1>1, <1>3, Counts
  <2> QED
    BY <1>1, <1>3, <2>1, Beneath
<1> QED
  BY <1>2, <1>3

LEMMA WhereNexts ==
  ASSUME NEW q \in Asks, NEW m, NEW old \in Seq(Calls), old # <<>>, old[1].left = 0,
         old[1].todo # {}, NEW c, c = Min(old[1].todo),
         NEW st, Over(st, Len(old) - 1, Chosen(old[1], c), old), Where(q, m, old)
  PROVE  Where(q, m, st)
<1> DEFINE o == old[1]
<1>1. o \in Calls /\ Len(old) \in Nat \ {0}
  BY Popped
<1>2. c \in o.todo
  <2>1. o.todo \in SUBSET Nat
    BY <1>1, DmaAssumption DEF Calls
  <2> QED
    BY <2>1, MinIs
<1>3. Chosen(o, c) \in Calls
  BY <1>1, <1>2, ChosenIs
<1>4. CASE Len(old) = 1
  <2>1. At(old, 1) = o /\ Under(old) = 0
    BY <1>4, Alone
  <2>2. At(st, 1) = Chosen(o, c) /\ Under(st) = 0
    <3>1. Over(st, 0, Chosen(o, c), old)
      BY <1>4
    <3> HIDE DEF o
    <3> QED
      BY <1>3, <3>1, OnlyOver
  <2>3. Fresh(q, m, o) \/ \E d, k : Begun(q, m, o, d, k, 0)
    BY <2>1 DEF Where
  <2>4. o.left = 0 /\ o.todo # {} /\ c = Min(o.todo)
    OBVIOUS
  <2> HIDE DEF o
  <2>5. \E d, k : Begun(q, m, Chosen(o, c), d, k, 0)
    BY ONLY <1>1, <2>3, <2>4, NextProg, q \in Asks
  <2> QED
    BY <2>2, <2>5 DEF Where
<1>5. CASE Len(old) # 1
  <2>1. Len(old) > 1 /\ Len(old) - 1 \in 1..Len(old)
    BY <1>1, <1>5, Counts
  <2> QED
    BY <1>3, <2>1, Beneath
<1> QED
  BY <1>4, <1>5

LEMMA WhereReturns ==
  ASSUME NEW q \in Asks, NEW m, NEW old \in Seq(Calls), Len(old) > 1,
         NEW st, Over(st, Len(old) - 2, Booked(old[2]), old), Where(q, m, old),
         old[2].left > 0, old[2] \in Calls
  PROVE  Where(q, m, st)
<1> DEFINE o == old[2]
<1>1. o \in Calls /\ Len(old) \in Nat \ {0} /\ Len(old) > 1 /\ Booked(o) \in Calls
  <2>1. o \in Calls /\ o.left > 0 /\ Len(old) \in Nat \ {0} /\ Len(old) > 1
    OBVIOUS
  <2> HIDE DEF o
  <2> QED
    BY <2>1, BookedIs
<1>2. CASE Len(old) = 2
  <2>1. At(old, 1) = o /\ Under(old) = 1
    BY <1>2 DEF At, Under
  <2>2. At(st, 1) = Booked(o) /\ Under(st) = 0
    <3>1. Over(st, 0, Booked(o), old)
      BY <1>2
    <3> HIDE DEF o
    <3> QED
      BY <1>1, <3>1, OnlyOver
  <2>3. PICK d, k : Begun(q, m, o, d, k, 1)
    BY <2>1 DEF Where
  <2> HIDE DEF o
  <2>4. Begun(q, m, Booked(o), d, k + 1, 0)
    BY ONLY <1>1, <2>3, BookProg, q \in Asks
  <2> QED
    BY <2>2, <2>4 DEF Where
<1>3. CASE Len(old) # 2
  <2>1. Len(old) - 2 \in 1..Len(old)
    BY <1>1, <1>3, Counts
  <2> QED
    BY <1>1, <2>1, Beneath
<1> QED
  BY <1>2, <1>3

-----------------------------------------------------------------------------
(* The books of the calls in the stack.                                    *)

\* The sums grow by what the innermost call has, and before that by what the one
\* that it is inside has.
TopIs(st, n, f, g) ==
  /\ n \in Nat \ {0} /\ st[1] \in Calls
  /\ f[n] = f[n - 1] + st[1].spent /\ g[n] = g[n - 1] + st[1].unsynced
  /\ f[n] \in Nat /\ f[n - 1] \in Nat /\ g[n] \in Nat /\ g[n - 1] \in Nat
  /\ n > 1 => /\ st[2] \in Calls
              /\ f[n - 1] = f[n - 2] + st[2].spent /\ f[n - 2] \in Nat
              /\ g[n - 1] = g[n - 2] + st[2].unsynced /\ g[n - 2] \in Nat

\* The sums at the top, at the call below it, and below that.
LEMMA TopSums ==
  ASSUME NEW st \in Seq(Calls), NEW n, n = Len(st), n # 0, NEW f, NEW g,
         Sums(Spent(st), n, f), Sums(Unsynced(st), n, g)
  PROVE  TopIs(st, n, f, g)
<1>1. n \in Nat \ {0} /\ st # <<>>
  OBVIOUS
<1>2. At(st, n) = st[1] /\ st[1] \in Calls
  BY <1>1, Popped
<1>3. n > 1 => At(st, n - 1) = st[2] /\ st[2] \in Calls
  <2>1. ASSUME n > 1 PROVE st[2] \in Calls
    BY <2>1
  <2>2. (n + 1) - (n - 1) = 2
    BY <1>1
  <2> QED
    BY <2>1, <2>2 DEF At
<1>4. /\ n \in 1..n /\ n - 1 \in 0..n /\ n \in 0..n
      /\ n > 1 => n - 1 \in 1..n /\ n - 2 \in 0..n /\ (n - 1) - 1 = n - 2
  BY <1>1
<1>5. /\ Spent(st)[n] = st[1].spent /\ Unsynced(st)[n] = st[1].unsynced
      /\ n > 1 => Spent(st)[n - 1] = st[2].spent /\ Unsynced(st)[n - 1] = st[2].unsynced
  BY <1>2, <1>3, <1>4 DEF Spent, Unsynced
<1> DEFINE v == Spent(st)
           w == Unsynced(st)
<1> HIDE DEF v, w
<1>6. /\ f \in [0..n -> Nat] /\ \A i \in 1..n : f[i] = f[i - 1] + v[i]
      /\ g \in [0..n -> Nat] /\ \A i \in 1..n : g[i] = g[i - 1] + w[i]
  BY DEF Sums, v, w
<1>7. f[n] = f[n - 1] + v[n] /\ g[n] = g[n - 1] + w[n]
  BY <1>4, <1>6
<1>8. n > 1 => f[n - 1] = f[n - 2] + v[n - 1] /\ g[n - 1] = g[n - 2] + w[n - 1]
  BY <1>4, <1>6
<1>9. /\ f[n] \in Nat /\ f[n - 1] \in Nat /\ g[n] \in Nat /\ g[n - 1] \in Nat
      /\ n > 1 => f[n - 2] \in Nat /\ g[n - 2] \in Nat
  BY <1>4, <1>6
<1> QED
  BY <1>1, <1>2, <1>3, <1>5, <1>7, <1>8, <1>9 DEF v, w, TopIs

LEMMA Cycles ==
  ASSUME NEW y \in Nat, NEW n \in Nat
  PROVE  /\ ByteCycles \in Nat \ {0} /\ ByteCycles * y \in Nat
         /\ ByteCycles * (y + 1) = ByteCycles * y + ByteCycles
         /\ ByteCycles * ((n + 1) - 1) = ByteCycles * (n - 1) + ByteCycles
         /\ ByteCycles * (n - 1) \in Int /\ ByteCycles * 0 = 0
<1>1. ByteCycles \in Nat \ {0}
  BY DmaAssumption
<1> QED
  BY <1>1

LEMMA BalanceStarts ==
  ASSUME NEW c \in Calls, c.spent = 0, c.unsynced = 0, NEW st, Over(st, 0, c, <<>>)
  PROVE  Balance(0, 0, 0, st)
<1> DEFINE z == [i \in 0..0 |-> 0]
           e == <<>>
           n == Len(st)
<1>1. e \in Seq(Calls) /\ Len(e) = 0 /\ 0 \in 0..Len(e)
  OBVIOUS
<1>2. Sums(Spent(e), Len(e), z) /\ Sums(Unsynced(e), Len(e), z) /\ z[0] = 0
  BY <1>1 DEF Sums
<1>3. n = 1
  BY DEF Over
<1> DEFINE k == 0
<1>4. /\ Over(st, k, c, e) /\ k \in 0..Len(e) /\ e \in Seq(Calls)
      /\ Sums(Spent(e), Len(e), z) /\ Sums(Unsynced(e), Len(e), z)
  BY <1>1, <1>2
<1> HIDE DEF e, z, k
<1>5. \E h, j :
        /\ Sums(Spent(st), Len(st), h) /\ Sums(Unsynced(st), Len(st), j)
        /\ h[Len(st)] = z[k] + c.spent /\ j[Len(st)] = z[k] + c.unsynced
  BY <1>4, BooksOver
<1>6. PICK h, j : /\ Sums(Spent(st), n, h) /\ Sums(Unsynced(st), n, j)
                  /\ h[n] = 0 /\ j[n] = 0
  <2>1. z[k] = 0
    BY <1>2 DEF k
  <2> QED
    BY <1>5, <2>1
<1> HIDE DEF n
<1>7. /\ 0 + h[n] + ByteCycles * (n - 1) = ByteCycles * 0
      /\ 0 + j[n] = 0 + h[n]
  BY <1>3, <1>6, Cycles
<1> QED
  BY <1>6, <1>7 DEF Balance, n

\* What a step that leaves k calls and puts c on top changes: the sums at the top.
LEMMA BalanceOver ==
  ASSUME NEW old \in Seq(Calls), NEW k \in 0..Len(old), NEW c \in Calls, NEW st,
         Over(st, k, c, old), NEW f, NEW g,
         Sums(Spent(old), Len(old), f), Sums(Unsynced(old), Len(old), g),
         NEW p, NEW a, NEW y,
         p + (f[k] + c.spent) + ByteCycles * ((k + 1) - 1) = ByteCycles * y,
         a + (g[k] + c.unsynced) = p + (f[k] + c.spent)
  PROVE  Balance(p, a, y, st)
<1> DEFINE n == Len(st)
<1>1. \E h, j :
        /\ Sums(Spent(st), Len(st), h) /\ Sums(Unsynced(st), Len(st), j)
        /\ h[Len(st)] = f[k] + c.spent /\ j[Len(st)] = g[k] + c.unsynced
  BY BooksOver
<1>2. PICK h, j : /\ Sums(Spent(st), n, h) /\ Sums(Unsynced(st), n, j)
                  /\ h[n] = f[k] + c.spent /\ j[n] = g[k] + c.unsynced
  BY <1>1
<1>3. n = k + 1
  BY DEF Over
<1> HIDE DEF n
<1>4. /\ p + h[n] + ByteCycles * (n - 1) = ByteCycles * y
      /\ a + j[n] = p + h[n]
  BY <1>2, <1>3
<1> QED
  BY <1>2, <1>4 DEF Balance, n

\* A call begins inside the byte that was the write of MDMAEN.
LEMMA BalanceEnters ==
  ASSUME NEW old \in Seq(Calls), old # <<>>, NEW c \in Calls, c.spent = 0, c.unsynced = 0,
         NEW st, Over(st, Len(old), c, old),
         NEW p \in Nat, NEW a \in Nat, NEW y \in Nat, Balance(p, a, y, old)
  PROVE  Balance(p, a, y + 1, st)
<1> DEFINE n == Len(old)
<1>1. PICK f, g : /\ Sums(Spent(old), n, f) /\ Sums(Unsynced(old), n, g)
                  /\ p + f[n] + ByteCycles * (n - 1) = ByteCycles * y
                  /\ a + g[n] = p + f[n]
  BY DEF Balance
<1>2. n # 0
  OBVIOUS
<1>3. n \in Nat \ {0} /\ f[n] \in Nat /\ g[n] \in Nat
  <2>1. old \in Seq(Calls) /\ n = Len(old)
    OBVIOUS
  <2> HIDE DEF n
  <2>2. TopIs(old, n, f, g)
    BY ONLY <1>1, <1>2, <2>1, TopSums
  <2> QED
    BY ONLY <1>2, <2>1, <2>2 DEF TopIs
<1> DEFINE u == ByteCycles * (n - 1)
           v == ByteCycles * y
<1>4. /\ ByteCycles * ((n + 1) - 1) = u + ByteCycles /\ ByteCycles * (y + 1) = v + ByteCycles
      /\ u \in Int /\ v \in Nat /\ ByteCycles \in Nat
  BY <1>3, Cycles
<1>5. p + f[n] + u = v /\ a + g[n] = p + f[n]
  BY <1>1
<1> HIDE DEF n, u, v
<1>6. /\ p + (f[n] + c.spent) + (u + ByteCycles) = v + ByteCycles
      /\ a + (g[n] + c.unsynced) = p + (f[n] + c.spent)
  <2> DEFINE x == f[n]
             z == g[n]
  <2>1. /\ x \in Nat /\ z \in Nat /\ p + x + u = v /\ a + z = p + x
        /\ c.spent = 0 /\ c.unsynced = 0
    BY <1>3, <1>5
  <2> HIDE DEF x, z
  <2>2. p + (x + 0) + (u + ByteCycles) = v + ByteCycles /\ a + (z + 0) = p + (x + 0)
    BY <1>4, <2>1
  <2> QED
    BY <2>1, <2>2 DEF x, z
<1>7. n \in 0..n
  BY <1>3
<1>8. p + (f[n] + c.spent) + ByteCycles * ((n + 1) - 1) = ByteCycles * (y + 1)
  BY <1>4, <1>6
<1> QED
  BY <1>1, <1>6, <1>7, <1>8, BalanceOver DEF n

\* The innermost call books a byte.
LEMMA BalanceMoves ==
  ASSUME NEW old \in Seq(Calls), old # <<>>, old[1].left > 0,
         NEW st, Over(st, Len(old) - 1, Booked(old[1]), old),
         NEW p \in Nat, NEW a \in Nat, NEW y \in Nat, Balance(p, a, y, old)
  PROVE  Balance(p, a + Credit(old[1]), y + 1, st)
<1> DEFINE n == Len(old)
           o == old[1]
           b == Booked(o)
           r == Credit(o)
<1>1. PICK f, g : /\ Sums(Spent(old), n, f) /\ Sums(Unsynced(old), n, g)
                  /\ p + f[n] + ByteCycles * (n - 1) = ByteCycles * y
                  /\ a + g[n] = p + f[n]
  BY DEF Balance
<1>2. n # 0 /\ o.left > 0
  OBVIOUS
<1>3. /\ n \in Nat \ {0} /\ f[n - 1] \in Nat /\ g[n - 1] \in Nat /\ o \in Calls
      /\ f[n] = f[n - 1] + o.spent /\ g[n] = g[n - 1] + o.unsynced
  <2>1. n = Len(old) /\ old[1] = o
    OBVIOUS
  <2> HIDE DEF n, o, b, r
  <2>2. /\ n \in Nat \ {0} /\ f[n - 1] \in Nat /\ g[n - 1] \in Nat /\ old[1] \in Calls
        /\ f[n] = f[n - 1] + old[1].spent /\ g[n] = g[n - 1] + old[1].unsynced
    <3>1. old \in Seq(Calls)
      OBVIOUS
    <3>2. TopIs(old, n, f, g)
      BY ONLY <1>1, <1>2, <2>1, <3>1, TopSums
    <3> QED
      BY ONLY <3>2 DEF TopIs
  <2> QED
    BY <2>1, <2>2
<1>4. o.spent \in Nat /\ o.unsynced \in Nat
  BY <1>3 DEF Calls
<1>5. /\ b \in Calls /\ b.spent = o.spent + ByteCycles /\ r \in Nat
      /\ r + b.unsynced = o.unsynced + ByteCycles
  <2> HIDE DEF o
  <2> QED
    BY <1>2, <1>3, BookedIs
<1>6. b.unsynced \in Nat
  BY <1>5 DEF Calls
<1> DEFINE u == ByteCycles * (n - 1)
           v == ByteCycles * y
<1>7. /\ ByteCycles * (y + 1) = v + ByteCycles
      /\ u \in Int /\ v \in Nat /\ ByteCycles \in Nat
  BY <1>3, Cycles
<1>8. p + f[n] + u = v /\ a + g[n] = p + f[n]
  BY <1>1
<1>9. (n - 1) + 1 = n /\ n - 1 \in 0..n /\ ByteCycles * (((n - 1) + 1) - 1) = u
  BY <1>3
<1> HIDE DEF n, u, v, o, b, r
<1>10. /\ p + (f[n - 1] + b.spent) + u = v + ByteCycles
       /\ (a + r) + (g[n - 1] + b.unsynced) = p + (f[n - 1] + b.spent)
  <2> DEFINE x == f[n - 1]
             z == g[n - 1]
             os == o.spent
             ou == o.unsynced
             bs == b.spent
             bu == b.unsynced
  <2>1. /\ x \in Nat /\ z \in Nat /\ os \in Nat /\ ou \in Nat /\ bu \in Nat /\ r \in Nat
        /\ u \in Int /\ v \in Nat /\ ByteCycles \in Nat
        /\ bs = os + ByteCycles /\ r + bu = ou + ByteCycles
    BY <1>3, <1>4, <1>5, <1>6, <1>7
  <2>2. p + (x + os) + u = v /\ a + (z + ou) = p + (x + os)
    BY <1>3, <1>8
  <2> HIDE DEF x, z, os, ou, bs, bu
  <2>3. p + (x + bs) + u = v + ByteCycles /\ (a + r) + (z + bu) = p + (x + bs)
    BY <2>1, <2>2
  <2> QED
    BY <2>3 DEF x, z, bs, bu
<1>11. /\ p + (f[n - 1] + b.spent) + ByteCycles * (((n - 1) + 1) - 1) = ByteCycles * (y + 1)
       /\ Over(st, n - 1, b, old)
  BY <1>7, <1>9, <1>10 DEF b, n, o
<1>12. Balance(p, a + r, y + 1, st)
  BY <1>1, <1>5, <1>9, <1>10, <1>11, BalanceOver DEF n
<1> QED
  BY <1>12 DEF r, o

\* A step that leaves what the innermost call has spent.
LEMMA BalanceKeeps ==
  ASSUME NEW old \in Seq(Calls), old # <<>>, NEW c \in Calls,
         c.spent = old[1].spent, c.unsynced = old[1].unsynced,
         NEW st, Over(st, Len(old) - 1, c, old),
         NEW p \in Nat, NEW a \in Nat, NEW y \in Nat, Balance(p, a, y, old)
  PROVE  Balance(p, a, y, st)
<1> DEFINE n == Len(old)
           o == old[1]
<1>1. PICK f, g : /\ Sums(Spent(old), n, f) /\ Sums(Unsynced(old), n, g)
                  /\ p + f[n] + ByteCycles * (n - 1) = ByteCycles * y
                  /\ a + g[n] = p + f[n]
  BY DEF Balance
<1>2. n # 0
  OBVIOUS
<1>3. /\ n \in Nat \ {0}
      /\ f[n] = f[n - 1] + o.spent /\ g[n] = g[n - 1] + o.unsynced
  <2>1. old \in Seq(Calls) /\ n = Len(old) /\ o = old[1]
    OBVIOUS
  <2> HIDE DEF n, o
  <2>2. TopIs(old, n, f, g)
    BY ONLY <1>1, <1>2, <2>1, TopSums
  <2> QED
    BY ONLY <1>2, <2>1, <2>2 DEF TopIs
<1>4. (n - 1) + 1 = n /\ n - 1 \in 0..n
  BY <1>3
<1>5. c.spent = o.spent /\ c.unsynced = o.unsynced
  OBVIOUS
<1> HIDE DEF n, o
<1>6. /\ p + (f[n - 1] + c.spent) + ByteCycles * (((n - 1) + 1) - 1) = ByteCycles * y
      /\ a + (g[n - 1] + c.unsynced) = p + (f[n - 1] + c.spent)
  BY <1>1, <1>3, <1>4, <1>5
<1> QED
  BY <1>1, <1>4, <1>6, BalanceOver DEF n

\* The innermost call returns into another, which books its byte.
LEMMA BalanceReturns ==
  ASSUME NEW old \in Seq(Calls), Len(old) > 1, old[2].left > 0,
         NEW st, Over(st, Len(old) - 2, Booked(old[2]), old),
         NEW p \in Nat, NEW a \in Nat, NEW y \in Nat, Balance(p, a, y, old)
  PROVE  Balance(p + old[1].spent, a + old[1].unsynced + Credit(old[2]), y, st)
<1> DEFINE n == Len(old)
           i == old[1]
           o == old[2]
           b == Booked(o)
           r == Credit(o)
<1>1. PICK f, g : /\ Sums(Spent(old), n, f) /\ Sums(Unsynced(old), n, g)
                  /\ p + f[n] + ByteCycles * (n - 1) = ByteCycles * y
                  /\ a + g[n] = p + f[n]
  BY DEF Balance
<1>2. n # 0 /\ n > 1 /\ o.left > 0
  OBVIOUS
<1>3. /\ n \in Nat \ {0} /\ f[n - 2] \in Nat /\ g[n - 2] \in Nat /\ o \in Calls /\ i \in Calls
      /\ f[n] = f[n - 1] + i.spent /\ g[n] = g[n - 1] + i.unsynced
      /\ f[n - 1] = f[n - 2] + o.spent /\ g[n - 1] = g[n - 2] + o.unsynced
  <2>1. old \in Seq(Calls) /\ n = Len(old) /\ i = old[1] /\ o = old[2]
    OBVIOUS
  <2> HIDE DEF n, i, o, b, r
  <2>2. TopIs(old, n, f, g)
    BY ONLY <1>1, <1>2, <2>1, TopSums
  <2> QED
    BY ONLY <1>2, <2>1, <2>2 DEF TopIs
<1>4. o.spent \in Nat /\ o.unsynced \in Nat /\ i.spent \in Nat /\ i.unsynced \in Nat
  BY <1>3 DEF Calls
<1>5. /\ b \in Calls /\ b.spent = o.spent + ByteCycles /\ r \in Nat
      /\ r + b.unsynced = o.unsynced + ByteCycles
  <2> HIDE DEF o
  <2> QED
    BY <1>2, <1>3, BookedIs
<1>6. b.unsynced \in Nat
  BY <1>5 DEF Calls
<1> DEFINE u == ByteCycles * (n - 1)
           w == ByteCycles * (n - 2)
           v == ByteCycles * y
<1>7. u = w + ByteCycles /\ w \in Int /\ v \in Nat /\ ByteCycles \in Nat
  <2>1. /\ n - 2 \in Nat /\ (n - 2) + 1 = n - 1
    BY <1>2, <1>3
  <2> DEFINE j == n - 2
  <2>2. ByteCycles \in Nat /\ v \in Nat
    BY Cycles
  <2>3. j \in Nat /\ u = ByteCycles * (j + 1) /\ w = ByteCycles * j
    BY <2>1
  <2> HIDE DEF j, u, w
  <2>4. ByteCycles * (j + 1) = ByteCycles * j + ByteCycles /\ ByteCycles * j \in Nat
    BY <2>3, Cycles
  <2> QED
    BY <2>2, <2>3, <2>4
<1>8. p + f[n] + u = v /\ a + g[n] = p + f[n]
  BY <1>1
<1>9. /\ (n - 2) + 1 = n - 1 /\ n - 2 \in 0..n
      /\ ((n - 2) + 1) - 1 = n - 2
  BY <1>2, <1>3
<1>10. Over(st, n - 2, b, old)
  OBVIOUS
<1> HIDE DEF n, u, v, w, o, b, r, i
<1>11. /\ (p + i.spent) + (f[n - 2] + b.spent) + w = v
       /\ (a + i.unsynced + r) + (g[n - 2] + b.unsynced) = (p + i.spent) + (f[n - 2] + b.spent)
  <2> DEFINE x == f[n - 2]
             z == g[n - 2]
             os == o.spent
             ou == o.unsynced
             ns == i.spent
             nu == i.unsynced
             bs == b.spent
             bu == b.unsynced
  <2>1. /\ x \in Nat /\ z \in Nat /\ os \in Nat /\ ou \in Nat /\ bu \in Nat /\ r \in Nat
        /\ ns \in Nat /\ nu \in Nat
        /\ w \in Int /\ v \in Nat /\ ByteCycles \in Nat /\ u = w + ByteCycles
        /\ bs = os + ByteCycles /\ r + bu = ou + ByteCycles
    BY <1>3, <1>4, <1>5, <1>6, <1>7
  <2>2. p + (x + os + ns) + u = v /\ a + (z + ou + nu) = p + (x + os + ns)
    BY <1>3, <1>8
  <2> HIDE DEF x, z, os, ou, bs, bu, ns, nu
  <2>3. /\ (p + ns) + (x + bs) + w = v
        /\ (a + nu + r) + (z + bu) = (p + ns) + (x + bs)
    BY <2>1, <2>2
  <2> QED
    BY <2>3 DEF x, z, bs, bu, ns, nu
<1>12. (p + i.spent) + (f[n - 2] + b.spent) + ByteCycles * (((n - 2) + 1) - 1) = ByteCycles * y
  BY <1>9, <1>11 DEF v, w
<1>13. Balance(p + i.spent, a + i.unsynced + r, y, st)
  BY <1>1, <1>5, <1>9, <1>10, <1>11, <1>12, BalanceOver DEF n
<1> QED
  BY <1>13 DEF r, o, i

\* The outermost call returns.
LEMMA BalanceEnds ==
  ASSUME NEW old \in Seq(Calls), Len(old) = 1,
         NEW p \in Nat, NEW a \in Nat, NEW y \in Nat, Balance(p, a, y, old)
  PROVE  /\ p + old[1].spent = ByteCycles * y
         /\ a + old[1].unsynced = p + old[1].spent
<1> DEFINE o == old[1]
           n == Len(old)
<1>1. PICK f, g : /\ Sums(Spent(old), n, f) /\ Sums(Unsynced(old), n, g)
                  /\ p + f[n] + ByteCycles * (n - 1) = ByteCycles * y
                  /\ a + g[n] = p + f[n]
  BY DEF Balance
<1>2. n = 1 /\ n # 0 /\ n - 1 = 0
  OBVIOUS
<1>3. /\ f[n] = f[n - 1] + o.spent /\ g[n] = g[n - 1] + o.unsynced /\ o \in Calls
      /\ f[n] \in Nat /\ g[n] \in Nat
  <2>1. old \in Seq(Calls) /\ n = Len(old) /\ o = old[1]
    OBVIOUS
  <2> HIDE DEF n, o
  <2>2. TopIs(old, n, f, g)
    BY ONLY <1>1, <1>2, <2>1, TopSums
  <2> QED
    BY ONLY <1>2, <2>1, <2>2 DEF TopIs
<1>4. f[0] = 0 /\ g[0] = 0
  BY <1>1 DEF Sums
<1>5. o.spent \in Nat /\ o.unsynced \in Nat
  BY <1>3 DEF Calls
<1> HIDE DEF n, o
<1>6. f[n] = o.spent /\ g[n] = o.unsynced
  BY <1>2, <1>3, <1>4, <1>5
<1>7. ByteCycles * 0 = 0
  BY Cycles
<1>8. p + o.spent = ByteCycles * y /\ a + o.unsynced = p + o.spent
  BY <1>1, <1>2, <1>5, <1>6, <1>7
<1> QED
  BY <1>8 DEF o

-----------------------------------------------------------------------------
(* The actions.                                                            *)

LEMMA WaitsOver ==
  ASSUME NEW old \in Seq(Calls), NEW k \in 0..Len(old), NEW c \in Calls, NEW st,
         Over(st, k, c, old), Waits(old), k = Len(old) /\ old # <<>> => old[1].left > 0
  PROVE  Waits(st)
<1>1. Len(st) - 1 = k /\ k \in Nat /\ Len(old) \in Nat
  BY DEF Over
<1>2. SUFFICES ASSUME NEW i \in 1..k PROVE At(old, i).left > 0
  BY <1>1 DEF Over, Waits
<1>3. CASE i \in 1..Len(old)-1
  BY <1>3 DEF Waits
<1>4. CASE ~(i \in 1..Len(old)-1)
  <2> DEFINE n == Len(old)
  <2>1. n \in Nat /\ k <= n
    BY <1>1
  <2> HIDE DEF n
  <2>2. i = n /\ k = n /\ n # 0
    BY <1>1, <1>4, <2>1 DEF n
  <2>3. old # <<>>
    BY <2>2 DEF n
  <2> QED
    BY <2>2, <2>3, Popped DEF n
<1> QED
  BY <1>3, <1>4

\* A call with the registers r and the channels in mask.
Starting(r, mask) == [regs |-> r, todo |-> mask, ch |-> Min(Channel), left |-> 0, unit |-> 0,
                      spent |-> 0, unsynced |-> 0]

LEMMA StartingIs ==
  ASSUME NEW r \in [Channel -> Settings], NEW mask \in SUBSET Channel
  PROVE  Starting(r, mask) \in Calls
<1>1. Min(Channel) \in Channel
  BY DmaAssumption, MinIs
<1> QED
  BY <1>1 DEF Starting, Calls

LEMMA PlaceholderIs == Placeholder \in [Channel -> Settings]
<1>1. 0 \in 0..AddrSize-1
  BY DmaAssumption
<1>2. Zeroed \in Settings
  BY <1>1 DEF Zeroed, Settings
<1> QED
  BY <1>2 DEF Placeholder

LEMMA InitInv == Init => DmaInv
<1> SUFFICES ASSUME Init PROVE DmaInv
  OBVIOUS
<1>1. /\ dma = Placeholder /\ stack = <<>> /\ pending = 0 /\ advance = 0
      /\ asked = [regs |-> dma, mask |-> {}] /\ moved = Nothing /\ bytes = 0
  BY DEF Init
<1>2. dma \in [Channel -> Settings]
  BY <1>1, PlaceholderIs
<1>3. DmaType
  BY <1>1, <1>2 DEF DmaType, Asks
<1>4. Waits(stack)
  BY <1>1 DEF Waits
<1>5. Progress
  BY <1>1, <1>2 DEF Progress, AllMoved, AllAfter, Nothing
<1>6. Books
  BY <1>1, Cycles DEF Books
<1> QED
  BY <1>3, <1>4, <1>5, <1>6 DEF DmaInv

LEMMA WriteChannelInv ==
  ASSUME DmaInv, NEW c \in Channel, NEW s \in Configs, WriteChannel(c, s)
  PROVE  DmaInv'
<1>1. /\ stack = <<>> /\ stack' = <<>> /\ dma' = [dma EXCEPT ![c] = s]
      /\ asked' = [asked EXCEPT !.regs = dma', !.mask = {}]
      /\ moved' = Nothing /\ bytes' = 0 /\ pending' = 0 /\ advance' = 0
  BY DEF WriteChannel
<1>2. s \in Settings
  <2>1. s \in Setting
    BY DmaAssumption
  <2>2. 0..MaxSize-1 \subseteq Nat
    BY DmaAssumption
  <2> QED
    BY <2>1, <2>2 DEF Setting, Settings
<1>3. dma' \in [Channel -> Settings]
  BY <1>1, <1>2 DEF DmaInv, DmaType
<1>4. asked' = [regs |-> dma', mask |-> {}]
  <2>1. asked \in Asks
    BY DEF DmaInv, DmaType
  <2> QED
    BY <1>1, <2>1 DEF Asks
<1>5. DmaType'
  BY <1>1, <1>3, <1>4 DEF DmaType, Asks
<1>6. Waits(stack)'
  BY <1>1 DEF Waits
<1>7. Progress'
  BY <1>1, <1>3, <1>4 DEF Progress, AllMoved, AllAfter, Nothing
<1>8. Books'
  BY <1>1, Cycles DEF Books
<1> QED
  BY <1>5, <1>6, <1>7, <1>8 DEF DmaInv

LEMMA WriteMdmaenInv ==
  ASSUME DmaInv, NEW mask \in SUBSET Channel, WriteMdmaen(mask)
  PROVE  DmaInv'
<1> DEFINE c == Starting(dma, mask)
<1>1. /\ stack = <<>> /\ stack' = <<c>> \o stack /\ dma' = Placeholder
      /\ asked' = [regs |-> dma, mask |-> mask]
      /\ moved' = Nothing /\ bytes' = 0 /\ pending' = 0 /\ advance' = 0
  BY DEF WriteMdmaen, Enter, Starting
<1>2. dma \in [Channel -> Settings] /\ asked' \in Asks
  BY <1>1 DEF DmaInv, DmaType, Asks
<1>3. /\ c \in Calls /\ c.spent = 0 /\ c.unsynced = 0 /\ c.left = 0 /\ c.todo = mask
      /\ c.regs = dma
  BY <1>2, StartingIs DEF Starting
<1> HIDE DEF c
<1>4. Over(stack', 0, c, <<>>)
  <2> DEFINE e == <<>>
  <2>1. e \in Seq(Calls) /\ Len(e) = 0
    OBVIOUS
  <2> HIDE DEF e
  <2>2. Over(<<c>> \o e, Len(e), c, e)
    BY <1>3, <2>1, Pushed
  <2> QED
    BY <1>1, <2>1, <2>2 DEF e
<1>5. stack' \in Seq(Calls) /\ stack' # <<>> /\ Len(stack') = 1
  <2>1. stack' \in Seq(Calls) /\ Len(stack') = 1
    BY <1>4 DEF Over
  <2>2. stack' = <<>> => Len(stack') = 0
    OBVIOUS
  <2> QED
    BY <2>1, <2>2
<1>6. DmaType'
  BY <1>1, <1>2, <1>5, PlaceholderIs DEF DmaType
<1>7. Waits(stack)'
  BY <1>5 DEF Waits
<1>8. Progress'
  <2>1. At(stack', 1) = c /\ Under(stack') = 0
    BY <1>3, <1>4, OnlyOver
  <2>2. Fresh(asked', moved', c)
    BY <1>1, <1>3 DEF Fresh
  <2>3. Where(asked', moved', stack')
    BY <2>1, <2>2 DEF Where
  <2> QED
    BY <1>5, <2>3 DEF Progress
<1>9. Books'
  <2>1. Balance(0, 0, 0, stack')
    BY <1>3, <1>4, BalanceStarts
  <2> QED
    BY <1>1, <1>5, <2>1 DEF Books
<1> QED
  BY <1>6, <1>7, <1>8, <1>9 DEF DmaInv

\* A stack with calls in it.
LEMMA OverIs ==
  ASSUME NEW st, NEW k \in Nat, NEW c, NEW old, Over(st, k, c, old)
  PROVE  st \in Seq(Calls) /\ st # <<>>
<1>1. st \in Seq(Calls) /\ Len(st) = k + 1
  BY DEF Over
<1>2. st = <<>> => Len(st) = 0
  OBVIOUS
<1>3. k + 1 # 0
  OBVIOUS
<1> QED
  BY <1>1, <1>2, <1>3

\* While there are calls.
LEMMA Running ==
  ASSUME DmaInv, stack # <<>>
  PROVE  /\ stack \in Seq(Calls) /\ Top \in Calls /\ Len(stack) \in Nat \ {0}
         /\ Len(stack) - 1 \in 0..Len(stack) /\ Len(stack) \in 0..Len(stack)
         /\ ~(Len(stack) - 1 = Len(stack))
         /\ asked \in Asks /\ pending \in Nat /\ advance \in Nat /\ bytes \in Nat
         /\ Waits(stack) /\ Where(asked, moved, stack)
         /\ Balance(pending, advance, bytes, stack)
<1>1. /\ stack \in Seq(Calls) /\ asked \in Asks
      /\ pending \in Nat /\ advance \in Nat /\ bytes \in Nat
      /\ Waits(stack)
  BY DEF DmaInv, DmaType
<1>2. Where(asked, moved, stack)
  BY DEF DmaInv, Progress
<1>3. Balance(pending, advance, bytes, stack)
  BY DEF DmaInv, Books
<1>4. Top \in Calls /\ Len(stack) \in Nat \ {0}
  BY <1>1, Popped DEF Top
<1> DEFINE n == Len(stack)
<1>5. n \in Nat \ {0}
  BY <1>4
<1> HIDE DEF n
<1>6. n - 1 \in 0..n /\ n \in 0..n /\ ~(n - 1 = n)
  BY <1>5
<1> QED
  BY <1>1, <1>2, <1>3, <1>4, <1>6 DEF n

\* What the books of a byte say in the state.
LEMMA RememberIs ==
  ASSUME Remember
  PROVE  /\ bytes' = bytes + 1
         /\ moved' = IF Len(stack) = 1
                       THEN [moved EXCEPT ![stack[1].ch] = Append(@, Byte(stack[1]))]
                       ELSE moved
BY DEF Remember, Byte, Top, Current

\* A byte whose write is not one of MDMAEN.
LEMMA MoveInv ==
  ASSUME DmaInv, stack # <<>>, Top.left > 0, stack' = SetTop(Booked(Top)),
         advance' = advance + Credit(Top), Remember, UNCHANGED <<pending, asked>>,
         dma' \in [Channel -> Settings]
  PROVE  DmaInv'
<1> DEFINE n == Len(stack)
<1>1. /\ stack \in Seq(Calls) /\ Top \in Calls /\ n \in Nat \ {0}
      /\ n - 1 \in 0..n /\ n \in 0..n /\ ~(n - 1 = n)
      /\ asked \in Asks /\ pending \in Nat /\ advance \in Nat /\ bytes \in Nat
      /\ Waits(stack) /\ Where(asked, moved, stack)
      /\ Balance(pending, advance, bytes, stack)
  BY Running
<1>2. Booked(Top) \in Calls /\ Credit(Top) \in Nat
  BY <1>1, BookedIs
<1> HIDE DEF n
<1>3. Over(stack', n - 1, Booked(Top), stack)
  BY <1>1, <1>2, Replaced DEF n, SetTop
<1>4. n - 1 \in Nat
  BY <1>1
<1>5. stack' \in Seq(Calls) /\ stack' # <<>>
  BY <1>3, <1>4, OverIs
<1>6. /\ bytes' = bytes + 1
      /\ moved' = IF Len(stack) = 1
                    THEN [moved EXCEPT ![stack[1].ch] = Append(@, Byte(stack[1]))]
                    ELSE moved
  BY RememberIs
<1>7. DmaType'
  BY <1>1, <1>2, <1>5, <1>6 DEF DmaType
<1>8. Waits(stack')
  BY <1>1, <1>2, <1>3, WaitsOver DEF n
<1>9. Progress'
  <2>1. stack[1].left > 0 /\ Over(stack', Len(stack) - 1, Booked(stack[1]), stack)
    BY <1>3 DEF Top, n
  <2>2. Where(asked, moved', stack')
    BY <1>1, <1>6, <2>1, WhereMoves
  <2> QED
    BY <1>5, <2>2 DEF Progress
<1>10. Books'
  <2>1. stack[1].left > 0 /\ Over(stack', Len(stack) - 1, Booked(stack[1]), stack)
    BY <1>3 DEF Top, n
  <2>2. Balance(pending, advance + Credit(stack[1]), bytes + 1, stack')
    BY <1>1, <2>1, BalanceMoves
  <2> QED
    BY <1>5, <1>6, <2>2 DEF Books, Top
<1> QED
  BY <1>7, <1>8, <1>9, <1>10 DEF DmaInv

LEMMA MoveByteInv == DmaInv /\ MoveByte => DmaInv'
<1> SUFFICES ASSUME DmaInv, MoveByte PROVE DmaInv'
  OBVIOUS
<1>1. dma' \in [Channel -> Settings]
  BY DEF MoveByte, DmaInv, DmaType
<1> QED
  BY <1>1, MoveInv DEF MoveByte

LEMMA MoveToRegisterInv ==
  ASSUME DmaInv, NEW c \in Channel, NEW size \in {0, 1}, MoveToRegister(c, size)
  PROVE  DmaInv'
<1>1. dma \in [Channel -> Settings] /\ dma' = [dma EXCEPT ![c].size = size]
  BY DEF MoveToRegister, DmaInv, DmaType
<1>2. dma' \in [Channel -> Settings]
  <2>1. [dma[c] EXCEPT !.size = size] \in Settings
    BY <1>1 DEF Settings
  <2>2. dma' = [dma EXCEPT ![c] = [dma[c] EXCEPT !.size = size]]
    BY <1>1
  <2> QED
    BY <1>1, <2>1, <2>2
<1> QED
  BY <1>2, MoveInv DEF MoveToRegister

LEMMA MoveToMdmaenInv ==
  ASSUME DmaInv, NEW mask \in SUBSET Channel, MoveToMdmaen(mask)
  PROVE  DmaInv'
<1> DEFINE n == Len(stack)
           c == Starting(dma, mask)
<1>0. /\ stack # <<>> /\ Top.left > 0 /\ stack' = <<c>> \o stack /\ dma' = Placeholder
      /\ Remember /\ UNCHANGED <<pending, advance, transfers, asked>>
  BY DEF MoveToMdmaen, Enter, Starting
<1>1. /\ stack \in Seq(Calls) /\ Top \in Calls /\ n \in Nat \ {0}
      /\ n - 1 \in 0..n /\ n \in 0..n
      /\ asked \in Asks /\ pending \in Nat /\ advance \in Nat /\ bytes \in Nat
      /\ Waits(stack) /\ Where(asked, moved, stack)
      /\ Balance(pending, advance, bytes, stack)
  BY <1>0, Running
<1>2. c \in Calls /\ c.spent = 0 /\ c.unsynced = 0
  <2>1. dma \in [Channel -> Settings]
    BY DEF DmaInv, DmaType
  <2> QED
    BY <2>1, StartingIs DEF Starting
<1> HIDE DEF n, c
<1>3. Over(stack', n, c, stack)
  BY <1>0, <1>1, <1>2, Pushed DEF n
<1>4. n \in Nat
  BY <1>1
<1>5. stack' \in Seq(Calls) /\ stack' # <<>>
  BY <1>3, <1>4, OverIs
<1>6. /\ bytes' = bytes + 1
      /\ moved' = IF Len(stack) = 1
                    THEN [moved EXCEPT ![stack[1].ch] = Append(@, Byte(stack[1]))]
                    ELSE moved
  BY <1>0, RememberIs
<1>7. DmaType'
  BY <1>0, <1>1, <1>5, <1>6, PlaceholderIs DEF DmaType
<1>8. stack[1].left > 0 /\ Over(stack', Len(stack), c, stack)
  BY <1>0, <1>3 DEF Top, n
<1>9. Waits(stack')
  BY <1>1, <1>2, <1>3, <1>8, WaitsOver DEF n
<1>10. Progress'
  <2>1. Where(asked, moved', stack')
    BY <1>0, <1>1, <1>2, <1>6, <1>8, WhereEnters
  <2> QED
    BY <1>0, <1>5, <2>1 DEF Progress
<1>11. Books'
  <2>1. Balance(pending, advance, bytes + 1, stack')
    BY <1>0, <1>1, <1>2, <1>8, BalanceEnters
  <2> QED
    BY <1>0, <1>5, <1>6, <2>1 DEF Books
<1> QED
  BY <1>7, <1>9, <1>10, <1>11 DEF DmaInv

LEMMA NextChannelInv == DmaInv /\ NextChannel => DmaInv'
<1> SUFFICES ASSUME DmaInv, NextChannel PROVE DmaInv'
  OBVIOUS
<1> DEFINE n == Len(stack)
           o == stack[1]
           c == Min(o.todo)
           b == Chosen(o, c)
<1>0. /\ stack # <<>> /\ o.left = 0 /\ o.todo # {} /\ stack' = <<b>> \o Tail(stack)
      /\ UNCHANGED <<dma, pending, advance, asked, moved, bytes>>
  BY DEF NextChannel, Top, SetTop, Chosen
<1>1. /\ stack \in Seq(Calls) /\ o \in Calls /\ n \in Nat \ {0}
      /\ n - 1 \in 0..n /\ n \in 0..n /\ ~(n - 1 = n)
      /\ asked \in Asks /\ pending \in Nat /\ advance \in Nat /\ bytes \in Nat
      /\ Waits(stack) /\ Where(asked, moved, stack)
      /\ Balance(pending, advance, bytes, stack)
  BY <1>0, Running DEF Top
<1>2. c \in o.todo
  <2>1. o.todo \in SUBSET Nat
    BY <1>1, DmaAssumption DEF Calls
  <2> QED
    BY <1>0, <2>1, MinIs
<1>3. b \in Calls /\ b.spent = o.spent /\ b.unsynced = o.unsynced
  BY <1>1, <1>2, ChosenIs
<1> HIDE DEF n, o, c, b
<1>4. Over(stack', n - 1, b, stack)
  BY <1>0, <1>1, <1>3, Replaced DEF n
<1>5. stack' \in Seq(Calls) /\ stack' # <<>>
  <2>1. n - 1 \in Nat
    BY <1>1
  <2> QED
    BY <1>4, <2>1, OverIs
<1>6. DmaType'
  BY <1>0, <1>5 DEF DmaType, DmaInv
<1>7. Waits(stack')
  BY <1>1, <1>3, <1>4, WaitsOver DEF n
<1>8. Over(stack', Len(stack) - 1, Chosen(stack[1], c), stack) /\ c = Min(stack[1].todo)
      /\ stack[1].left = 0 /\ stack[1].todo # {}
  BY <1>0, <1>4 DEF n, o, b, c
<1>9. Progress'
  <2>1. Where(asked, moved, stack')
    BY <1>0, <1>1, <1>8, WhereNexts
  <2> QED
    BY <1>0, <1>5, <2>1 DEF Progress
<1>10. Books'
  <2>1. b.spent = stack[1].spent /\ b.unsynced = stack[1].unsynced
        /\ Over(stack', Len(stack) - 1, b, stack)
    BY <1>3, <1>4 DEF o, n
  <2>2. Balance(pending, advance, bytes, stack')
    BY <1>0, <1>1, <1>3, <2>1, BalanceKeeps
  <2> QED
    BY <1>0, <1>5, <2>2 DEF Books
<1> QED
  BY <1>6, <1>7, <1>9, <1>10 DEF DmaInv

LEMMA ReturnInv == DmaInv /\ Return => DmaInv'
<1> SUFFICES ASSUME DmaInv, Return PROVE DmaInv'
  OBVIOUS
<1> DEFINE n == Len(stack)
           o == stack[1]
           f == Finished(o)
<1>0. /\ stack # <<>> /\ o.left = 0 /\ o.todo = {}
      /\ dma' = f.regs /\ pending' = pending + f.spent
      /\ IF n = 1
           THEN stack' = <<>> /\ advance' = advance + f.unsynced
           ELSE /\ stack' = <<Booked(stack[2])>> \o Tail(Tail(stack))
                /\ advance' = advance + f.unsynced + Credit(stack[2])
      /\ UNCHANGED <<asked, moved, bytes>>
  BY DEF Return, Top, Restored, RestOf
<1>1. /\ stack \in Seq(Calls) /\ o \in Calls /\ n \in Nat \ {0}
      /\ asked \in Asks /\ pending \in Nat /\ advance \in Nat /\ bytes \in Nat
      /\ Waits(stack) /\ Where(asked, moved, stack)
      /\ Balance(pending, advance, bytes, stack)
  BY <1>0, Running DEF Top
<1>2. /\ f \in Calls /\ f.spent = o.spent /\ f.unsynced = o.unsynced
  BY <1>1, FinishedIs
<1>3. f.regs \in [Channel -> Settings] /\ o.spent \in Nat /\ o.unsynced \in Nat
  BY <1>1, <1>2 DEF Calls
<1>4. CASE n = 1
  <2>1. /\ stack' = <<>> /\ advance' = advance + o.unsynced /\ pending' = pending + o.spent
    BY <1>0, <1>2, <1>4
  <2>2. DmaType'
    <3>1. dma' \in [Channel -> Settings] /\ UNCHANGED <<asked, bytes>>
      BY <1>0, <1>3
    <3>2. stack' \in Seq(Calls)
      BY <2>1
    <3>3. pending' \in Nat /\ advance' \in Nat
      <4>1. pending \in Nat /\ advance \in Nat
        BY <1>1
      <4> HIDE DEF o, n, f
      <4> QED
        BY ONLY <1>3, <2>1, <4>1
    <3> QED
      BY ONLY <1>1, <3>1, <3>2, <3>3 DEF DmaType
  <2>3. Waits(stack)'
    BY <2>1 DEF Waits
  <2>4. Progress'
    <3>1. At(stack, 1) = o /\ Under(stack) = 0
      BY <1>1, <1>4, Alone
    <3>2. Fresh(asked, moved, o) \/ \E d, k : Begun(asked, moved, o, d, k, 0)
      BY <1>1, <3>1 DEF Where
    <3> HIDE DEF o, f
    <3>3. moved = AllMoved(asked) /\ Finished(o).regs = AllAfter(asked)
      BY <1>0, <1>1, <3>2, DoneProg
    <3> QED
      BY <1>0, <2>1, <3>3 DEF Progress, f
  <2>5. Books'
    <3>1. /\ pending + o.spent = ByteCycles * bytes
          /\ advance + o.unsynced = pending + o.spent
      BY <1>1, <1>4, BalanceEnds
    <3> QED
      BY <1>0, <2>1, <3>1 DEF Books
  <2> QED
    BY <2>2, <2>3, <2>4, <2>5 DEF DmaInv
<1>5. CASE n # 1
  <2> DEFINE w == stack[2]
             b == Booked(w)
  <2>0. n > 1 /\ n - 1 \in 1..n-1 /\ n - 2 \in 0..n /\ n - 2 \in Nat /\ ~(n - 2 = n)
    <3> HIDE DEF n
    <3> QED
      BY <1>1, <1>5
  <2>1. /\ stack' = <<b>> \o Tail(Tail(stack)) /\ pending' = pending + o.spent
        /\ advance' = advance + o.unsynced + Credit(w)
    BY <1>0, <1>2, <1>5
  <2>2. w \in Calls /\ At(stack, n - 1) = w
    BY <1>1, <2>0, Returned
  <2>3. w.left > 0
    BY <1>1, <2>0, <2>2 DEF Waits
  <2>4. b \in Calls /\ Credit(w) \in Nat
    <3> HIDE DEF w
    <3> QED
      BY <2>2, <2>3, BookedIs
  <2> HIDE DEF w, b
  <2>5. Over(stack', n - 2, b, stack)
    BY <1>1, <2>0, <2>1, <2>4, Returned
  <2> HIDE DEF n, o, f
  <2>6. stack' \in Seq(Calls) /\ stack' # <<>>
    BY <2>0, <2>5, OverIs
  <2>7. DmaType'
    <3>1. dma' \in [Channel -> Settings]
      BY <1>0, <1>3
    <3>2. pending' \in Nat /\ advance' \in Nat
      <4> DEFINE x == o.spent
                 y == o.unsynced
                 z == Credit(w)
      <4>1. /\ x \in Nat /\ y \in Nat /\ z \in Nat /\ pending \in Nat /\ advance \in Nat
            /\ pending' = pending + x /\ advance' = advance + y + z
        BY <1>1, <1>3, <2>1, <2>4
      <4> HIDE DEF x, y, z
      <4> QED
        BY <4>1
    <3> QED
      BY <1>0, <1>1, <2>6, <3>1, <3>2 DEF DmaType
  <2>8. Waits(stack')
    BY <1>1, <2>0, <2>4, <2>5, WaitsOver DEF n
  <2>9. /\ Len(stack) > 1 /\ Over(stack', Len(stack) - 2, Booked(stack[2]), stack)
        /\ stack[2].left > 0 /\ stack[2] \in Calls
    BY <2>0, <2>2, <2>3, <2>5 DEF n, b, w
  <2>10. Progress'
    <3>1. Where(asked, moved, stack')
      BY <1>1, <2>9, WhereReturns
    <3> QED
      BY <1>0, <2>6, <3>1 DEF Progress
  <2>11. Books'
    <3>1. Balance(pending + stack[1].spent, advance + stack[1].unsynced + Credit(stack[2]),
                  bytes, stack')
      BY <1>1, <2>9, BalanceReturns
    <3> QED
      BY <1>0, <2>1, <2>6, <3>1 DEF Books, o, w
  <2> QED
    BY <2>7, <2>8, <2>10, <2>11 DEF DmaInv
<1> QED
  BY <1>4, <1>5

LEMMA DmaNextInv == DmaInv /\ [Next]_vars => DmaInv'
<1> SUFFICES ASSUME DmaInv, [Next]_vars PROVE DmaInv'
  OBVIOUS
<1>1. ASSUME NEW c \in Channel, NEW s \in Configs, WriteChannel(c, s) PROVE DmaInv'
  BY <1>1, WriteChannelInv
<1>2. ASSUME NEW mask \in SUBSET Channel, WriteMdmaen(mask) PROVE DmaInv'
  BY <1>2, WriteMdmaenInv
<1>3. ASSUME NEW mask \in SUBSET Channel, MoveToMdmaen(mask) PROVE DmaInv'
  BY <1>3, MoveToMdmaenInv
<1>4. ASSUME NEW c \in Channel, NEW size \in {0, 1}, MoveToRegister(c, size) PROVE DmaInv'
  BY <1>4, MoveToRegisterInv
<1>5. CASE UNCHANGED vars
  <2>1. /\ dma' = dma /\ stack' = stack /\ pending' = pending /\ advance' = advance
        /\ asked' = asked /\ moved' = moved /\ bytes' = bytes
    BY <1>5 DEF vars
  <2>2. DmaType' /\ Waits(stack)' /\ Progress' /\ Books'
    BY <2>1 DEF DmaInv, DmaType, Waits, At, Progress, Where, Books, Balance
  <2> QED
    BY <2>2 DEF DmaInv
<1> QED
  BY <1>1, <1>2, <1>3, <1>4, <1>5, MoveByteInv, NextChannelInv, ReturnInv DEF Next

THEOREM DmaHolds == TransfersSpec => []DmaInv
<1>1. TransfersInit => DmaInv
  BY InitInv DEF TransfersInit
<1>2. DmaInv /\ [TransfersNext]_<<focus, vars, hdmaVars>> => DmaInv'
  <2> SUFFICES ASSUME DmaInv, [TransfersNext]_<<focus, vars, hdmaVars>> PROVE [Next]_vars
    BY DmaNextInv
  <2> QED
    BY DEF TransfersNext
<1> QED
  BY <1>1, <1>2, PTL DEF TransfersSpec

-----------------------------------------------------------------------------
(* The properties.                                                         *)

LEMMA PrefixIs ==
  ASSUME NEW s, NEW k \in Nat, NEW n \in Nat, k <= n
  PROVE  IsPrefix(Taken(s, k), Taken(s, n))
<1> DEFINE T(i) == ByteAt(s, i)
           x == [i \in 1..k |-> T(i)]
           y == [i \in 1..n |-> T(i)]
<1>1. x = Taken(s, k) /\ y = Taken(s, n)
  BY DEF Taken
<1>2. Len(x) = k /\ Len(y) = n
  BY <1>1, TakenIs
<1> HIDE DEF T
<1>3. SubSeq(x, 1, k) = x /\ SubSeq(y, 1, k) = x
  OBVIOUS
<1> QED
  BY <1>1, <1>2, <1>3 DEF IsPrefix

LEMMA EmptyPrefix ==
  ASSUME NEW s, NEW n \in Nat
  PROVE  IsPrefix(<<>>, Taken(s, n)) /\ IsPrefix(<<>>, <<>>)
<1>1. Taken(s, 0) = <<>> /\ 0 <= n /\ 0 <= 0 /\ 0 \in Nat
  BY TakenIs
<1>2. IsPrefix(Taken(s, 0), Taken(s, n)) /\ IsPrefix(Taken(s, 0), Taken(s, 0))
  BY <1>1, PrefixIs
<1> QED
  BY <1>1, <1>2

\* What is moved while the outermost call is under way.
LEMMA BegunExact ==
  ASSUME NEW q \in Asks, NEW m, NEW o \in Calls, NEW d, NEW k, NEW e \in {0, 1},
         Begun(q, m, o, d, k, e)
  PROVE  /\ \A c \in Channel : IsPrefix(m[c], AllMoved(q)[c])
         /\ \A c, b \in Channel : b < c /\ m[c] # <<>> => m[b] = AllMoved(q)[b]
<1>1. /\ q.regs \in [Channel -> Settings] /\ q.mask \subseteq Channel /\ Channel \subseteq Nat
      /\ o.left \in Nat
  BY DmaAssumption DEF Asks, Calls
<1>2. /\ d \subseteq Channel /\ k \in Nat /\ q.mask = d \cup {o.ch} \cup o.todo
      /\ \A c \in d : c < o.ch
      /\ \A c \in o.todo : o.ch < c
      /\ k + o.left = SizeOf(q.regs[o.ch]) /\ e <= o.left
  BY DEF Begun
<1>3. m = [c \in Channel |-> IF c \in d THEN Bytes(q.regs[c])
                             ELSE IF c = o.ch THEN Taken(q.regs[c], k + e)
                             ELSE <<>>]
  BY DEF Begun
<1>4. o.ch \in Channel /\ o.ch \in q.mask /\ d \subseteq q.mask
  BY <1>1, <1>2
<1>5. ASSUME NEW c \in Channel PROVE IsPrefix(m[c], AllMoved(q)[c])
  <2> DEFINE s == q.regs[c]
  <2>1. s \in Settings /\ SizeOf(s) \in Nat /\ Bytes(s) = Taken(s, SizeOf(s))
    <3>1. s \in Settings
      BY <1>1
    <3>2. SizeOf(s) \in Nat
      BY <3>1, SizeIs
    <3> QED
      BY <1>2, <3>1, <3>2, TakenIs
  <2>2. AllMoved(q)[c] = IF c \in q.mask THEN Taken(s, SizeOf(s)) ELSE <<>>
    BY <2>1 DEF AllMoved
  <2>3. CASE c \in d
    <3>1. m[c] = Taken(s, SizeOf(s)) /\ AllMoved(q)[c] = Taken(s, SizeOf(s))
      BY <1>3, <1>4, <2>1, <2>2, <2>3
    <3>2. SizeOf(s) <= SizeOf(s)
      BY <2>1
    <3> QED
      BY <2>1, <3>1, <3>2, PrefixIs
  <2>4. CASE c = o.ch /\ ~(c \in d)
    <3>1. m[c] = Taken(s, k + e) /\ AllMoved(q)[c] = Taken(s, SizeOf(s))
      BY <1>3, <1>4, <2>2, <2>4
    <3>2. k + e \in Nat /\ k + e <= SizeOf(s)
      <4>1. SizeOf(s) = k + o.left
        BY <1>2, <2>4
      <4> QED
        BY <1>1, <1>2, <4>1
    <3> QED
      BY <2>1, <3>1, <3>2, PrefixIs
  <2>5. CASE c # o.ch /\ ~(c \in d)
    <3>1. m[c] = <<>>
      BY <1>3, <2>5
    <3> QED
      BY <2>1, <2>2, <3>1, EmptyPrefix
  <2> QED
    BY <2>3, <2>4, <2>5
<1>6. ASSUME NEW c \in Channel, NEW b \in Channel, b < c, m[c] # <<>>
      PROVE  m[b] = AllMoved(q)[b]
  <2>1. c \in d \/ c = o.ch
    BY <1>3, <1>6
  <2>2. b \in Nat /\ c \in Nat /\ o.ch \in Nat
    BY <1>1, <1>4
  <2>3. c <= o.ch
    <3>1. CASE c \in d
      <4>1. c < o.ch
        BY <1>2, <3>1
      <4> QED
        BY <2>2, <4>1
    <3>2. CASE c = o.ch
      BY <2>2, <3>2
    <3> QED
      BY <2>1, <3>1, <3>2
  <2>4. b < o.ch
    BY <1>6, <2>2, <2>3
  <2>5. b # o.ch /\ ~(b \in o.todo)
    <3>1. ~(o.ch < b)
      BY <2>2, <2>4
    <3> QED
      BY <1>2, <2>2, <2>4, <3>1
  <2>6. b \in q.mask <=> b \in d
    BY <1>2, <2>5
  <2> QED
    BY <1>3, <2>5, <2>6 DEF AllMoved
<1> QED
  BY <1>5, <1>6

LEMMA WantedIs == Wanted = AllMoved(asked)
BY DEF Wanted, AllMoved

LEMMA ExactIs == DmaInv => TransferExact
<1> SUFFICES ASSUME DmaInv PROVE TransferExact
  OBVIOUS
<1>1. asked \in Asks /\ asked.regs \in [Channel -> Settings]
  BY DEF DmaInv, DmaType, Asks
<1>2. \A c \in Channel : /\ SizeOf(asked.regs[c]) \in Nat
                         /\ Bytes(asked.regs[c]) = Taken(asked.regs[c], SizeOf(asked.regs[c]))
  <2> TAKE c \in Channel
  <2>1. SizeOf(asked.regs[c]) \in Nat
    BY <1>1, SizeIs
  <2>2. \A s, k : k \in Nat => Bytes(s) = Taken(s, SizeOf(s))
    BY TakenIs
  <2> QED
    BY <2>1, <2>2
<1>3. \A c \in Channel : AllMoved(asked)[c] = IF c \in asked.mask
                                              THEN Taken(asked.regs[c], SizeOf(asked.regs[c]))
                                              ELSE <<>>
  BY <1>2 DEF AllMoved
<1>4. CASE stack = <<>>
  <2>1. moved = AllMoved(asked)
    BY <1>4 DEF DmaInv, Progress
  <2>2. ASSUME NEW c \in Channel PROVE IsPrefix(moved[c], AllMoved(asked)[c])
    <3> DEFINE s == asked.regs[c]
    <3>1. SizeOf(s) \in Nat /\ SizeOf(s) <= SizeOf(s)
      BY <1>2
    <3>2. IsPrefix(Taken(s, SizeOf(s)), Taken(s, SizeOf(s))) /\ IsPrefix(<<>>, <<>>)
      BY <3>1, PrefixIs, EmptyPrefix
    <3> QED
      BY <1>3, <2>1, <3>2
  <2> QED
    BY <2>1, <2>2, WantedIs DEF TransferExact
<1>5. CASE stack # <<>>
  <2>1. /\ stack \in Seq(Calls) /\ Len(stack) \in Nat \ {0} /\ Where(asked, moved, stack)
    BY <1>5, Running
  <2> DEFINE o == At(stack, 1)
             e == Under(stack)
  <2>2. o \in Calls
    <3> DEFINE n == Len(stack)
    <3>1. (n + 1) - 1 = n /\ n \in 1..n
      BY <2>1
    <3> QED
      BY <2>1, <3>1 DEF At
  <2>3. e \in {0, 1}
    BY DEF Under
  <2> HIDE DEF o, e
  <2>4. CASE Fresh(asked, moved, o)
    <3>1. \A c \in Channel : moved[c] = <<>>
      BY <2>4 DEF Fresh, Nothing
    <3>2. ASSUME NEW c \in Channel PROVE IsPrefix(moved[c], AllMoved(asked)[c])
      BY <1>2, <1>3, <3>1, EmptyPrefix
    <3> QED
      BY <1>5, <3>1, <3>2, WantedIs DEF TransferExact
  <2>5. CASE \E d, k : Begun(asked, moved, o, d, k, e)
    <3>1. PICK d, k : Begun(asked, moved, o, d, k, e)
      BY <2>5
    <3>2. /\ \A c \in Channel : IsPrefix(moved[c], AllMoved(asked)[c])
          /\ \A c, b \in Channel : b < c /\ moved[c] # <<>> => moved[b] = AllMoved(asked)[b]
      BY <1>1, <2>2, <2>3, <3>1, BegunExact
    <3> QED
      BY <1>5, <3>2, WantedIs DEF TransferExact
  <2> QED
    BY <2>1, <2>4, <2>5 DEF Where, o, e
<1> QED
  BY <1>4, <1>5

\* A transfer moves exactly the bytes its registers asked for, in channel order,
\* each to the register the mode's pattern names, whatever its own writes do to
\* the DMA unit meanwhile (dma.rs:156-240, bus.rs:542-551): for any channels,
\* settings and sizes, and calls nested to any depth.
THEOREM TransferExactHolds == TransfersSpec => []TransferExact
BY DmaHolds, ExactIs, PTL

\* After it the enabled channels have size zero and point past their last byte,
\* and no other register has changed, though the transfer may itself have
\* written to the registers (bus.rs:432-443).
THEOREM RegistersAfterHolds == TransfersSpec => []RegistersAfter
<1>1. DmaInv => RegistersAfter
  BY DEF DmaInv, Progress, RegistersAfter, AllAfter, After
<1> QED
  BY <1>1, DmaHolds, PTL

\* Every byte of every call is booked once as DMA time and credited once to the
\* bus clock (bus.rs:432-443, dma.rs:156-240).
THEOREM BookedOnceHolds == TransfersSpec => []BookedOnce
<1>1. DmaInv => BookedOnce
  BY DEF DmaInv, Books, BookedOnce
<1> QED
  BY <1>1, DmaHolds, PTL

-----------------------------------------------------------------------------
(* HDMA.                                                                   *)

\* A channel's registers are a record of these fields, whatever is in them.
ChannelFields == {"src", "addr", "counter", "size", "terminated", "doTransfer"}

\* Once a channel was started in this frame, the others are switched off and
\* have sent nothing.
LateInv ==
  /\ DOMAIN chan = Channel /\ DOMAIN sent = Channel
  /\ \A c \in Channel : DOMAIN chan[c] = ChannelFields
  /\ started # {} => \A c \in Channel \ started : chan[c].terminated = TRUE /\ sent[c] = {}

LEMMA FieldsKept ==
  ASSUME NEW c, NEW ch, DOMAIN ch = ChannelFields
  PROVE  /\ DOMAIN H!LoadEntry(c, ch) = ChannelFields
         /\ DOMAIN H!Restarted(ch) = ChannelFields
         /\ DOMAIN H!RunChannel(c, ch) = ChannelFields
<1>1. \A x : DOMAIN x = ChannelFields => DOMAIN H!LoadEntry(c, x) = ChannelFields
  BY DEF H!LoadEntry
<1>2. DOMAIN H!Restarted(ch) = ChannelFields
  BY DEF H!Restarted
<1>3. DOMAIN H!Counted(c, ch) = ChannelFields
  <2>1. DOMAIN H!Moved(c, ch) = ChannelFields
    BY DEF H!Moved, H!Transfer
  <2> QED
    BY <2>1 DEF H!Counted
<1>4. DOMAIN H!RunChannel(c, ch) = ChannelFields
  <2> DEFINE x == H!Counted(c, ch)
  <2>1. DOMAIN x = ChannelFields
    BY <1>3
  <2>2. H!RunChannel(c, ch) = IF H!EntryDone(c, ch) THEN H!LoadEntry(c, x)
                              ELSE [x EXCEPT !.doTransfer = H!Repeats(ch.counter)]
    BY DEF H!RunChannel
  <2> HIDE DEF x
  <2>3. DOMAIN [x EXCEPT !.doTransfer = H!Repeats(ch.counter)] = ChannelFields
    BY <2>1
  <2> QED
    BY <1>1, <2>1, <2>2, <2>3
<1> QED
  BY <1>1, <1>2, <1>4

LEMMA LateInit == H!Init => LateInv
BY DEF H!Init, LateInv, ChannelFields

LEMMA LateNext == LateInv /\ [H!Next]_hdmaVars => LateInv'
<1> SUFFICES ASSUME LateInv, [H!Next]_hdmaVars PROVE LateInv'
  OBVIOUS
<1>1. /\ DOMAIN chan = Channel /\ DOMAIN sent = Channel
      /\ \A c \in Channel : DOMAIN chan[c] = ChannelFields
      /\ started # {} => \A c \in Channel \ started : chan[c].terminated = TRUE /\ sent[c] = {}
  BY DEF LateInv
<1>2. CASE H!InitFrame
  <2>1. /\ sent' = [c \in Channel |-> {}] /\ started' = hdmaen
        /\ IF hdmaen = {} THEN chan' = chan ELSE chan' = [c \in Channel |-> H!InitChannel(c)]
    BY <1>2 DEF H!InitFrame
  <2>2. CASE hdmaen = {}
    BY <1>1, <2>1, <2>2 DEF LateInv
  <2>3. CASE hdmaen # {}
    <3>1. ASSUME NEW c \in Channel PROVE DOMAIN chan'[c] = ChannelFields
      <4>1. chan'[c] = H!InitChannel(c)
        BY <2>1, <2>3
      <4>2. DOMAIN H!LoadEntry(c, H!Restarted(chan[c])) = ChannelFields
        BY <1>1, FieldsKept
      <4>3. DOMAIN [chan[c] EXCEPT !.terminated = TRUE] = ChannelFields
        BY <1>1
      <4> QED
        BY <4>1, <4>2, <4>3 DEF H!InitChannel
    <3>2. ASSUME NEW c \in Channel \ hdmaen PROVE chan'[c].terminated = TRUE
      <4>1. chan'[c] = [chan[c] EXCEPT !.terminated = TRUE]
        BY <2>1, <2>3 DEF H!InitChannel
      <4>2. DOMAIN chan[c] = ChannelFields
        BY <1>1
      <4> QED
        BY <4>1, <4>2 DEF ChannelFields
    <3> QED
      BY <2>1, <2>3, <3>1, <3>2 DEF LateInv
  <2> QED
    BY <2>2, <2>3
<1>3. CASE H!RunLine
  <2>1. /\ chan' = [c \in Channel |-> IF c \in H!Active THEN H!RunChannel(c, chan[c])
                                      ELSE chan[c]]
        /\ DOMAIN sent' = Channel /\ started' = started
        /\ \A c \in Channel : ~(c \in H!Active) => sent'[c] = sent[c]
    BY <1>3 DEF H!RunLine
  <2>2. ASSUME NEW c \in Channel PROVE DOMAIN chan'[c] = ChannelFields
    BY <1>1, <2>1, FieldsKept
  <2>3. ASSUME started # {}, NEW c \in Channel \ started
        PROVE  chan'[c].terminated = TRUE /\ sent'[c] = {}
    <3>1. chan[c].terminated = TRUE /\ sent[c] = {}
      BY <1>1, <2>3
    <3>2. ~(c \in H!Active)
      BY <3>1 DEF H!Active
    <3> QED
      BY <2>1, <3>1, <3>2
  <2> QED
    BY <2>1, <2>2, <2>3 DEF LateInv
<1>4. ASSUME NEW mask \in SUBSET Channel, H!WriteHdmaen(mask) PROVE LateInv'
  BY <1>1, <1>4 DEF H!WriteHdmaen, H!histVars, LateInv
<1>5. ASSUME UNCHANGED <<sent, started>>, DOMAIN chan' = Channel,
             \A c \in Channel : DOMAIN chan'[c] = ChannelFields
                                /\ chan'[c].terminated = chan[c].terminated
      PROVE  LateInv'
  BY <1>1, <1>5 DEF LateInv
<1>6. ASSUME NEW c \in Channel, NEW t \in Tables, H!WriteSource(c, t) PROVE LateInv'
  <2>1. chan' = [chan EXCEPT ![c].src = t.at] /\ UNCHANGED <<sent, started>>
    BY <1>6 DEF H!WriteSource, H!histVars
  <2>2. chan' = [chan EXCEPT ![c] = [chan[c] EXCEPT !.src = t.at]]
    BY <2>1
  <2>3. /\ DOMAIN [chan[c] EXCEPT !.src = t.at] = ChannelFields
        /\ [chan[c] EXCEPT !.src = t.at].terminated = chan[c].terminated
    BY <1>1 DEF ChannelFields
  <2> QED
    BY <1>1, <1>5, <2>1, <2>2, <2>3
<1>7. ASSUME NEW c \in Channel, NEW end \in DmaEnds, H!GeneralDma(c, end) PROVE LateInv'
  <2>1. chan' = [chan EXCEPT ![c].src = end, ![c].size = 0] /\ UNCHANGED <<sent, started>>
    BY <1>7 DEF H!GeneralDma, H!histVars
  <2>2. chan' = [chan EXCEPT ![c] = [chan[c] EXCEPT !.src = end, !.size = 0]]
    BY <1>1, <2>1
  <2>3. /\ DOMAIN [chan[c] EXCEPT !.src = end, !.size = 0] = ChannelFields
        /\ [chan[c] EXCEPT !.src = end, !.size = 0].terminated = chan[c].terminated
    BY <1>1 DEF ChannelFields
  <2> QED
    BY <1>1, <1>5, <2>1, <2>2, <2>3
<1>8. ASSUME NEW c \in Channel, NEW u \in Cursors, H!WriteCursor(c, u) PROVE LateInv'
  <2>1. chan' = [chan EXCEPT ![c].addr = u.addr, ![c].counter = u.counter]
        /\ UNCHANGED <<sent, started>>
    BY <1>8 DEF H!WriteCursor, H!histVars
  <2>2. chan' = [chan EXCEPT ![c] = [chan[c] EXCEPT !.addr = u.addr, !.counter = u.counter]]
    BY <1>1, <2>1
  <2>3. /\ DOMAIN [chan[c] EXCEPT !.addr = u.addr, !.counter = u.counter] = ChannelFields
        /\ [chan[c] EXCEPT !.addr = u.addr, !.counter = u.counter].terminated
             = chan[c].terminated
    BY <1>1 DEF ChannelFields
  <2> QED
    BY <1>1, <1>5, <2>1, <2>2, <2>3
<1>9. CASE UNCHANGED hdmaVars
  BY <1>1, <1>9 DEF hdmaVars, LateInv
<1> QED
  BY <1>2, <1>3, <1>4, <1>6, <1>7, <1>8, <1>9 DEF H!Next

\* A channel switched on in mid-frame sends nothing until the next frame, once
\* any channel was started in this one, whatever else the program writes
\* (dma.rs:243-275).
THEOREM LateChannelSilentHolds == TransfersSpec => []LateChannelSilent
<1>1. TransfersInit => LateInv
  BY LateInit DEF TransfersInit
<1>2. LateInv /\ [TransfersNext]_<<focus, vars, hdmaVars>> => LateInv'
  <2> SUFFICES ASSUME LateInv, [TransfersNext]_<<focus, vars, hdmaVars>>
               PROVE  [H!Next]_hdmaVars
    BY LateNext
  <2> QED
    BY DEF TransfersNext
<1>3. LateInv => LateChannelSilent
  BY DEF LateInv, LateChannelSilent, H!LateChannelSilent
<1> QED
  BY <1>1, <1>2, <1>3, PTL DEF TransfersSpec

-----------------------------------------------------------------------------
(* HDMA: where a channel is in its table.                                  *)

LEMMA PlusIs ==
  ASSUME NEW m \in Nat \ {0}, NEW x \in Int, NEW n \in Int
  PROVE  x % m \in 0..m-1 /\ ((x % m) + n) % m = (x + n) % m
<1> DEFINE q == x \div m
           r == x % m
<1>1. q \in Int /\ r \in 0..m-1 /\ x = m * q + r
  OBVIOUS
<1> HIDE DEF q, r
<1> DEFINE y == r + n
           p == y \div m
           s == y % m
<1>2. y \in Int
  BY <1>1
<1>3. p \in Int /\ s \in 0..m-1 /\ r + n = m * p + s
  <2> HIDE DEF y
  <2>1. p \in Int /\ s \in 0..m-1 /\ y = m * p + s
    BY <1>2
  <2> QED
    BY <2>1 DEF y
<1> HIDE DEF p, s
<1>4. x + n = m * (q + p) + s
  <2>1. m * (q + p) = m * q + m * p /\ m * q \in Int /\ m * p \in Int
    BY <1>1, <1>3
  <2> QED
    BY <1>1, <1>3, <2>1
<1>5. (m * (q + p) + s) % m = s
  BY <1>1, <1>3, ModUnique
<1>6. (x + n) % m = s
  BY <1>4, <1>5
<1> QED
  BY <1>1, <1>6 DEF s, y, r

Entries == [lines : 1..Repeat, repeat : BOOLEAN, first : Nat, units : Nat]

LEMMA HdmaConstants ==
  /\ Repeat \in Nat \ {0} /\ Base \in Nat \ {0} /\ Lines \in Nat \ {0}
  /\ H!BankSize \in Nat \ {0}
  /\ \A t \in Tables : H!Table(t)
<1>1. /\ Repeat \in Nat \ {0} /\ Base \in Nat \ {0} /\ Lines \in Nat \ {0}
      /\ \A t \in Tables : H!Table(t)
  BY TransfersAssumption DEF H!HdmaAssumption
<1>2. Base * Base \in Nat \ {0}
  BY <1>1
<1> QED
  BY <1>1, <1>2 DEF H!BankSize

\* An entry, the lines and units before it and before the next one.
LEMMA EntryIs ==
  ASSUME NEW t \in Tables, NEW k \in 1..Len(t.entries)
  PROVE  LET e == t.entries[k]
         IN  /\ e.lines \in 1..Repeat /\ e.repeat \in BOOLEAN /\ (e.repeat \/ e.lines < Repeat)
             /\ H!UnitsOf(e) \in 1..e.lines
             /\ H!LinesBefore(t, k) \in Nat /\ H!UnitsBefore(t, k) \in Nat
             /\ H!LinesBefore(t, k + 1) = H!LinesBefore(t, k) + e.lines
             /\ H!UnitsBefore(t, k + 1) = H!UnitsBefore(t, k) + H!UnitsOf(e)
<1> DEFINE e == t.entries[k]
<1>1. H!Table(t)
  BY HdmaConstants
<1>2. t.entries \in Seq(Entries) /\ k \in Nat \ {0}
  BY <1>1 DEF H!Table, Entries
<1>3. e \in Entries
  BY <1>2
<1>4. /\ e.repeat \/ e.lines < Repeat
      /\ e.first = H!LinesBefore(t, k) /\ e.units = H!UnitsBefore(t, k)
  BY <1>1 DEF H!Table
<1>5. k + 1 # 1 /\ (k + 1) - 1 = k
  BY <1>2
<1>6. /\ H!LinesBefore(t, k + 1) = e.first + e.lines
      /\ H!UnitsBefore(t, k + 1) = e.units + H!UnitsOf(e)
  BY <1>5 DEF H!LinesBefore, H!UnitsBefore
<1>7. /\ e.lines \in 1..Repeat /\ e.repeat \in BOOLEAN /\ e.first \in Nat /\ e.units \in Nat
  BY <1>3 DEF Entries
<1>8. H!UnitsOf(e) \in 1..e.lines
  BY <1>7, HdmaConstants DEF H!UnitsOf
<1> HIDE DEF e
<1>9. /\ e.lines \in 1..Repeat /\ e.repeat \in BOOLEAN /\ (e.repeat \/ e.lines < Repeat)
      /\ H!UnitsOf(e) \in 1..e.lines
      /\ H!LinesBefore(t, k) \in Nat /\ H!UnitsBefore(t, k) \in Nat
      /\ H!LinesBefore(t, k + 1) = H!LinesBefore(t, k) + e.lines
      /\ H!UnitsBefore(t, k + 1) = H!UnitsBefore(t, k) + H!UnitsOf(e)
  BY <1>4, <1>6, <1>7, <1>8
<1> QED
  BY <1>9 DEF e

\* Later entries are for later lines.
LEMMA LinesGrow ==
  ASSUME NEW t \in Tables, NEW i \in 1..Len(t.entries)
  PROVE  \A k \in 1..Len(t.entries) :
           i < k => H!LinesBefore(t, i) + t.entries[i].lines <= H!LinesBefore(t, k)
<1> DEFINE n == Len(t.entries)
           B(k) == H!LinesBefore(t, k)
           a == B(i) + t.entries[i].lines
           Bad == {k \in 1..n : i < k /\ ~(a <= B(k))}
<1>1. SUFFICES ASSUME Bad # {} PROVE FALSE
  OBVIOUS
<1>2. n \in Nat /\ i \in 1..n
  <2>1. H!Table(t)
    BY HdmaConstants
  <2>2. t.entries \in Seq(Entries)
    BY <2>1 DEF H!Table, Entries
  <2> QED
    BY <2>2
<1>3. \A k \in 1..n : B(k) \in Nat /\ t.entries[k].lines \in Nat /\ t.entries[k].lines >= 1
                      /\ B(k + 1) = B(k) + t.entries[k].lines
  <2> TAKE k \in 1..n
  <2>1. t.entries[k].lines \in 1..Repeat /\ B(k) \in Nat
        /\ B(k + 1) = B(k) + t.entries[k].lines
    BY EntryIs
  <2> QED
    BY <2>1, HdmaConstants
<1> HIDE DEF n, B
<1>4. Bad \in SUBSET Nat
  BY <1>2
<1> DEFINE m == Min(Bad)
<1>5. m \in Bad /\ \A k \in Bad : m <= k
  <2> HIDE DEF Bad
  <2> QED
    BY <1>1, <1>4, MinIs
<1> HIDE DEF m
<1>6. m \in 1..n /\ i < m /\ ~(a <= B(m)) /\ m - 1 \in 1..n /\ (m - 1) + 1 = m /\ ~(m <= m - 1)
  BY <1>2, <1>5
<1>7. a \in Nat /\ a = B(i) + t.entries[i].lines
  BY <1>2, <1>3
<1>8. B(m) = B(m - 1) + t.entries[m - 1].lines /\ t.entries[m - 1].lines >= 1
      /\ B(m - 1) \in Nat /\ t.entries[m - 1].lines \in Nat
  BY <1>3, <1>6
<1> HIDE DEF a
<1>9. CASE m - 1 = i
  BY <1>6, <1>7, <1>8, <1>9
<1>10. CASE m - 1 # i
  <2>1. i < m - 1 /\ ~(m - 1 \in Bad)
    BY <1>2, <1>5, <1>6, <1>10
  <2>2. a <= B(m - 1)
    BY <1>6, <2>1
  <2>3. B(m - 1) <= B(m)
    BY <1>8
  <2>4. B(m) \in Nat
    BY <1>8
  <2> QED
    BY <1>6, <1>7, <1>8, <2>2, <2>3, <2>4
<1> QED
  BY <1>9, <1>10

\* The addresses of a table follow each other.
LEMMA Addresses ==
  ASSUME NEW t \in Tables, NEW k \in 1..Len(t.entries), NEW u \in Nat
  PROVE  /\ t.unit \in 1..4 /\ t.indirect \in BOOLEAN
         /\ H!Plus(H!UnitAddr(t, k, u), t.unit) = H!UnitAddr(t, k, u + 1)
         /\ t.indirect = FALSE =>
              /\ H!Plus(H!HeaderAddr(t, k), 1) = H!UnitAddr(t, k, 0)
              /\ H!HeaderAddr(t, k + 1) = H!UnitAddr(t, k, H!UnitsOf(t.entries[k]))
         /\ t.indirect = TRUE =>
              H!HeaderAddr(t, k + 1) = H!Plus(H!Plus(H!Plus(H!HeaderAddr(t, k), 1), 1), 1)
<1> DEFINE m == H!BankSize
           b == H!UnitsBefore(t, k)
           base == IF t.indirect THEN t.data ELSE t.at + k
           U == H!UnitsOf(t.entries[k])
<1>1. /\ t.at \in H!Addr /\ t.data \in H!Addr /\ t.indirect \in BOOLEAN /\ t.unit \in 1..4
      /\ m \in Nat \ {0} /\ H!Addr = 0..m-1
  BY HdmaConstants DEF H!Table, H!Addr
<1>2. t.at \in Nat /\ t.data \in Nat /\ t.unit \in Nat /\ k \in Nat
  <2> HIDE DEF m
  <2> QED
    BY <1>1
<1>3. b \in Nat /\ U \in Nat /\ H!UnitsBefore(t, k + 1) = b + U
  <2>1. /\ H!UnitsOf(t.entries[k]) \in 1..t.entries[k].lines
        /\ H!UnitsBefore(t, k) \in Nat
        /\ H!UnitsBefore(t, k + 1) = H!UnitsBefore(t, k) + H!UnitsOf(t.entries[k])
    BY EntryIs
  <2> HIDE DEF b, U
  <2>2. H!UnitsOf(t.entries[k]) \in Nat
    BY <2>1
  <2> QED
    BY <2>1, <2>2 DEF b, U
<1>4. base \in Nat
  BY <1>1, <1>2
<1>5. \A x : H!UnitAddr(t, k, x) = (base + t.unit * (b + x)) % m
  BY DEF H!UnitAddr, H!Plus
<1>6. \A x, n : H!Plus(x, n) = (x + n) % m
  BY DEF H!Plus
<1> HIDE DEF m, b, base, U
<1>7. t.unit * (b + (u + 1)) = t.unit * (b + u) + t.unit /\ t.unit * (b + u) \in Nat
      /\ t.unit * b \in Nat /\ t.unit * (b + 0) = t.unit * b
      /\ t.unit * (b + U) \in Nat
  <2> DEFINE r == t.unit
             y == b + u
             z == b + U
  <2>1. r \in Nat /\ y \in Nat /\ z \in Nat /\ b \in Nat
    BY <1>2, <1>3
  <2>2. b + (u + 1) = y + 1 /\ b + 0 = b
    BY <1>3
  <2> HIDE DEF r, y, z
  <2>3. r * (y + 1) = r * y + r /\ r * y \in Nat
    BY <2>1
  <2>4. r * b \in Nat /\ r * z \in Nat
    BY <2>1
  <2> QED
    BY <2>2, <2>3, <2>4 DEF r, y, z
<1>8. H!Plus(H!UnitAddr(t, k, u), t.unit) = H!UnitAddr(t, k, u + 1)
  <2> DEFINE x == base + t.unit * (b + u)
  <2>1. x \in Int /\ t.unit \in Int /\ base + t.unit * (b + (u + 1)) = x + t.unit
    BY <1>2, <1>4, <1>7
  <2>2. H!UnitAddr(t, k, u) = x % m /\ H!UnitAddr(t, k, u + 1) = (x + t.unit) % m
    BY <1>5, <2>1
  <2> HIDE DEF x
  <2>3. ((x % m) + t.unit) % m = (x + t.unit) % m
    BY <1>1, <2>1, PlusIs
  <2> QED
    BY <1>6, <2>2, <2>3
<1>9. ASSUME t.indirect = FALSE
      PROVE  /\ H!Plus(H!HeaderAddr(t, k), 1) = H!UnitAddr(t, k, 0)
             /\ H!HeaderAddr(t, k + 1) = H!UnitAddr(t, k, U)
  <2> DEFINE x == t.at + (k - 1) + t.unit * b
  <2>1. x \in Int /\ base = t.at + k /\ base + t.unit * (b + 0) = x + 1
    <3> DEFINE z == t.unit * b
    <3>1. base = t.at + k
      BY <1>9 DEF base
    <3>2. z \in Nat /\ t.unit * (b + 0) = z
      BY <1>7
    <3> HIDE DEF z
    <3>3. t.at + (k - 1) + z \in Int /\ t.at + k + z = (t.at + (k - 1) + z) + 1
      BY <1>2, <3>2
    <3> QED
      BY <3>1, <3>2, <3>3 DEF z
  <2>2. H!HeaderAddr(t, k) = x % m
    BY <1>6, <1>9 DEF H!HeaderAddr, b
  <2>3. H!UnitAddr(t, k, 0) = (x + 1) % m
    BY <1>5, <2>1
  <2>4. H!HeaderAddr(t, k + 1) = (base + t.unit * (b + U)) % m
    <3>1. H!HeaderAddr(t, k + 1) = ((t.at + ((k + 1) - 1)) + t.unit * (b + U)) % m
      BY <1>3, <1>6, <1>9 DEF H!HeaderAddr
    <3>2. t.at + ((k + 1) - 1) = base
      BY <1>2, <2>1
    <3> QED
      BY <3>1, <3>2
  <2> HIDE DEF x
  <2>5. ((x % m) + 1) % m = (x + 1) % m
    <3>1. m \in Nat \ {0} /\ x \in Int /\ 1 \in Int
      BY <1>1, <2>1
    <3> QED
      BY ONLY <3>1, PlusIs
  <2> QED
    BY <1>5, <1>6, <2>2, <2>3, <2>4, <2>5
<1>10. ASSUME t.indirect = TRUE
       PROVE  H!HeaderAddr(t, k + 1) = H!Plus(H!Plus(H!Plus(H!HeaderAddr(t, k), 1), 1), 1)
  <2> DEFINE x == t.at + 3 * (k - 1)
  <2>1. x \in Int /\ t.at + 3 * ((k + 1) - 1) = ((x + 1) + 1) + 1 /\ x + 1 \in Int
        /\ (x + 1) + 1 \in Int
    BY <1>2
  <2>2. H!HeaderAddr(t, k) = x % m /\ H!HeaderAddr(t, k + 1) = (((x + 1) + 1) + 1) % m
    <3>1. H!HeaderAddr(t, k + 1) = (t.at + 3 * ((k + 1) - 1)) % m
      BY <1>6, <1>10 DEF H!HeaderAddr
    <3>2. H!HeaderAddr(t, k) = (t.at + 3 * (k - 1)) % m
      BY <1>6, <1>10 DEF H!HeaderAddr
    <3> QED
      BY <2>1, <3>1, <3>2
  <2> HIDE DEF x
  <2>3. \A y \in Int : ((y % m) + 1) % m = (y + 1) % m
    <3>1. m \in Nat \ {0} /\ 1 \in Int
      BY <1>1
    <3> QED
      BY ONLY <3>1, PlusIs
  <2> QED
    BY <1>6, <2>1, <2>2, <2>3
<1> QED
  BY <1>1, <1>8, <1>9, <1>10 DEF U

\* Line j (from 0) of entry k is the next one of a channel whose table is t.
SentOf(e, j) == IF e.repeat THEN j ELSE IF j = 0 THEN 0 ELSE 1

CursorAt(t, ch, k, j) ==
  LET e == t.entries[k]
  IN  /\ k \in 1..Len(t.entries) /\ j \in 0..e.lines-1
      /\ ch.terminated = FALSE
      /\ ch.doTransfer = (e.repeat \/ j = 0)
      /\ ch.counter = (IF e.repeat THEN Repeat ELSE 0) + ((e.lines - j) % Repeat)
      /\ IF t.indirect
           THEN ch.addr = H!HeaderAddr(t, k + 1) /\ ch.size = H!UnitAddr(t, k, SentOf(e, j))
           ELSE ch.addr = H!UnitAddr(t, k, SentOf(e, j))

LEMMA HeaderIs ==
  ASSUME NEW t \in Tables, NEW k \in 1..Len(t.entries)
  PROVE  H!Header(t.entries[k]) # 0
<1> DEFINE e == t.entries[k]
           r == e.lines % Repeat
<1>1. e.lines \in 1..Repeat /\ e.repeat \in BOOLEAN /\ (e.repeat \/ e.lines < Repeat)
      /\ Repeat \in Nat \ {0}
  BY EntryIs, HdmaConstants
<1>2. r \in Nat /\ (e.lines < Repeat => r = e.lines)
  <2> DEFINE l == e.lines
  <2>1. l \in 1..Repeat /\ Repeat \in Nat \ {0}
    BY <1>1
  <2>2. l % Repeat \in Nat /\ (l < Repeat => l % Repeat = l)
    <3> HIDE DEF l
    <3>1. l \in Int
      BY <2>1
    <3>2. l % Repeat \in Nat
      BY <2>1, <3>1, PlusIs
    <3>3. ASSUME l < Repeat PROVE l % Repeat = l
      <4>1. 0 \in Int /\ l \in 0..Repeat-1 /\ Repeat * 0 + l = l
        BY <2>1, <3>3
      <4> QED
        BY <2>1, <4>1, ModUnique
    <3> QED
      BY <3>2, <3>3
  <2> QED
    BY <2>2
<1>3. H!Header(e) = (IF e.repeat THEN Repeat ELSE 0) + r
  BY DEF H!Header
<1> HIDE DEF e, r
<1>4. (IF e.repeat THEN Repeat ELSE 0) + r # 0
  BY <1>1, <1>2
<1> QED
  BY <1>3, <1>4 DEF e

\* A header is read where a header is.
LEMMA LoadIs ==
  ASSUME NEW t \in Tables, NEW c, NEW ch, DOMAIN ch = ChannelFields,
         NEW k \in 1..Len(t.entries)+1, ch.addr = H!HeaderAddr(t, k), ch.terminated = FALSE,
         t.indirect = (c \in Indirect)
  PROVE  IF k = Len(t.entries) + 1 THEN H!LoadEntry(c, ch).terminated = TRUE
         ELSE CursorAt(t, H!LoadEntry(c, ch), k, 0)
<1> DEFINE n == H!LoadEntry(c, ch)
           h == Memory[ch.addr]
           next == H!Plus(ch.addr, 1)
<1>1. H!InMemory(t) /\ t.entries \in Seq(Entries) /\ t.indirect \in BOOLEAN
  BY HdmaConstants DEF H!Table, Entries
<1>2. CASE k = Len(t.entries) + 1
  <2>1. h = 0
    BY <1>1, <1>2 DEF H!InMemory
  <2>2. n = [ch EXCEPT !.addr = next, !.terminated = TRUE]
    BY <2>1 DEF H!LoadEntry
  <2> HIDE DEF n, next
  <2>3. n.terminated = TRUE
    BY <2>2 DEF ChannelFields
  <2> QED
    BY <1>2, <2>3 DEF n
<1>3. CASE k # Len(t.entries) + 1
  <2> DEFINE e == t.entries[k]
  <2>0. k \in 1..Len(t.entries)
    <3> DEFINE l == Len(t.entries)
    <3>1. l \in Nat /\ k \in 1..l+1 /\ k # l + 1
      BY <1>1, <1>3
    <3> HIDE DEF l
    <3>2. k \in 1..l
      BY <3>1
    <3> QED
      BY <3>2 DEF l
  <2>1. /\ h = H!Header(e) /\ h # 0
        /\ t.indirect => LET p == H!Plus(H!HeaderAddr(t, k), 1)
                         IN  Memory[p] + Base * Memory[H!Plus(p, 1)] = H!UnitAddr(t, k, 0)
    BY <1>1, <2>0, HeaderIs DEF H!InMemory
  <2>2. /\ e.lines \in 1..Repeat /\ e.repeat \in BOOLEAN
    BY <2>0, EntryIs
  <2>3. 0 \in 0..e.lines-1 /\ e.lines - 0 = e.lines
    <3> HIDE DEF e
    <3> QED
      BY <2>2, HdmaConstants
  <2>4. SentOf(e, 0) = 0 /\ (e.repeat \/ 0 = 0) = TRUE
    BY <2>2 DEF SentOf
  <2>5. h = (IF e.repeat THEN Repeat ELSE 0) + ((e.lines - 0) % Repeat)
    BY <2>1, <2>3 DEF H!Header
  <2>6. CASE c \in Indirect
    <3>1. t.indirect = TRUE
      BY <1>1, <2>6
    <3>2. n = [ch EXCEPT !.counter = h, !.doTransfer = TRUE,
                         !.size = Memory[next] + Base * Memory[H!Plus(next, 1)],
                         !.addr = H!Plus(next, 2)]
      BY <2>1, <2>6 DEF H!LoadEntry
    <3>3. Memory[next] + Base * Memory[H!Plus(next, 1)] = H!UnitAddr(t, k, 0)
      BY <2>1, <3>1
    <3>4. H!Plus(next, 2) = H!HeaderAddr(t, k + 1)
      <4>1. H!HeaderAddr(t, k + 1) = H!Plus(H!Plus(next, 1), 1)
        BY <2>0, <3>1, Addresses
      <4>2. next \in Int /\ H!BankSize \in Nat \ {0}
        <5> DEFINE m == H!BankSize
                   x == t.at + 3 * (k - 1)
        <5>1. m \in Nat \ {0} /\ t.at \in 0..m-1
          BY HdmaConstants DEF H!Table, H!Addr
        <5>2. ch.addr = x % m
          BY <3>1 DEF H!HeaderAddr, H!Plus
        <5> HIDE DEF m
        <5>3. x \in Int
          BY <2>0, <5>1
        <5> HIDE DEF x
        <5>4. ch.addr \in Int /\ (ch.addr + 1) % m \in Int
          BY <5>1, <5>2, <5>3
        <5> QED
          BY <5>1, <5>4 DEF H!Plus, m
      <4> DEFINE m == H!BankSize
      <4> HIDE DEF next, m
      <4>3. (((next + 1) % m) + 1) % m = ((next + 1) + 1) % m
        <5>1. m \in Nat \ {0} /\ next + 1 \in Int /\ 1 \in Int
          BY <4>2 DEF m
        <5> QED
          BY ONLY <5>1, PlusIs
      <4>4. (next + 1) + 1 = next + 2
        BY <4>2
      <4> QED
        BY <4>1, <4>3, <4>4 DEF H!Plus, m
    <3> DEFINE z == Memory[next] + Base * Memory[H!Plus(next, 1)]
               a == H!Plus(next, 2)
    <3> HIDE DEF n, h, z, a, next
    <3>5. n = [ch EXCEPT !.counter = h, !.doTransfer = TRUE, !.size = z, !.addr = a]
      BY <3>2 DEF z, a
    <3>6. /\ n.counter = h /\ n.doTransfer = TRUE /\ n.size = z /\ n.addr = a
          /\ n.terminated = FALSE
      BY <3>5 DEF ChannelFields
    <3>7. n.size = H!UnitAddr(t, k, 0) /\ n.addr = H!HeaderAddr(t, k + 1)
      BY <3>3, <3>4, <3>6 DEF z, a
    <3>8. CursorAt(t, n, k, 0)
      BY <2>0, <2>3, <2>4, <2>5, <3>1, <3>6, <3>7 DEF CursorAt
    <3> QED
      BY <1>3, <3>8 DEF n
  <2>7. CASE ~(c \in Indirect)
    <3>1. t.indirect = FALSE
      BY <1>1, <2>7
    <3>2. n = [ch EXCEPT !.counter = h, !.doTransfer = TRUE, !.addr = next]
      BY <2>1, <2>7 DEF H!LoadEntry
    <3>3. next = H!UnitAddr(t, k, 0)
      BY <2>0, <3>1, Addresses
    <3> HIDE DEF n, h, next
    <3>4. /\ n.counter = h /\ n.doTransfer = TRUE /\ n.addr = next /\ n.terminated = FALSE
      BY <3>2 DEF ChannelFields
    <3>5. CursorAt(t, n, k, 0)
      BY <2>0, <2>3, <2>4, <2>5, <3>1, <3>3, <3>4 DEF CursorAt
    <3> QED
      BY <1>3, <3>5 DEF n
  <2> QED
    BY <2>6, <2>7
<1> QED
  BY <1>2, <1>3

\* A line is counted off the low bits of the counter, modulo Repeat.
LEMMA CountIs ==
  ASSUME NEW r \in BOOLEAN, NEW x \in 1..Repeat, NEW h,
         h = (IF r THEN Repeat ELSE 0) + (x % Repeat)
  PROVE  /\ H!Repeats(h) = r
         /\ H!CountDown(h) = (IF r THEN Repeat ELSE 0) + ((x - 1) % Repeat)
         /\ H!CountDown(h) % Repeat = x - 1
<1> DEFINE m == Repeat
           y == x % m
           z == (x - 1) % m
<1>1. m \in Nat \ {0} /\ x \in Int
  BY HdmaConstants
<1>2. y \in 0..m-1 /\ z = (y - 1) % m
  BY ONLY <1>1, ModStep
<1>3. z = x - 1 /\ z \in 0..m-1
  <2>1. m \in Nat \ {0} /\ x - 1 \in Int /\ x - 1 \in 0..m-1
    BY <1>1
  <2> QED
    BY ONLY <2>1, ModStep
<1> HIDE DEF m, y, z
<1>4. \A w \in 0..m-1 : ((IF r THEN m ELSE 0) + w) % m = w
  <2> TAKE w \in 0..m-1
  <2>1. m * 1 + w = m + w /\ m * 0 + w = 0 + w
    BY <1>1
  <2>2. (m * 1 + w) % m = w /\ (m * 0 + w) % m = w
    <3>1. m \in Nat \ {0} /\ 0 \in Int /\ 1 \in Int
      BY <1>1
    <3> QED
      BY ONLY <3>1, ModUnique
  <2> QED
    BY <2>1, <2>2
<1>5. h = (IF r THEN m ELSE 0) + y
  BY DEF m, y
<1>6. h % m = y
  BY <1>2, <1>4, <1>5
<1>7. (h >= m) = r
  BY <1>1, <1>2, <1>5
<1>8. H!CountDown(h) = (IF r THEN m ELSE 0) + z
  BY <1>2, <1>6, <1>7 DEF H!CountDown, H!Repeats, m
<1>9. H!CountDown(h) % m = x - 1
  BY <1>3, <1>4, <1>8
<1> QED
  BY <1>7, <1>8, <1>9 DEF H!Repeats, m, z

\* The unit that is due is sent and passed.
Passed(t, c, ch, k, j) ==
  LET e == t.entries[k]
      n == H!Moved(c, ch)
  IN  /\ H!Source(c, ch) = H!UnitAddr(t, k, SentOf(e, j))
      /\ DOMAIN n = ChannelFields /\ n.terminated = FALSE /\ n.counter = ch.counter
      /\ c \in Indirect => /\ n.addr = H!HeaderAddr(t, k + 1)
                           /\ n.size = H!UnitAddr(t, k, SentOf(e, j + 1))
      /\ ~(c \in Indirect) => n.addr = H!UnitAddr(t, k, SentOf(e, j + 1))

LEMMA PassIs ==
  ASSUME NEW t \in Tables, NEW c, NEW ch, NEW k \in Nat, NEW j \in Nat, CursorAt(t, ch, k, j),
         DOMAIN ch = ChannelFields, t.unit = UnitSize[c], t.indirect = (c \in Indirect)
  PROVE  Passed(t, c, ch, k, j)
<1> DEFINE e == t.entries[k]
           n == H!Moved(c, ch)
           a == H!UnitAddr(t, k, SentOf(e, j))
           b == H!UnitAddr(t, k, SentOf(e, j + 1))
           f == H!HeaderAddr(t, k + 1)
<1>1. /\ k \in 1..Len(t.entries) /\ j \in 0..e.lines-1
      /\ ch.terminated = FALSE /\ ch.doTransfer = (e.repeat \/ j = 0)
      /\ c \in Indirect => ch.addr = f /\ ch.size = a
      /\ ~(c \in Indirect) => ch.addr = a
  BY DEF CursorAt
<1>2. e.lines \in 1..Repeat /\ e.repeat \in BOOLEAN /\ Repeat \in Nat \ {0}
  BY <1>1, EntryIs, HdmaConstants
<1>3. t.indirect \in BOOLEAN
  BY <1>1, Addresses
<1>4. j \in Nat
  <2> HIDE DEF e
  <2> QED
    BY <1>1, <1>2
<1>5. IF ch.doTransfer THEN b = H!Plus(a, UnitSize[c]) ELSE b = a
  <2>1. SentOf(e, j) \in Nat
    BY <1>4 DEF SentOf
  <2>2. H!Plus(a, t.unit) = H!UnitAddr(t, k, SentOf(e, j) + 1)
    BY <1>1, <2>1, Addresses
  <2>3. SentOf(e, j + 1) = IF ch.doTransfer THEN SentOf(e, j) + 1 ELSE SentOf(e, j)
    <3> DEFINE r == e.repeat
    <3>1. j + 1 # 0 /\ r \in BOOLEAN /\ ch.doTransfer = (r \/ j = 0)
      BY <1>1, <1>2, <1>4
    <3>2. /\ SentOf(e, j) = IF r THEN j ELSE IF j = 0 THEN 0 ELSE 1
          /\ SentOf(e, j + 1) = IF r THEN j + 1 ELSE IF j + 1 = 0 THEN 0 ELSE 1
      BY DEF SentOf
    <3> HIDE DEF r, e
    <3>3. CASE r
      BY <3>1, <3>2, <3>3
    <3>4. CASE ~r /\ j = 0
      <4>1. ch.doTransfer = TRUE
        BY <3>1, <3>4
      <4> QED
        BY <3>1, <3>2, <3>4, <4>1
    <3>5. CASE ~r /\ j # 0
      <4>1. ch.doTransfer = FALSE
        BY <3>1, <3>5
      <4> QED
        BY <3>1, <3>2, <3>5, <4>1
    <3> QED
      BY <3>3, <3>4, <3>5
  <2> QED
    BY <2>2, <2>3
<1>6. H!Source(c, ch) = a
  BY <1>1, <1>3 DEF H!Source
<1>7. n = IF ch.doTransfer
          THEN IF c \in Indirect THEN [ch EXCEPT !.size = H!Plus(@, UnitSize[c])]
               ELSE [ch EXCEPT !.addr = H!Plus(@, UnitSize[c])]
          ELSE ch
  BY DEF H!Moved, H!Transfer
<1> HIDE DEF Passed, n, a, b, f
<1>8. CASE ch.doTransfer /\ c \in Indirect
  <2>1. n = [ch EXCEPT !.size = b]
    BY <1>1, <1>5, <1>7, <1>8
  <2>2. /\ DOMAIN n = ChannelFields /\ n.terminated = FALSE /\ n.counter = ch.counter
        /\ n.addr = ch.addr /\ n.size = b
    BY <1>1, <2>1 DEF ChannelFields
  <2> QED
    BY <1>1, <1>6, <1>8, <2>2 DEF Passed, n, a, b, f
<1>9. CASE ch.doTransfer /\ ~(c \in Indirect)
  <2>1. n = [ch EXCEPT !.addr = b]
    BY <1>1, <1>3, <1>5, <1>7, <1>9
  <2>2. /\ DOMAIN n = ChannelFields /\ n.terminated = FALSE /\ n.counter = ch.counter
        /\ n.addr = b
    BY <1>1, <2>1 DEF ChannelFields
  <2> QED
    BY <1>1, <1>6, <1>9, <2>2 DEF Passed, n, a, b, f
<1>10. CASE ~ch.doTransfer
  <2>1. n = ch /\ a = b
    BY <1>5, <1>7, <1>10
  <2> QED
    BY <1>1, <1>6, <2>1 DEF Passed, n, a, b, f
<1> QED
  BY <1>8, <1>9, <1>10

\* After a line the cursor is on the next one, of the same entry or of the next.
LEMMA RunIs ==
  ASSUME NEW t \in Tables, NEW c, NEW ch, NEW k \in Nat, NEW j \in Nat, CursorAt(t, ch, k, j),
         DOMAIN ch = ChannelFields, t.unit = UnitSize[c], t.indirect = (c \in Indirect)
  PROVE  LET n == H!RunChannel(c, ch)
         IN  IF j + 1 < t.entries[k].lines THEN CursorAt(t, n, k, j + 1)
             ELSE IF k = Len(t.entries) THEN n.terminated = TRUE
                  ELSE CursorAt(t, n, k + 1, 0)
<1>0. Passed(t, c, ch, k, j)
  BY PassIs
<1> DEFINE e == t.entries[k]
           l == e.lines
           n == H!RunChannel(c, ch)
           o == H!Moved(c, ch)
           p == H!Counted(c, ch)
           b == H!UnitAddr(t, k, SentOf(e, j + 1))
           f == H!HeaderAddr(t, k + 1)
           h == H!CountDown(ch.counter)
<1>1. /\ k \in 1..Len(t.entries) /\ j \in 0..l-1
      /\ ch.counter = (IF e.repeat THEN Repeat ELSE 0) + ((l - j) % Repeat)
  BY DEF CursorAt
<1>2. l \in 1..Repeat /\ e.repeat \in BOOLEAN /\ Repeat \in Nat \ {0}
      /\ t.indirect \in BOOLEAN
  BY <1>1, EntryIs, HdmaConstants, Addresses
<1>3. j \in Nat /\ l \in Nat /\ l - j \in 1..Repeat /\ (l - j) - 1 = l - (j + 1)
  <2> HIDE DEF l
  <2> QED
    BY <1>1, <1>2
<1>4. /\ H!Repeats(ch.counter) = e.repeat
      /\ h = (IF e.repeat THEN Repeat ELSE 0) + ((l - (j + 1)) % Repeat)
      /\ h % Repeat = l - (j + 1)
  <2> DEFINE x == l - j
             g == ch.counter
             r == e.repeat
  <2>1. r \in BOOLEAN /\ x \in 1..Repeat /\ g = (IF r THEN Repeat ELSE 0) + (x % Repeat)
    BY <1>1, <1>2, <1>3
  <2> HIDE DEF x, g, r
  <2>2. /\ H!Repeats(g) = r /\ H!CountDown(g) = (IF r THEN Repeat ELSE 0) + ((x - 1) % Repeat)
        /\ H!CountDown(g) % Repeat = x - 1
    BY ONLY <2>1, CountIs
  <2>3. x - 1 = l - (j + 1)
    BY <1>3 DEF x
  <2> QED
    BY <2>2, <2>3 DEF g, r
<1>5. /\ DOMAIN o = ChannelFields /\ o.terminated = FALSE /\ o.counter = ch.counter
      /\ c \in Indirect => o.addr = f /\ o.size = b
      /\ ~(c \in Indirect) => o.addr = b
  BY <1>0 DEF Passed
<1>6. p = [o EXCEPT !.counter = H!CountDown(@)]
  BY DEF H!Counted
<1> HIDE DEF o, h
<1>7. p = [o EXCEPT !.counter = h]
  BY <1>5, <1>6 DEF h
<1> HIDE DEF p, b, f
<1>8. /\ DOMAIN p = ChannelFields /\ p.terminated = FALSE /\ p.counter = h
      /\ c \in Indirect => p.addr = f /\ p.size = b
      /\ ~(c \in Indirect) => p.addr = b
  BY <1>5, <1>7 DEF ChannelFields
<1>9. n = IF h % Repeat = 0 THEN H!LoadEntry(c, p)
          ELSE [p EXCEPT !.doTransfer = e.repeat]
  BY <1>4, <1>8 DEF H!RunChannel, H!EntryDone, p
<1> HIDE DEF n
<1>10. CASE j + 1 < l
  <2>1. ~(h % Repeat = 0) /\ j + 1 \in 0..l-1 /\ (j + 1 = 0) = FALSE
    <3> HIDE DEF l
    <3> QED
      BY <1>3, <1>4, <1>10
  <2>2. n = [p EXCEPT !.doTransfer = e.repeat]
    BY <1>9, <2>1
  <2>3. /\ n.terminated = FALSE /\ n.doTransfer = e.repeat /\ n.counter = h
        /\ n.addr = p.addr /\ n.size = p.size
    <3> HIDE DEF e
    <3> QED
      BY <1>8, <2>2 DEF ChannelFields
  <2>4. e.repeat = (e.repeat \/ j + 1 = 0)
    BY <1>2, <2>1
  <2>5. CursorAt(t, n, k, j + 1)
    BY <1>1, <1>2, <1>4, <1>8, <2>1, <2>3, <2>4 DEF CursorAt, b, f
  <2> QED
    BY <1>10, <2>5 DEF n
<1>11. CASE ~(j + 1 < l)
  <2>1. h % Repeat = 0 /\ j + 1 = l
    <3> HIDE DEF l
    <3> QED
      BY <1>1, <1>3, <1>4, <1>11
  <2>2. n = H!LoadEntry(c, p)
    BY <1>9, <2>1
  <2>3. SentOf(e, j + 1) = H!UnitsOf(e)
    BY <1>2, <1>3, <2>1 DEF SentOf, H!UnitsOf
  <2>4. p.addr = H!HeaderAddr(t, k + 1)
    <3>1. t.indirect = FALSE => H!HeaderAddr(t, k + 1) = H!UnitAddr(t, k, H!UnitsOf(e))
      BY <1>1, Addresses
    <3> QED
      BY <1>2, <1>8, <2>3, <3>1 DEF b, f
  <2> DEFINE d == Len(t.entries)
  <2>5. d \in Nat /\ k \in 1..d
    <3>1. t.entries \in Seq(Entries)
      BY HdmaConstants DEF H!Table, Entries
    <3> QED
      BY <1>1, <3>1
  <2> HIDE DEF d
  <2>6. k + 1 \in 1..d+1 /\ (k + 1 = d + 1) = (k = d)
    BY <2>5
  <2>7. IF k + 1 = d + 1 THEN n.terminated = TRUE ELSE CursorAt(t, n, k + 1, 0)
    BY <1>8, <2>2, <2>4, <2>6, LoadIs DEF d
  <2> QED
    BY <1>11, <2>6, <2>7 DEF n, d
<1> QED
  BY <1>10, <1>11

\* What a table asks of each line: line j of entry k is at most one unit.
LEMMA AskedIs ==
  ASSUME NEW t \in Tables, NEW s \in H!Asked(t)
  PROVE  \E i \in 1..Len(t.entries), u \in Nat :
           /\ u < H!UnitsOf(t.entries[i])
           /\ s = [line |-> H!LinesBefore(t, i) + u + 1, at |-> H!UnitAddr(t, i, u)]
           /\ s.line = H!LinesBefore(t, i) + u + 1
<1>1. PICK i \in 1..Len(t.entries) :
        s \in {[line |-> H!LinesBefore(t, i) + u + 1, at |-> H!UnitAddr(t, i, u)] :
                 u \in 0..H!UnitsOf(t.entries[i])-1}
  BY DEF H!Asked
<1>2. PICK u \in 0..H!UnitsOf(t.entries[i])-1 :
        s = [line |-> H!LinesBefore(t, i) + u + 1, at |-> H!UnitAddr(t, i, u)]
  BY <1>1
<1>3. H!UnitsOf(t.entries[i]) \in Nat
  <2> DEFINE x == H!UnitsOf(t.entries[i])
             l == t.entries[i].lines
  <2>1. x \in 1..l
    BY EntryIs
  <2> HIDE DEF x, l
  <2>2. x \in Nat
    BY <2>1
  <2> QED
    BY <2>2 DEF x
<1>4. u \in Nat /\ u < H!UnitsOf(t.entries[i])
  <2> DEFINE x == H!UnitsOf(t.entries[i])
  <2>1. u \in 0..x-1 /\ x \in Nat
    BY <1>3
  <2> HIDE DEF x
  <2>2. u \in Nat /\ u < x
    BY <2>1
  <2> QED
    BY <2>2 DEF x
<1>5. s.line = H!LinesBefore(t, i) + u + 1
  BY <1>2
<1> QED
  BY <1>2, <1>4, <1>5

\* The entry that asks for something on a line is the one the line belongs to.
LEMMA OneAsked ==
  ASSUME NEW t \in Tables, NEW k \in 1..Len(t.entries), NEW j \in Nat,
         j < t.entries[k].lines, NEW s \in H!Asked(t),
         s.line = H!LinesBefore(t, k) + j + 1
  PROVE  /\ j < H!UnitsOf(t.entries[k])
         /\ s = [line |-> H!LinesBefore(t, k) + j + 1, at |-> H!UnitAddr(t, k, j)]
<1>1. PICK i \in 1..Len(t.entries), u \in Nat :
        /\ u < H!UnitsOf(t.entries[i])
        /\ s = [line |-> H!LinesBefore(t, i) + u + 1, at |-> H!UnitAddr(t, i, u)]
        /\ s.line = H!LinesBefore(t, i) + u + 1
  BY AskedIs
<1> DEFINE B(x) == H!LinesBefore(t, x)
           L(x) == t.entries[x].lines
           U(x) == H!UnitsOf(t.entries[x])
           n == Len(t.entries)
<1>2. \A x \in 1..n : B(x) \in Nat /\ L(x) \in Nat /\ U(x) \in Nat /\ U(x) <= L(x)
  <2> TAKE x \in 1..n
  <2>1. L(x) \in 1..Repeat /\ U(x) \in 1..L(x) /\ B(x) \in Nat
    BY EntryIs
  <2> HIDE DEF B, L, U
  <2> QED
    BY <2>1, HdmaConstants
<1>3. \A x, y \in 1..n : x < y => B(x) + L(x) <= B(y)
  BY LinesGrow
<1>4. n \in Nat
  <2>1. t.entries \in Seq(Entries)
    BY HdmaConstants DEF H!Table, Entries
  <2> QED
    BY <2>1
<1>5. /\ u < U(i) /\ B(i) + u + 1 = B(k) + j + 1 /\ j < L(k)
      /\ i \in 1..n /\ k \in 1..n
  BY <1>1
<1> HIDE DEF B, L, U, n
<1>6. i = k /\ u = j
  <2>0. /\ B(i) \in Nat /\ L(i) \in Nat /\ U(i) \in Nat /\ U(i) <= L(i)
        /\ B(k) \in Nat /\ L(k) \in Nat
    BY <1>2, <1>5
  <2>1. u < L(i) /\ B(i) + u = B(k) + j
    <3> DEFINE bi == B(i)
               bk == B(k)
               ui == U(i)
               li == L(i)
    <3>1. /\ bi \in Nat /\ bk \in Nat /\ ui \in Nat /\ li \in Nat /\ ui <= li
          /\ u < ui /\ bi + u + 1 = bk + j + 1
      BY <1>5, <2>0
    <3> HIDE DEF bi, bk, ui, li
    <3>2. u < li /\ bi + u = bk + j
      BY <3>1
    <3> QED
      BY <3>2 DEF bi, bk, li
  <2>2. ~(i < k)
    <3>1. i < k => B(i) + L(i) <= B(k)
      BY <1>3, <1>5
    <3> QED
      BY <1>2, <1>5, <2>1, <3>1
  <2>3. ~(k < i)
    <3>1. k < i => B(k) + L(k) <= B(i)
      BY <1>3, <1>5
    <3> QED
      BY <1>2, <1>5, <2>1, <3>1
  <2>4. i = k
    BY <1>4, <1>5, <2>2, <2>3
  <2> QED
    BY <1>2, <1>5, <2>1, <2>4
<1> QED
  BY <1>1, <1>5, <1>6 DEF U

LEMMA IsAsked ==
  ASSUME NEW t \in Tables, NEW k \in 1..Len(t.entries), NEW j \in Nat,
         j < H!UnitsOf(t.entries[k])
  PROVE  [line |-> H!LinesBefore(t, k) + j + 1, at |-> H!UnitAddr(t, k, j)] \in H!Asked(t)
<1>1. j \in 0..H!UnitsOf(t.entries[k])-1
  <2> DEFINE x == H!UnitsOf(t.entries[k])
             l == t.entries[k].lines
  <2>1. x \in 1..l /\ j < x
    BY EntryIs
  <2> HIDE DEF x, l
  <2>2. j \in 0..x-1
    BY <2>1
  <2> QED
    BY <2>2 DEF x
<1> QED
  BY <1>1 DEF H!Asked

\* A table asks for nothing before the first line or after its last entry.
LEMMA AskedWithin ==
  ASSUME NEW t \in Tables, NEW s \in H!Asked(t)
  PROVE  s.line \in Nat /\ s.line > 0 /\ s.line <= H!LinesBefore(t, Len(t.entries) + 1)
<1>1. PICK i \in 1..Len(t.entries), u \in Nat :
        u < H!UnitsOf(t.entries[i]) /\ s.line = H!LinesBefore(t, i) + u + 1
  BY AskedIs
<1> DEFINE n == Len(t.entries)
           b == H!LinesBefore(t, i)
           l == t.entries[i].lines
           x == H!UnitsOf(t.entries[i])
           z == H!LinesBefore(t, n + 1)
<1>2. n \in Nat
  <2>1. t.entries \in Seq(Entries)
    BY HdmaConstants DEF H!Table, Entries
  <2> QED
    BY <2>1
<1>3. l \in 1..Repeat /\ x \in 1..l /\ b \in Nat /\ H!LinesBefore(t, i + 1) = b + l
  BY EntryIs
<1>4. CASE i = n
  <2>1. z = b + l
    BY <1>3, <1>4
  <2> HIDE DEF b, l, x, z
  <2>2. b + u + 1 \in Nat /\ b + u + 1 > 0 /\ b + u + 1 <= z
    BY <1>1, <1>3, <2>1, HdmaConstants DEF x
  <2> QED
    BY <1>1, <2>2 DEF b, z
<1>5. CASE i # n
  <2> DEFINE y == H!LinesBefore(t, n)
             w == t.entries[n].lines
  <2>1. n \in 1..n /\ i < n
    <3>1. i \in 1..n
      OBVIOUS
    <3> HIDE DEF n
    <3> QED
      BY <1>2, <1>5, <3>1
  <2>2. b + l <= y
    BY <2>1, LinesGrow
  <2>3. w \in 1..Repeat /\ y \in Nat /\ z = y + w
    BY <2>1, EntryIs
  <2>4. u < x
    BY <1>1
  <2> HIDE DEF b, l, x, y, z, w
  <2>5. b + u + 1 \in Nat /\ b + u + 1 > 0 /\ b + u + 1 <= z
    BY <1>3, <2>2, <2>3, <2>4, HdmaConstants
  <2> QED
    BY <1>1, <2>5 DEF b, z
<1> QED
  BY <1>4, <1>5

-----------------------------------------------------------------------------
(* HDMA: a channel that is left alone stays on its table.                  *)

\* d lines of the frame are done.
PlacedAt(t, ch, d) ==
  \/ ch.terminated = TRUE /\ d >= H!LinesBefore(t, Len(t.entries) + 1)
  \/ \E k \in 1..Len(t.entries), j \in Nat :
       d = H!LinesBefore(t, k) + j /\ CursorAt(t, ch, k, j)

SentBy(t, d) == {s \in H!Asked(t) : s.line <= d}

OnCourse(t, c) ==
  /\ t.at = began[c] /\ t.unit = UnitSize[c] /\ t.indirect = (c \in Indirect)
  /\ sent[c] = SentBy(t, H!Done)
  /\ line # 0 => PlacedAt(t, chan[c], line - 1)

FollowInv ==
  /\ line \in 0..Lines /\ hdmaen \subseteq Channel /\ steady \subseteq hdmaen
  /\ DOMAIN chan = Channel /\ DOMAIN sent = Channel
  /\ \A c \in Channel : DOMAIN chan[c] = ChannelFields
  /\ \A c \in steady : \E t \in Tables : OnCourse(t, c)

\* The first line of a frame finds the cursor on the first entry.
LEMMA StartIs ==
  ASSUME NEW t \in Tables, NEW c, NEW ch, DOMAIN ch = ChannelFields, ch.addr = t.at,
         ch.terminated = FALSE, t.indirect = (c \in Indirect)
  PROVE  PlacedAt(t, H!LoadEntry(c, ch), 0) /\ SentBy(t, 0) = {}
<1> DEFINE m == H!BankSize
           n == Len(t.entries)
<1>1. H!Table(t) /\ m \in Nat \ {0} /\ t.at \in 0..m-1 /\ t.unit \in 1..4 /\ n \in Nat
  <2>1. t.entries \in Seq(Entries)
    BY HdmaConstants DEF H!Table, Entries
  <2>2. n \in Nat
    BY <2>1
  <2>3. H!Table(t) /\ m \in Nat \ {0}
    BY HdmaConstants
  <2>4. t.at \in 0..m-1 /\ t.unit \in 1..4
    BY <2>3 DEF H!Table, H!Addr
  <2> QED
    BY <2>2, <2>3, <2>4
<1>2. H!LinesBefore(t, 1) = 0 /\ H!UnitsBefore(t, 1) = 0
  BY DEF H!LinesBefore, H!UnitsBefore
<1>3. H!HeaderAddr(t, 1) = t.at
  <2>1. H!HeaderAddr(t, 1) = IF t.indirect THEN (t.at + 3 * (1 - 1)) % m
                             ELSE ((t.at + (1 - 1)) + t.unit * 0) % m
    BY <1>2 DEF H!HeaderAddr, H!Plus
  <2> HIDE DEF m
  <2>2. t.at + 3 * (1 - 1) = t.at /\ (t.at + (1 - 1)) + t.unit * 0 = t.at
    BY <1>1
  <2>3. t.at % m = t.at
    <3>1. m \in Nat \ {0} /\ t.at \in Int /\ t.at \in 0..m-1
      BY <1>1
    <3> QED
      BY ONLY <3>1, ModStep
  <2> QED
    BY <2>1, <2>2, <2>3
<1>4. IF 1 = n + 1 THEN H!LoadEntry(c, ch).terminated = TRUE
      ELSE CursorAt(t, H!LoadEntry(c, ch), 1, 0)
  <2>1. 1 \in 1..n+1
    <3> HIDE DEF n
    <3> QED
      BY <1>1
  <2> QED
    BY <1>3, <2>1, LoadIs
<1>5. PlacedAt(t, H!LoadEntry(c, ch), 0)
  <2>1. CASE 1 = n + 1
    <3>1. H!LinesBefore(t, n + 1) = 0
      BY <1>2, <2>1
    <3> QED
      BY <1>4, <2>1, <3>1 DEF PlacedAt
  <2>2. CASE 1 # n + 1
    <3>1. 1 \in 1..n
      <4> HIDE DEF n
      <4> QED
        BY <1>1, <2>2
    <3> QED
      BY <1>2, <1>4, <2>2, <3>1 DEF PlacedAt
  <2> QED
    BY <2>1, <2>2
<1>6. SentBy(t, 0) = {}
  BY AskedWithin DEF SentBy
<1> QED
  BY <1>5, <1>6

\* One scanline takes the cursor over one line of the table, and sends what the
\* table asks for on it.
Advanced(t, c, ch, d) ==
  IF ch.terminated = TRUE THEN PlacedAt(t, ch, d + 1) /\ SentBy(t, d + 1) = SentBy(t, d)
  ELSE /\ ch.terminated = FALSE /\ ch.doTransfer \in BOOLEAN
       /\ PlacedAt(t, H!RunChannel(c, ch), d + 1)
       /\ SentBy(t, d + 1) =
            IF ch.doTransfer = TRUE
            THEN SentBy(t, d) \cup {[line |-> d + 1, at |-> H!Source(c, ch)]}
            ELSE SentBy(t, d)

LEMMA AdvanceIs ==
  ASSUME NEW t \in Tables, NEW c, NEW ch, NEW d \in Nat, PlacedAt(t, ch, d),
         DOMAIN ch = ChannelFields, t.unit = UnitSize[c], t.indirect = (c \in Indirect)
  PROVE  Advanced(t, c, ch, d)
<1>0. Len(t.entries) \in Nat
  <2>1. t.entries \in Seq(Entries)
    BY HdmaConstants DEF H!Table, Entries
  <2> QED
    BY <2>1
<1>1. CASE ch.terminated = TRUE /\ d >= H!LinesBefore(t, Len(t.entries) + 1)
  <2> DEFINE z == H!LinesBefore(t, Len(t.entries) + 1)
  <2>1. z \in Nat
    <3>1. CASE Len(t.entries) = 0
      BY <3>1 DEF H!LinesBefore
    <3>2. CASE Len(t.entries) # 0
      <4> DEFINE n == Len(t.entries)
      <4>1. n \in 1..n
        <5> HIDE DEF n
        <5> QED
          BY <1>0, <3>2 DEF n
      <4>2. t.entries[n].lines \in 1..Repeat /\ H!LinesBefore(t, n) \in Nat
            /\ z = H!LinesBefore(t, n) + t.entries[n].lines
        BY <4>1, EntryIs
      <4> QED
        BY <4>2, HdmaConstants
    <3> QED
      BY <3>1, <3>2
  <2>2. \A s \in H!Asked(t) : s.line \in Nat /\ s.line <= z
    BY AskedWithin
  <2>3. d + 1 >= z /\ d >= z
    <3> HIDE DEF z
    <3>1. d >= z
      BY <1>1 DEF z
    <3> QED
      BY <2>1, <3>1
  <2>4. PlacedAt(t, ch, d + 1)
    BY <1>1, <2>3 DEF PlacedAt
  <2> HIDE DEF z
  <2>5. \A s \in H!Asked(t) : s.line <= d /\ s.line <= d + 1
    BY <2>1, <2>2, <2>3
  <2>6. SentBy(t, d + 1) = SentBy(t, d)
    BY <2>5 DEF SentBy
  <2> QED
    BY <1>1, <2>4, <2>6 DEF Advanced
<1>2. ASSUME NEW k \in 1..Len(t.entries), NEW j \in Nat,
             d = H!LinesBefore(t, k) + j, CursorAt(t, ch, k, j)
      PROVE  Advanced(t, c, ch, d)
  <2> DEFINE e == t.entries[k]
             l == e.lines
             b == H!LinesBefore(t, k)
             n == H!RunChannel(c, ch)
             z == Len(t.entries)
             a == H!UnitAddr(t, k, j)
             w == [line |-> d + 1, at |-> a]
  <2>1. /\ l \in 1..Repeat /\ Repeat \in Nat /\ b \in Nat /\ H!LinesBefore(t, k + 1) = b + l
        /\ e.repeat \in BOOLEAN
    BY EntryIs, HdmaConstants
  <2>2. /\ j \in 0..l-1 /\ ch.terminated = FALSE /\ ch.doTransfer = (e.repeat \/ j = 0)
    BY <1>2 DEF CursorAt
  <2>3. k \in Nat /\ z \in Nat /\ k >= 1 /\ k <= z /\ j < l /\ l \in Nat
    <3>1. k \in 1..z
      OBVIOUS
    <3> HIDE DEF z, l
    <3> QED
      BY <1>0, <2>1, <2>2, <3>1 DEF z
  <2>4. IF j + 1 < l THEN CursorAt(t, n, k, j + 1)
        ELSE IF k = z THEN n.terminated = TRUE ELSE CursorAt(t, n, k + 1, 0)
    BY <1>2, <2>3, RunIs
  <2>5. PlacedAt(t, n, d + 1)
    <3> HIDE DEF n
    <3>1. CASE j + 1 < l
      <4>1. d + 1 = b + (j + 1) /\ j + 1 \in Nat
        <5> HIDE DEF b
        <5>1. d = b + j
          BY <1>2 DEF b
        <5> QED
          BY <2>1, <5>1
      <4> QED
        BY <2>4, <3>1, <4>1 DEF PlacedAt
    <3>2. CASE ~(j + 1 < l)
      <4>1. d + 1 = H!LinesBefore(t, k + 1)
        <5>1. d = b + j
          BY <1>2
        <5> HIDE DEF b, l
        <5>2. d + 1 = b + l
          BY <2>1, <2>3, <3>2, <5>1
        <5> QED
          BY <2>1, <5>2
      <4>2. CASE k = z
        <5>1. d + 1 >= H!LinesBefore(t, z + 1)
          BY <4>1, <4>2
        <5> QED
          BY <2>4, <3>2, <4>2, <5>1 DEF PlacedAt
      <4>3. CASE k # z
        <5>1. k + 1 \in 1..z /\ d + 1 = H!LinesBefore(t, k + 1) + 0
          <6>1. k + 1 \in 1..z
            <7> HIDE DEF z
            <7> QED
              BY <2>3, <4>3
          <6>2. d + 1 = (d + 1) + 0
            OBVIOUS
          <6> QED
            BY <4>1, <6>1, <6>2
        <5>2. CursorAt(t, n, k + 1, 0)
          BY <2>4, <3>2, <4>3
        <5> QED
          BY <5>1, <5>2 DEF PlacedAt
      <4> QED
        BY <4>2, <4>3
    <3> QED
      BY <3>1, <3>2
  <2>6. (ch.doTransfer = TRUE <=> j < H!UnitsOf(e)) /\ ch.doTransfer \in BOOLEAN
    <3>1. H!UnitsOf(e) = IF e.repeat THEN l ELSE 1
      BY DEF H!UnitsOf
    <3> DEFINE r == e.repeat
               v == H!UnitsOf(e)
    <3>2. r \in BOOLEAN /\ ch.doTransfer = (r \/ j = 0) /\ v = IF r THEN l ELSE 1
      BY <2>1, <2>2, <3>1
    <3> SUFFICES (ch.doTransfer = TRUE <=> j < v) /\ ch.doTransfer \in BOOLEAN
      OBVIOUS
    <3> HIDE DEF e, l, r, v
    <3>3. CASE r
      <4>1. ch.doTransfer = TRUE /\ v = l
        BY <3>2, <3>3
      <4> QED
        BY <2>3, <4>1
    <3>4. CASE ~r /\ j = 0
      <4>1. ch.doTransfer = TRUE /\ j < v
        <5>1. ch.doTransfer = TRUE
          BY <3>2, <3>4
        <5>2. v = 1 /\ j = 0
          BY <3>2, <3>4
        <5> QED
          BY ONLY <5>1, <5>2
      <4> QED
        BY <3>4, <4>1
    <3>5. CASE ~r /\ j # 0
      <4>1. ch.doTransfer = FALSE /\ v = 1 /\ v \in Nat /\ ~(j < v)
        BY <3>2, <3>5
      <4> QED
        BY <3>5, <4>1
    <3> QED
      BY <3>2, <3>3, <3>4, <3>5
  <2>7. ch.doTransfer = TRUE => H!Source(c, ch) = a
    <3>1. Passed(t, c, ch, k, j)
      BY <1>2, <2>3, PassIs
    <3>2. H!Source(c, ch) = H!UnitAddr(t, k, SentOf(e, j))
      BY <3>1 DEF Passed
    <3>3. ASSUME ch.doTransfer = TRUE PROVE SentOf(e, j) = j
      <4>1. e.repeat \/ j = 0
        BY <2>2, <3>3
      <4> QED
        BY <4>1 DEF SentOf
    <3> QED
      BY <3>2, <3>3
  <2>8. \A s \in H!Asked(t) : s.line \in Nat
                              /\ (s.line = d + 1 => j < H!UnitsOf(e) /\ s = w)
    <3> TAKE s \in H!Asked(t)
    <3>1. s.line \in Nat
      BY AskedWithin
    <3>2. ASSUME s.line = d + 1 PROVE j < H!UnitsOf(e) /\ s = w
      <4>1. d + 1 = b + j + 1
        BY <1>2
      <4>2. s.line = b + j + 1 /\ j < l
        BY <2>3, <3>2, <4>1
      <4>3. j < H!UnitsOf(e) /\ s = [line |-> b + j + 1, at |-> a]
        BY <4>2, OneAsked
      <4> QED
        BY <4>1, <4>3
    <3> QED
      BY <3>1, <3>2
  <2>9. j < H!UnitsOf(e) => w \in H!Asked(t) /\ w.line = d + 1
    <3>1. d + 1 = b + j + 1
      BY <1>2
    <3> QED
      BY <3>1, IsAsked
  <2> DEFINE A == H!Asked(t)
             u == j < H!UnitsOf(e)
  <2>10. SentBy(t, d + 1) = IF ch.doTransfer = TRUE THEN SentBy(t, d) \cup {w} ELSE SentBy(t, d)
    <3>1. /\ SentBy(t, d + 1) = {s \in A : s.line <= d + 1}
          /\ SentBy(t, d) = {s \in A : s.line <= d}
      BY DEF SentBy
    <3>2. /\ \A s \in A : s.line \in Nat /\ (s.line = d + 1 => u /\ s = w)
          /\ u => w \in A /\ w.line = d + 1
          /\ (ch.doTransfer = TRUE <=> u)
      BY <2>6, <2>8, <2>9
    <3> HIDE DEF A, u, w
    <3>3. \A s \in A : s.line <= d + 1 <=> s.line <= d \/ s.line = d + 1
      BY <3>2
    <3>4. u => d + 1 <= d + 1
      OBVIOUS
    <3>5. CASE u
      BY <3>1, <3>2, <3>3, <3>5
    <3>6. CASE ~u
      BY <3>1, <3>2, <3>3, <3>6
    <3> QED
      BY <3>5, <3>6
  <2> QED
    BY <2>2, <2>5, <2>6, <2>7, <2>10 DEF Advanced
<1> QED
  BY <1>1, <1>2 DEF PlacedAt

\* src is not the cursor, nor is size in direct mode.
LEMMA PlacedSame ==
  ASSUME NEW t, NEW x, NEW y, NEW d, PlacedAt(t, x, d),
         y.addr = x.addr, y.counter = x.counter, y.terminated = x.terminated,
         y.doTransfer = x.doTransfer, t.indirect => y.size = x.size
  PROVE  PlacedAt(t, y, d)
<1>1. CASE x.terminated = TRUE /\ d >= H!LinesBefore(t, Len(t.entries) + 1)
  BY <1>1 DEF PlacedAt
<1>2. ASSUME NEW k \in 1..Len(t.entries), NEW j \in Nat,
             d = H!LinesBefore(t, k) + j, CursorAt(t, x, k, j)
      PROVE  PlacedAt(t, y, d)
  <2>1. CursorAt(t, y, k, j)
    BY <1>2 DEF CursorAt
  <2> QED
    BY <1>2, <2>1 DEF PlacedAt
<1> QED
  BY <1>1, <1>2 DEF PlacedAt

LEMMA FollowInit == H!Init => FollowInv
<1>1. 0 \in 0..Lines
  BY HdmaConstants
<1> QED
  BY <1>1 DEF H!Init, FollowInv, ChannelFields

LEMMA InitFrameFollows == FollowInv /\ H!InitFrame => FollowInv'
<1> SUFFICES ASSUME FollowInv, H!InitFrame PROVE FollowInv'
  OBVIOUS
<1>1. /\ line \in 0..Lines /\ hdmaen \subseteq Channel
      /\ DOMAIN chan = Channel /\ \A c \in Channel : DOMAIN chan[c] = ChannelFields
  BY DEF FollowInv
<1>2. /\ line' = 1 /\ hdmaen' = hdmaen
      /\ IF hdmaen = {} THEN chan' = chan ELSE chan' = [c \in Channel |-> H!InitChannel(c)]
      /\ sent' = [c \in Channel |-> {}]
      /\ began' = [c \in Channel |-> IF c \in hdmaen THEN chan[c].src ELSE began[c]]
      /\ steady' = {c \in hdmaen : H!OnTable(c, chan[c])}
  BY DEF H!InitFrame
<1>3. 1 \in 0..Lines /\ H!Done' = 0
  BY <1>2, HdmaConstants DEF H!Done
<1>4. DOMAIN chan' = Channel
  BY <1>1, <1>2
<1>5. ASSUME NEW c \in Channel PROVE DOMAIN chan'[c] = ChannelFields
  <2>1. CASE hdmaen = {}
    BY <1>1, <1>2, <2>1
  <2>2. CASE hdmaen # {}
    <3>1. chan'[c] = H!InitChannel(c)
      BY <1>2, <2>2
    <3>2. DOMAIN H!Restarted(chan[c]) = ChannelFields
      BY <1>1, FieldsKept
    <3>3. DOMAIN H!LoadEntry(c, H!Restarted(chan[c])) = ChannelFields
      BY <3>2, FieldsKept
    <3>4. DOMAIN [chan[c] EXCEPT !.terminated = TRUE] = ChannelFields
      BY <1>1
    <3> QED
      BY <3>1, <3>3, <3>4 DEF H!InitChannel
  <2> QED
    BY <2>1, <2>2
<1>6. ASSUME NEW c \in steady' PROVE \E t \in Tables : OnCourse(t, c)'
  <2> DEFINE x == H!Restarted(chan[c])
  <2>1. c \in hdmaen /\ c \in Channel /\ hdmaen # {}
    BY <1>1, <1>2
  <2>2. PICK t \in Tables : /\ t.at = chan[c].src /\ t.unit = UnitSize[c]
                            /\ t.indirect = (c \in Indirect)
    BY <1>2 DEF H!OnTable
  <2>3. began'[c] = t.at /\ sent'[c] = {} /\ chan'[c] = H!LoadEntry(c, x)
    BY <1>2, <2>1, <2>2 DEF H!InitChannel
  <2>4. DOMAIN x = ChannelFields /\ x.addr = t.at /\ x.terminated = FALSE
    <3>1. DOMAIN chan[c] = ChannelFields
      BY <1>1, <2>1
    <3>2. x = [chan[c] EXCEPT !.addr = chan[c].src, !.terminated = FALSE, !.doTransfer = TRUE]
      BY DEF H!Restarted
    <3> HIDE DEF x
    <3>3. DOMAIN x = ChannelFields /\ x.addr = chan[c].src /\ x.terminated = FALSE
      BY <3>1, <3>2 DEF ChannelFields
    <3> QED
      BY <2>2, <3>3
  <2> HIDE DEF x
  <2>5. PlacedAt(t, H!LoadEntry(c, x), 0) /\ SentBy(t, 0) = {}
    BY <2>2, <2>4, StartIs
  <2>6. PlacedAt(t, chan'[c], line' - 1)
    <3>1. line' - 1 = 0
      BY <1>2
    <3> QED
      BY <2>3, <2>5, <3>1
  <2>7. sent'[c] = SentBy(t, H!Done')
    BY <1>3, <2>3, <2>5
  <2> QED
    BY <2>2, <2>3, <2>6, <2>7 DEF OnCourse
<1>7. steady' \subseteq hdmaen' /\ DOMAIN sent' = Channel /\ line' \in 0..Lines
  BY <1>2, <1>3
<1> QED
  BY <1>1, <1>2, <1>4, <1>5, <1>6, <1>7 DEF FollowInv

LEMMA RunLineFollows == FollowInv /\ H!RunLine => FollowInv'
<1> SUFFICES ASSUME FollowInv, H!RunLine PROVE FollowInv'
  OBVIOUS
<1>1. /\ line \in 0..Lines /\ hdmaen \subseteq Channel /\ steady \subseteq hdmaen
      /\ DOMAIN chan = Channel /\ \A c \in Channel : DOMAIN chan[c] = ChannelFields
      /\ \A c \in steady : \E t \in Tables : OnCourse(t, c)
  BY DEF FollowInv
<1>2. /\ line > 0 /\ line' = (line + 1) % (Lines + 1)
      /\ chan' = [c \in Channel |-> IF c \in H!Active THEN H!RunChannel(c, chan[c])
                                    ELSE chan[c]]
      /\ sent' = [c \in Channel |->
                    IF c \in H!Active /\ chan[c].doTransfer
                    THEN sent[c] \cup {[line |-> line, at |-> H!Source(c, chan[c])]}
                    ELSE sent[c]]
      /\ hdmaen' = hdmaen /\ began' = began /\ steady' = steady
  BY DEF H!RunLine
<1>3. line' \in 0..Lines /\ (line' = 0 => line = Lines) /\ (line' # 0 => line' = line + 1)
  <2> DEFINE m == Lines + 1
  <2>1. m \in Nat \ {0} /\ line + 1 \in Int /\ line + 1 \in 1..m /\ Lines \in Nat
    BY <1>1, <1>2, HdmaConstants
  <2>2. CASE line + 1 = m
    <3>1. line' = 0
      <4>1. 0 \in 0..m-1 /\ 1 \in Int /\ m * 1 + 0 = m
        BY <2>1
      <4>2. (m * 1 + 0) % m = 0
        BY <2>1, <4>1, ModUnique
      <4> QED
        BY <1>2, <2>2, <4>1, <4>2
    <3>2. line = Lines
      BY <1>1, <2>1, <2>2
    <3> QED
      BY <2>1, <3>1, <3>2
  <2>3. CASE line + 1 # m
    <3>1. line + 1 \in 0..m-1
      BY <2>1, <2>3
    <3> HIDE DEF m
    <3>2. (line + 1) % m = line + 1
      BY <2>1, <3>1, ModStep
    <3>3. line' = line + 1
      BY <1>2, <3>2 DEF m
    <3> QED
      BY <1>1, <1>2, <2>1, <3>1, <3>3 DEF m
  <2> QED
    BY <2>2, <2>3
<1>4. H!Done' = line /\ line - 1 \in Nat /\ (line - 1) + 1 = line /\ line # 0
      /\ H!Done = line - 1 /\ (line' # 0 => line' - 1 = line)
  <2>1. line \in Nat /\ line > 0 /\ line # 0
    BY <1>1, <1>2, HdmaConstants
  <2>2. H!Done' = line
    <3>1. H!Done' = IF line' = 0 THEN Lines ELSE line' - 1
      BY DEF H!Done
    <3>2. CASE line' = 0
      BY <1>3, <3>1, <3>2
    <3>3. CASE line' # 0
      <4>1. (line + 1) - 1 = line
        BY <2>1
      <4> QED
        BY <1>3, <3>1, <3>3, <4>1
    <3> QED
      BY <3>2, <3>3
  <2>3. line' # 0 => line' - 1 = line
    <3>1. (line + 1) - 1 = line
      BY <2>1
    <3> QED
      BY <1>3, <3>1
  <2> QED
    BY <2>1, <2>2, <2>3 DEF H!Done
<1>5. ASSUME NEW c \in Channel PROVE DOMAIN chan'[c] = ChannelFields
  BY <1>1, <1>2, FieldsKept
<1>6. ASSUME NEW c \in steady' PROVE \E t \in Tables : OnCourse(t, c)'
  <2> DEFINE d == line - 1
  <2>1. c \in steady /\ c \in hdmaen /\ c \in Channel /\ DOMAIN chan[c] = ChannelFields
    BY <1>1, <1>2
  <2>2. PICK t \in Tables : OnCourse(t, c)
    BY <1>1, <2>1
  <2>3. /\ t.at = began[c] /\ t.unit = UnitSize[c] /\ t.indirect = (c \in Indirect)
        /\ sent[c] = SentBy(t, d) /\ PlacedAt(t, chan[c], d)
    BY <1>4, <2>2 DEF OnCourse
  <2>4. d \in Nat /\ d + 1 = line
    BY <1>4
  <2> HIDE DEF d
  <2>5. Advanced(t, c, chan[c], d)
    BY <2>1, <2>3, <2>4, AdvanceIs
  <2>6. CASE chan[c].terminated = TRUE
    <3>1. ~(c \in H!Active)
      BY <2>6 DEF H!Active
    <3>2. chan'[c] = chan[c] /\ sent'[c] = sent[c]
      BY <1>2, <2>1, <3>1
    <3>3. PlacedAt(t, chan'[c], line) /\ sent'[c] = SentBy(t, line)
      BY <2>3, <2>4, <2>5, <2>6, <3>2 DEF Advanced
    <3> QED
      BY <1>2, <1>4, <2>3, <3>3 DEF OnCourse
  <2>7. CASE chan[c].terminated # TRUE
    <3>1. /\ chan[c].terminated = FALSE /\ chan[c].doTransfer \in BOOLEAN
          /\ PlacedAt(t, H!RunChannel(c, chan[c]), d + 1)
          /\ SentBy(t, d + 1) =
               IF chan[c].doTransfer = TRUE
               THEN SentBy(t, d) \cup {[line |-> d + 1, at |-> H!Source(c, chan[c])]}
               ELSE SentBy(t, d)
      BY <2>5, <2>7 DEF Advanced
    <3>2. c \in H!Active
      BY <2>1, <3>1 DEF H!Active
    <3>3. chan'[c] = H!RunChannel(c, chan[c])
      BY <1>2, <2>1, <3>2
    <3>4. sent'[c] = SentBy(t, d + 1)
      <4>1. CASE chan[c].doTransfer = TRUE
        <5>1. sent'[c] = sent[c] \cup {[line |-> line, at |-> H!Source(c, chan[c])]}
          BY <1>2, <2>1, <3>2, <4>1
        <5> QED
          BY <2>3, <2>4, <3>1, <4>1, <5>1
      <4>2. CASE chan[c].doTransfer = FALSE
        <5>1. sent'[c] = sent[c]
          BY <1>2, <2>1, <4>2
        <5> QED
          BY <2>3, <3>1, <4>2, <5>1
      <4> QED
        BY <3>1, <4>1, <4>2
    <3>5. PlacedAt(t, chan'[c], line) /\ sent'[c] = SentBy(t, line)
      BY <2>4, <3>1, <3>3, <3>4
    <3> QED
      BY <1>2, <1>4, <2>3, <3>5 DEF OnCourse
  <2> QED
    BY <2>6, <2>7
<1>7. DOMAIN chan' = Channel /\ DOMAIN sent' = Channel
  BY <1>2
<1> QED
  BY <1>1, <1>2, <1>3, <1>5, <1>6, <1>7 DEF FollowInv

LEMMA FollowNext == FollowInv /\ [H!Next]_hdmaVars => FollowInv'
<1> SUFFICES ASSUME FollowInv, [H!Next]_hdmaVars PROVE FollowInv'
  OBVIOUS
<1>1. /\ line \in 0..Lines /\ hdmaen \subseteq Channel /\ steady \subseteq hdmaen
      /\ DOMAIN chan = Channel /\ DOMAIN sent = Channel
      /\ \A c \in Channel : DOMAIN chan[c] = ChannelFields
      /\ \A c \in steady : \E t \in Tables : OnCourse(t, c)
  BY DEF FollowInv
<1>2. ASSUME UNCHANGED <<line, sent, began>>, hdmaen' \subseteq Channel,
             steady' \subseteq hdmaen', steady' \subseteq steady,
             DOMAIN chan' = Channel,
             \A c \in Channel : DOMAIN chan'[c] = ChannelFields,
             \A c \in steady' :
               /\ chan'[c].addr = chan[c].addr /\ chan'[c].counter = chan[c].counter
               /\ chan'[c].terminated = chan[c].terminated
               /\ chan'[c].doTransfer = chan[c].doTransfer
               /\ c \in Indirect => chan'[c].size = chan[c].size
      PROVE  FollowInv'
  <2>1. ASSUME NEW c \in steady' PROVE \E t \in Tables : OnCourse(t, c)'
    <3>1. PICK t \in Tables : OnCourse(t, c)
      BY <1>1, <1>2
    <3>2. H!Done' = H!Done
      BY <1>2 DEF H!Done
    <3>3. line # 0 => PlacedAt(t, chan'[c], line - 1)
      <4>1. t.indirect = (c \in Indirect) /\ (line # 0 => PlacedAt(t, chan[c], line - 1))
        BY <3>1 DEF OnCourse
      <4>2. /\ chan'[c].addr = chan[c].addr /\ chan'[c].counter = chan[c].counter
            /\ chan'[c].terminated = chan[c].terminated
            /\ chan'[c].doTransfer = chan[c].doTransfer
            /\ t.indirect => chan'[c].size = chan[c].size
        BY <1>2, <4>1
      <4> QED
        BY <4>1, <4>2, PlacedSame
    <3> QED
      BY <1>2, <3>1, <3>2, <3>3 DEF OnCourse
  <2> QED
    BY <1>1, <1>2, <2>1 DEF FollowInv
<1>3. ASSUME NEW mask \in SUBSET Channel, H!WriteHdmaen(mask) PROVE FollowInv'
  <2>1. /\ UNCHANGED <<line, sent, began, chan>> /\ hdmaen' = mask
        /\ steady' = steady \cap mask
    BY <1>3 DEF H!WriteHdmaen, H!histVars
  <2> QED
    BY <1>1, <1>2, <2>1
<1>4. ASSUME NEW c \in Channel, NEW t \in Tables, H!WriteSource(c, t) PROVE FollowInv'
  <2>1. /\ UNCHANGED <<line, sent, began, hdmaen, steady>>
        /\ chan' = [chan EXCEPT ![c] = [chan[c] EXCEPT !.src = t.at]]
    BY <1>4 DEF H!WriteSource, H!histVars
  <2> DEFINE x == [chan[c] EXCEPT !.src = t.at]
  <2>2. /\ DOMAIN x = ChannelFields /\ x.addr = chan[c].addr /\ x.counter = chan[c].counter
        /\ x.terminated = chan[c].terminated /\ x.doTransfer = chan[c].doTransfer
        /\ x.size = chan[c].size
    BY <1>1 DEF ChannelFields
  <2> HIDE DEF x
  <2>3. \A d \in Channel : chan'[d] = IF d = c THEN x ELSE chan[d]
    BY <1>1, <2>1 DEF x
  <2>4. DOMAIN chan' = Channel /\ steady \subseteq Channel
    BY <1>1, <2>1
  <2> QED
    BY <1>1, <1>2, <2>1, <2>2, <2>3, <2>4
<1>5. ASSUME NEW c \in Channel, NEW end \in DmaEnds, H!GeneralDma(c, end) PROVE FollowInv'
  <2>1. /\ UNCHANGED <<line, sent, began, hdmaen>>
        /\ steady' = steady \ ({c} \cap Indirect)
        /\ chan' = [chan EXCEPT ![c].src = end, ![c].size = 0]
    BY <1>5 DEF H!GeneralDma, H!histVars
  <2> DEFINE x == [chan[c] EXCEPT !.src = end, !.size = 0]
  <2>2. /\ DOMAIN x = ChannelFields /\ x.addr = chan[c].addr /\ x.counter = chan[c].counter
        /\ x.terminated = chan[c].terminated /\ x.doTransfer = chan[c].doTransfer
    BY <1>1 DEF ChannelFields
  <2>3. chan' = [chan EXCEPT ![c] = x]
    BY <1>1, <2>1
  <2> HIDE DEF x
  <2>4. \A d \in Channel : chan'[d] = IF d = c THEN x ELSE chan[d]
    BY <1>1, <2>3
  <2>5. /\ DOMAIN chan' = Channel /\ steady \subseteq Channel
        /\ steady' \subseteq steady /\ steady' \subseteq hdmaen'
    BY <1>1, <2>1, <2>3
  <2>6. \A d \in steady' : d \in Indirect => d # c
    BY <2>1
  <2> QED
    BY <1>1, <1>2, <2>1, <2>2, <2>4, <2>5, <2>6
<1>6. ASSUME NEW c \in Channel, NEW u \in Cursors, H!WriteCursor(c, u) PROVE FollowInv'
  <2>1. /\ UNCHANGED <<line, sent, began, hdmaen>> /\ steady' = steady \ {c}
        /\ chan' = [chan EXCEPT ![c].addr = u.addr, ![c].counter = u.counter]
    BY <1>6 DEF H!WriteCursor, H!histVars
  <2> DEFINE x == [chan[c] EXCEPT !.addr = u.addr, !.counter = u.counter]
  <2>2. DOMAIN x = ChannelFields
    BY <1>1
  <2>3. chan' = [chan EXCEPT ![c] = x]
    BY <1>1, <2>1
  <2> HIDE DEF x
  <2>4. \A d \in Channel : chan'[d] = IF d = c THEN x ELSE chan[d]
    BY <1>1, <2>3
  <2>5. /\ DOMAIN chan' = Channel /\ steady \subseteq Channel
        /\ steady' \subseteq steady /\ steady' \subseteq hdmaen'
        /\ \A d \in steady' : d # c
    BY <1>1, <2>1, <2>3
  <2> QED
    BY <1>1, <1>2, <2>1, <2>2, <2>4, <2>5
<1>7. CASE UNCHANGED hdmaVars
  BY <1>1, <1>2, <1>7 DEF hdmaVars
<1> QED
  BY <1>3, <1>4, <1>5, <1>6, <1>7, InitFrameFollows, RunLineFollows DEF H!Next

\* Every line of the frame sends, on a channel that was started on a table and
\* left alone, exactly the units the table asks for: whatever the table, its
\* place in the bank, the other channels and what the program writes meanwhile
\* (dma.rs:243-364).
THEOREM FollowsTableHolds == TransfersSpec => []FollowsTable
<1>1. TransfersInit => FollowInv
  BY FollowInit DEF TransfersInit
<1>2. FollowInv /\ [TransfersNext]_<<focus, vars, hdmaVars>> => FollowInv'
  <2> SUFFICES ASSUME FollowInv, [TransfersNext]_<<focus, vars, hdmaVars>>
               PROVE  [H!Next]_hdmaVars
    BY FollowNext
  <2> QED
    BY DEF TransfersNext
<1>3. FollowInv => FollowsTable
  BY DEF FollowInv, OnCourse, SentBy, FollowsTable, H!FollowsTable
<1> QED
  BY <1>1, <1>2, <1>3, PTL DEF TransfersSpec
=============================================================================
