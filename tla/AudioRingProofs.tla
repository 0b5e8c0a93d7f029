--------------------------- MODULE AudioRingProofs --------------------------
(***************************************************************************)
(* What the worker accepted since the ring was last upset the worklet      *)
(* hears, in order, and only an underrun or the resumption upsets the ring: *)
(* for a ring of any size, batches and quanta of any sizes, any number of  *)
(* frames, and whatever the three threads are doing when they meet.        *)
(*                                                                         *)
(* What is between the positions is frames popped + 1 to accepted          *)
(* (Positions), of which those accepted since the ring was last upset are  *)
(* in their places (Content), as are those of the batch the worker is      *)
(* copying (Batch).  While the ring is calm the room and the frames that   *)
(* a thread has found are there; what the other one does meanwhile makes   *)
(* more of them, never fewer.  When it is not, nothing that was accepted   *)
(* counts (Since).                                                         *)
(***************************************************************************)
EXTENDS AudioRing, SequenceTheorems, TLAPS

Types ==
  /\ ring \in [Slot -> Int] /\ wPos \in Slot /\ rPos \in Slot
  /\ writer \in [at : {"idle", "loaded", "copy"}, wp : Slot, left : Nat, next : Nat]
  /\ reader \in [at : {"idle", "loaded", "play"}, wp : Slot, rp : Slot, take : Nat,
                 last : Int, next : Nat]
  /\ accepted \in Nat /\ popped \in Int /\ since \in Nat

Batch ==
  /\ writer.at = "loaded" => writer.next = 0
  /\ writer.at = "copy" =>
       /\ writer.next <= writer.left /\ writer.left < Slots
       /\ \A i \in 1..writer.next : ring[Moved(writer.wp, i - 1)] = accepted + i

Unread == Used(wPos, rPos)

Positions == popped = accepted - Unread

Content ==
  \A k \in 1..Unread : popped + k > since => ring[Moved(rPos, k - 1)] = popped + k

Since == since <= accepted /\ (Calm \/ since = accepted)

IInv == Types /\ Batch /\ Positions /\ Content /\ Since

-----------------------------------------------------------------------------
(* Arithmetic of positions.                                                *)

\* A number less than one turn away is brought back by one addition or subtraction.
LEMMA ModOnce ==
  ASSUME NEW s \in Int, s > 0, NEW x \in Int, -s <= x, x < 2*s
  PROVE  x % s = IF x < 0 THEN x + s ELSE IF x < s THEN x ELSE x - s
<1>1. x = s * (x \div s) + (x % s) /\ x % s \in 0..s-1 /\ x \div s \in Int
  OBVIOUS
<1>2. x \div s \in {-1, 0, 1}
  <2>1. CASE x \div s <= -2
    <3>1. s * (x \div s) <= -2 * s
      BY <1>1, <2>1
    <3> QED
      BY <1>1, <3>1
  <2>2. CASE x \div s >= 2
    <3>1. s * (x \div s) >= 2 * s
      BY <1>1, <2>2
    <3> QED
      BY <1>1, <3>1
  <2> QED
    BY <1>1, <2>1, <2>2
<1> QED
  BY <1>1, <1>2

\* Positions move around the ring.
LEMMA MovedIs ==
  ASSUME RingAssumption, NEW p \in Slot, NEW n \in 0..Slots
  PROVE  /\ Moved(p, n) \in Slot
         /\ Moved(p, n) = IF p + n < Slots THEN p + n ELSE p + n - Slots
<1> DEFINE x == p + n
<1>1. Slots \in Int /\ Slots > 0 /\ x \in Int /\ 0 <= x /\ -Slots <= x /\ x < 2*Slots
  BY DEF RingAssumption, Slot
<1>2. Moved(p, n) = x % Slots
  BY DEF Moved
<1> HIDE DEF x
<1>3. x % Slots = IF x < 0 THEN x + Slots ELSE IF x < Slots THEN x ELSE x - Slots
  BY <1>1, ModOnce
<1>4. x % Slots \in Slot /\ x % Slots = IF x < Slots THEN x ELSE x - Slots
  BY <1>1, <1>3 DEF Slot
<1> QED
  BY <1>1, <1>2, <1>4 DEF x, RingAssumption, Slot

\* What is between two positions.
LEMMA UsedIs ==
  ASSUME RingAssumption, NEW w \in Slot, NEW r \in Slot
  PROVE  /\ Used(w, r) \in Slot
         /\ Used(w, r) = IF w >= r THEN w - r ELSE w - r + Slots
<1>1. /\ Slots \in Int /\ Slots > 0 /\ w - r \in Int
      /\ -Slots <= w - r /\ w - r < Slots /\ w - r < 2*Slots
  BY DEF RingAssumption, Slot
<1>2. (w - r) % Slots = IF w - r < 0 THEN w - r + Slots ELSE w - r
  BY <1>1, ModOnce
<1> QED
  BY <1>1, <1>2 DEF Slot, Used

\* Two moves are one; different moves of less than a turn end in different places;
\* what is between the two ends of a move is the move.
LEMMA Moves ==
  ASSUME RingAssumption, NEW p \in Slot
  PROVE  /\ \A a, b \in 0..Slots : a + b <= Slots => Moved(Moved(p, a), b) = Moved(p, a + b)
         /\ \A a, b \in 0..Slots-1 : Moved(p, a) = Moved(p, b) => a = b
         /\ \A a \in 0..Slots-1 : Used(Moved(p, a), p) = a
<1>1. ASSUME NEW a \in 0..Slots, NEW b \in 0..Slots, a + b <= Slots
      PROVE  Moved(Moved(p, a), b) = Moved(p, a + b)
  <2>1. a + b \in 0..Slots
    BY <1>1 DEF RingAssumption
  <2>2. Moved(p, a) \in Slot
    BY MovedIs
  <2>3. /\ Moved(p, a) = IF p + a < Slots THEN p + a ELSE p + a - Slots
        /\ Moved(p, a + b) = IF p + (a + b) < Slots THEN p + (a + b) ELSE p + (a + b) - Slots
    BY <2>1, MovedIs
  <2>4. Moved(Moved(p, a), b) =
          IF Moved(p, a) + b < Slots THEN Moved(p, a) + b ELSE Moved(p, a) + b - Slots
    BY <2>2, MovedIs
  <2> QED
    BY <2>2, <2>3, <2>4, <1>1 DEF RingAssumption, Slot
<1>2. ASSUME NEW a \in 0..Slots-1
      PROVE  /\ a \in 0..Slots /\ Moved(p, a) \in Slot
             /\ Moved(p, a) = IF p + a < Slots THEN p + a ELSE p + a - Slots
  <2>1. a \in 0..Slots
    BY DEF RingAssumption
  <2> QED
    BY <2>1, MovedIs
<1>3. ASSUME NEW a \in 0..Slots-1, NEW b \in 0..Slots-1, Moved(p, a) = Moved(p, b)
      PROVE  a = b
  BY <1>2, <1>3 DEF RingAssumption, Slot
<1>4. ASSUME NEW a \in 0..Slots-1 PROVE Used(Moved(p, a), p) = a
  <2>1. Used(Moved(p, a), p) =
          IF Moved(p, a) >= p THEN Moved(p, a) - p ELSE Moved(p, a) - p + Slots
    BY <1>2, UsedIs
  <2> QED
    BY <1>2, <2>1 DEF RingAssumption, Slot
<1> QED
  BY <1>1, <1>3, <1>4

\* What is between two positions leads from one to the other.
LEMMA UsedMoved ==
  ASSUME RingAssumption, NEW w \in Slot, NEW r \in Slot
  PROVE  Used(w, r) \in 0..Slots-1 /\ Used(w, r) \in 0..Slots /\ Moved(r, Used(w, r)) = w
<1>1. /\ Used(w, r) \in 0..Slots-1 /\ Used(w, r) \in 0..Slots
      /\ Used(w, r) = IF w >= r THEN w - r ELSE w - r + Slots
  BY UsedIs DEF Slot, RingAssumption
<1>2. Moved(r, Used(w, r)) =
        IF r + Used(w, r) < Slots THEN r + Used(w, r) ELSE r + Used(w, r) - Slots
  BY <1>1, MovedIs
<1> QED
  BY <1>1, <1>2 DEF Slot, RingAssumption

\* Publishing n frames where there is room, and passing n that are there.
LEMMA Published ==
  ASSUME RingAssumption, NEW w \in Slot, NEW r \in Slot, NEW n \in Nat, Used(w, r) + n < Slots
  PROVE  Moved(w, n) = Moved(r, Used(w, r) + n) /\ Used(Moved(w, n), r) = Used(w, r) + n
<1>1. /\ Used(w, r) \in 0..Slots /\ n \in 0..Slots /\ Used(w, r) + n \in 0..Slots-1
      /\ Used(w, r) + n <= Slots /\ Moved(r, Used(w, r)) = w
  BY UsedMoved DEF RingAssumption
<1>2. Moved(Moved(r, Used(w, r)), n) = Moved(r, Used(w, r) + n)
  BY <1>1, Moves
<1>3. Used(Moved(r, Used(w, r) + n), r) = Used(w, r) + n
  BY <1>1, Moves
<1> QED
  BY <1>1, <1>2, <1>3

LEMMA Passed ==
  ASSUME RingAssumption, NEW w \in Slot, NEW r \in Slot, NEW n \in Nat, n <= Used(w, r)
  PROVE  /\ Used(w, Moved(r, n)) = Used(w, r) - n
         /\ \A k \in 0..Slots-1-n : Moved(Moved(r, n), k) = Moved(r, n + k)
<1>1. /\ Used(w, r) \in 0..Slots-1 /\ n \in 0..Slots /\ Slots \in Nat
      /\ Moved(r, Used(w, r)) = w
  BY UsedMoved DEF RingAssumption
<1>2. ASSUME NEW k \in 0..Slots-1-n PROVE Moved(Moved(r, n), k) = Moved(r, n + k)
  <2>1. k \in 0..Slots /\ n + k <= Slots
    BY <1>1
  <2> QED
    BY <1>1, <2>1, Moves
<1>3. Used(w, r) - n \in 0..Slots-1-n /\ Used(w, r) - n \in 0..Slots-1 /\ Moved(r, n) \in Slot
      /\ n + (Used(w, r) - n) = Used(w, r)
  <2>1. Moved(r, n) \in Slot
    BY <1>1, MovedIs
  <2> QED
    BY <1>1, <2>1
<1>4. Moved(Moved(r, n), Used(w, r) - n) = w
  BY <1>1, <1>2, <1>3
<1>5. Used(Moved(Moved(r, n), Used(w, r) - n), Moved(r, n)) = Used(w, r) - n
  BY <1>3, Moves
<1> QED
  BY <1>2, <1>4, <1>5

-----------------------------------------------------------------------------
(* Only an underrun or the resumption upsets the ring.                     *)

\* A step that moves no position.
LEMMA StillCalm ==
  ASSUME RingAssumption, Types, Calm,
         LoadWritePos \/ LoadReadPos \/ CopyFrame \/ LoadPositions \/ Plan \/ PlayFrame
         \/ Resume \/ AudioStarts \/ UNCHANGED vars
  PROVE  Calm'
<1> USE DEF Types, Calm, WriterFits, ReaderFits, readerVars, writerVars, mainVars
<1>1. CASE LoadWritePos
  BY <1>1 DEF LoadWritePos
<1>2. CASE LoadReadPos
  <2> DEFINE free == Free(writer.wp, rPos)
  <2>1. writer.wp = wPos /\ Used(wPos, rPos) \in 0..Slots-1
    BY <1>2, UsedMoved DEF LoadReadPos
  <2>2. free \in Nat /\ Used(wPos, rPos) + free = Slots - 1
    BY <2>1 DEF Free, RingAssumption
  <2>3. /\ writer' = [writer EXCEPT !.at = "copy", !.left = IF @ <= free THEN @ ELSE free]
        /\ UNCHANGED <<wPos, rPos, reader>>
    BY <1>2 DEF LoadReadPos
  <2> HIDE DEF free
  <2>4. writer'.left <= free /\ writer'.left \in Nat /\ writer'.wp = writer.wp
    BY <2>2, <2>3
  <2>5. Used(wPos, rPos) + writer'.left < Slots
    BY <2>1, <2>2, <2>4 DEF RingAssumption
  <2> QED
    BY <2>1, <2>3, <2>4, <2>5
<1>3. CASE CopyFrame
  BY <1>3 DEF CopyFrame
<1>4. CASE LoadPositions
  <2>1. Used(wPos, rPos) \in Int /\ reader'.wp = wPos /\ reader'.at = "loaded"
        /\ UNCHANGED <<wPos, rPos, writer>>
    BY <1>4, UsedMoved DEF LoadPositions
  <2> QED
    BY <2>1
<1>5. CASE Plan
  BY <1>5 DEF Plan
<1>6. CASE PlayFrame
  BY <1>6 DEF PlayFrame
<1>7. CASE Resume \/ AudioStarts \/ UNCHANGED vars
  BY <1>7 DEF Resume, AudioStarts, vars
<1> QED
  BY <1>1, <1>2, <1>3, <1>4, <1>5, <1>6, <1>7

\* What the worker publishes makes more frames, none of them where it had no room.
LEMMA StoreCalm ==
  ASSUME RingAssumption, Types, Calm, Batch, StoreWritePos
  PROVE  Calm' /\ Unread' = Unread + writer.left /\ wPos' = Moved(rPos, Unread + writer.left)
<1>1. /\ writer.at = "copy" /\ wPos' = Moved(wPos, writer.left) /\ writer.left \in Nat
      /\ Used(wPos, rPos) + writer.left < Slots /\ wPos \in Slot /\ rPos \in Slot
      /\ writer'.at = "idle" /\ UNCHANGED <<rPos, reader>>
  BY DEF StoreWritePos, Copied, Calm, WriterFits, Types, readerVars
<1>2. /\ wPos' = Moved(rPos, Used(wPos, rPos) + writer.left)
      /\ Used(wPos', rPos) = Used(wPos, rPos) + writer.left
  BY <1>1, Published
<1>3. reader.at # "idle" => Used(reader.wp, rPos) <= Used(wPos, rPos) + writer.left
  <2>1. Used(reader.wp, rPos) \in Int /\ Used(wPos, rPos) \in Int
    BY UsedMoved DEF Types
  <2> QED
    BY <1>1, <2>1 DEF Calm, ReaderFits
<1> QED
  BY <1>1, <1>2, <1>3 DEF Calm, WriterFits, ReaderFits, Unread

\* What the worklet passes makes more room.
LEMMA AdvanceCalm ==
  ASSUME RingAssumption, Types, Calm, Advance
  PROVE  /\ Calm' /\ reader.take \in Nat /\ reader.take <= Unread
         /\ Unread' = Unread - reader.take /\ rPos' = Moved(rPos, reader.take)
<1>1. /\ reader.at = "play" /\ reader.rp = rPos /\ rPos' = Moved(rPos, reader.take)
      /\ reader.take \in Nat /\ reader.take <= Used(wPos, rPos) /\ wPos \in Slot /\ rPos \in Slot
      /\ reader'.at = "idle" /\ UNCHANGED <<wPos, writer>>
  BY DEF Advance, StoreReadPos, Consumed, Calm, ReaderFits, Types, writerVars
<1>2. Used(wPos, rPos') = Used(wPos, rPos) - reader.take
  BY <1>1, Passed
<1>3. writer.at = "copy" => Used(wPos, rPos) - reader.take + writer.left < Slots
  <2>1. Used(wPos, rPos) \in Int /\ writer.left \in Int /\ Slots \in Int
    BY UsedMoved DEF Types, RingAssumption
  <2> QED
    BY <1>1, <2>1 DEF Calm, WriterFits
<1> QED
  BY <1>1, <1>2, <1>3 DEF Calm, WriterFits, ReaderFits, Unread

\* Every step but those keeps the ring calm.
LEMMA NextCalm ==
  RingAssumption /\ Types /\ Batch /\ [Next]_vars
    => (Calm /\ ~Calm' => Underrun \/ ResetWritePos \/ ResetReadPos)
BY StillCalm, StoreCalm, AdvanceCalm DEF Next

-----------------------------------------------------------------------------
(* The invariant.                                                          *)

\* The ring is empty and nobody is at work.
LEMMA InitIInv == RingAssumption /\ Init => IInv
<1> SUFFICES ASSUME RingAssumption, Init PROVE IInv
  OBVIOUS
<1>1. 0 \in Slot /\ Used(0, 0) = 0
  <2>1. 0 \in Slot
    BY DEF RingAssumption, Slot
  <2>2. Used(0, 0) = IF 0 >= 0 THEN 0 - 0 ELSE 0 - 0 + Slots
    BY <2>1, UsedIs
  <2> QED
    BY <2>1, <2>2
<1>2. Types
  BY <1>1 DEF Init, Types, NoFrame
<1>3. Unread = 0
  BY <1>1 DEF Init, Unread
<1>4. Batch /\ Positions /\ Content /\ Since
  BY <1>3 DEF Init, Batch, Positions, Content, Since, Calm, WriterFits, ReaderFits
<1> QED
  BY <1>2, <1>4 DEF IInv

\* Where the frames accepted so far do not count, everything is in its place.
LEMMA NothingCounts ==
  RingAssumption /\ Types /\ Batch /\ Positions /\ since = accepted => IInv
<1> SUFFICES ASSUME RingAssumption, Types, Batch, Positions, since = accepted PROVE IInv
  OBVIOUS
<1>1. Unread \in Nat /\ accepted \in Nat /\ popped = accepted - Unread
  BY UsedMoved DEF Types, Positions, Unread, RingAssumption
<1>2. ASSUME NEW k \in 1..Unread PROVE ~(popped + k > since)
  BY <1>1, <1>2
<1>3. Content
  BY <1>2 DEF Content
<1> QED
  BY <1>1, <1>3 DEF IInv, Since

LEMMA UpsetIInv ==
  ASSUME RingAssumption, Types', Batch', Upset
  PROVE  IInv'
<1>1. since' = accepted' /\ Positions'
  BY DEF Upset, Positions, Unread
<1>2. (RingAssumption /\ Types /\ Batch /\ Positions /\ since = accepted => IInv)'
  BY NothingCounts, PTL
<1>3. RingAssumption'
  BY DEF RingAssumption
<1> QED
  BY <1>1, <1>2, <1>3

\* The types, whatever is counted, if the counts have theirs.
LEMMA CountsTyped ==
  ASSUME RingAssumption, Types, wPos' \in Slot, rPos' \in Slot, accepted' \in Nat,
         NEW n \in Nat, Pass(n) \/ Upset
  PROVE  popped' \in Int /\ since' \in Nat
<1>1. Used(wPos', rPos') \in Int
  BY UsedMoved
<1> QED
  BY <1>1 DEF Types, Pass, Upset

\* A step that moves no position keeps what is between them.
LEMMA PlaceIInv ==
  ASSUME RingAssumption, IInv, Types', Batch', Calm', Pass(0), Calm,
         UNCHANGED <<wPos, rPos, accepted, ring>>
  PROVE  IInv'
<1>1. since' = since /\ popped' = popped /\ Unread' = Unread
  BY DEF Pass, IInv, Types, Unread
<1> QED
  BY <1>1 DEF IInv, Positions, Content, Since

\* The worker copies the frame behind the others of its batch, and behind those that
\* are unread.
LEMMA CopyIInv ==
  ASSUME RingAssumption, IInv, CopyFrame
  PROVE  IInv'
<1> DEFINE n == writer.next + 1
<1> DEFINE place == Moved(writer.wp, writer.next)
<1>1. /\ ring' = [ring EXCEPT ![place] = accepted + writer.next + 1] /\ writer.at = "copy"
      /\ writer' = [writer EXCEPT !.next = @ + 1] /\ writer.next < writer.left
      /\ UNCHANGED <<wPos, rPos, reader, accepted>> /\ Pass(0)
  BY DEF CopyFrame, readerVars
<1>2. /\ writer.next \in Nat /\ writer.left \in Nat /\ accepted \in Nat /\ writer.wp \in Slot
      /\ ring \in [Slot -> Int] /\ writer.left < Slots /\ wPos \in Slot /\ rPos \in Slot
      /\ Slots \in Nat
  BY <1>1 DEF IInv, Types, Batch, RingAssumption
<1>3. writer.next \in 0..Slots-1 /\ writer.next \in 0..Slots /\ place \in Slot
  <2>1. writer.next \in 0..Slots-1 /\ writer.next \in 0..Slots
    BY <1>1, <1>2
  <2> QED
    BY <1>2, <2>1, MovedIs
<1>4. Types'
  <2>1. popped' \in Int /\ since' \in Nat
    BY <1>1, <1>2, CountsTyped DEF IInv
  <2>2. accepted + writer.next + 1 \in Int /\ writer.next + 1 \in Nat
    BY <1>2
  <2>3. ring' \in [Slot -> Int]
    BY <1>1, <1>2, <2>2
  <2>4. writer' \in [at : {"idle", "loaded", "copy"}, wp : Slot, left : Nat, next : Nat]
    BY <1>1, <2>2 DEF IInv, Types
  <2> QED
    BY <1>1, <2>1, <2>3, <2>4 DEF IInv, Types
<1>5. Batch'
  <2>1. ASSUME NEW i \in 1..n PROVE ring'[Moved(writer.wp, i - 1)] = accepted + i
    <3>1. i - 1 \in 0..Slots-1 /\ i - 1 \in 0..Slots /\ Moved(writer.wp, i - 1) \in Slot
      <4>1. i - 1 \in 0..Slots-1 /\ i - 1 \in 0..Slots
        BY <1>1, <1>2, <2>1
      <4> QED
        BY <1>2, <4>1, MovedIs
    <3>2. CASE i = n
      <4>1. i - 1 = writer.next /\ accepted + i = accepted + writer.next + 1
        BY <1>2, <3>2
      <4> HIDE DEF n
      <4>2. Moved(writer.wp, i - 1) = place
        BY <4>1
      <4> HIDE DEF place
      <4> QED
        BY <1>1, <1>2, <1>3, <4>1, <4>2
    <3>3. CASE i # n
      <4>1. i \in 1..writer.next /\ i - 1 # writer.next
        BY <1>2, <2>1, <3>3
      <4>2. Moved(writer.wp, i - 1) # place
        BY <1>2, <1>3, <3>1, <4>1, Moves
      <4>3. ring[Moved(writer.wp, i - 1)] = accepted + i
        BY <1>1, <4>1 DEF IInv, Batch
      <4> HIDE DEF place
      <4> QED
        BY <1>1, <1>2, <1>3, <3>1, <4>2, <4>3
    <3> QED
      BY <3>2, <3>3
  <2>2. writer'.next = n /\ writer'.wp = writer.wp /\ writer'.left = writer.left
        /\ writer'.at = "copy" /\ accepted' = accepted
    BY <1>1, <1>2 DEF IInv, Types
  <2>3. n <= writer.left /\ writer.left < Slots
    BY <1>1, <1>2
  <2> HIDE DEF n
  <2> QED
    BY <2>1, <2>2, <2>3 DEF Batch
<1>6. ASSUME ~Calm PROVE IInv'
  BY <1>1, <1>4, <1>5, <1>6, UpsetIInv DEF Pass
<1>7. ASSUME Calm PROVE IInv'
  <2>1. Calm'
    BY <1>7, StillCalm DEF IInv
  <2>2. writer.wp = wPos /\ Unread + writer.left < Slots /\ Unread \in 0..Slots-1
        /\ Unread \in 0..Slots /\ Moved(rPos, Unread) = wPos
    BY <1>1, <1>2, <1>7, UsedMoved DEF Calm, WriterFits, Unread
  <2>3. Unread + writer.next \in 0..Slots-1 /\ Unread + writer.next <= Slots
    BY <1>1, <1>2, <2>2
  <2>4. place = Moved(rPos, Unread + writer.next)
    BY <1>2, <1>3, <2>2, <2>3, Moves
  <2> HIDE DEF place
  <2>5. since' = since /\ popped' = popped /\ Unread' = Unread
    BY <1>1, <1>7 DEF Pass, IInv, Types, Unread
  <2>6. ASSUME NEW k \in 1..Unread, popped + k > since
        PROVE  ring'[Moved(rPos, k - 1)] = popped + k
    <3>1. k - 1 \in 0..Slots-1 /\ k - 1 \in 0..Slots /\ k - 1 # Unread + writer.next
      BY <1>2, <2>2, <2>6
    <3>2. Moved(rPos, k - 1) # place /\ Moved(rPos, k - 1) \in Slot
      BY <1>2, <2>3, <2>4, <3>1, Moves, MovedIs
    <3>3. ring[Moved(rPos, k - 1)] = popped + k
      BY <2>6 DEF IInv, Content
    <3> QED
      BY <1>1, <1>2, <3>2, <3>3
  <2>7. Content'
    BY <1>1, <2>5, <2>6 DEF Content
  <2> QED
    BY <1>1, <1>4, <1>5, <2>1, <2>5, <2>7 DEF IInv, Positions, Since
<1> QED
  BY <1>6, <1>7

\* The worker publishes its batch.
LEMMA StoreIInv ==
  ASSUME RingAssumption, IInv, StoreWritePos
  PROVE  IInv'
<1>1. /\ writer.at = "copy" /\ writer.next = writer.left /\ wPos' = Moved(writer.wp, writer.left)
      /\ accepted' = accepted + writer.left /\ writer' = [writer EXCEPT !.at = "idle"]
      /\ UNCHANGED <<ring, rPos, reader>> /\ Pass(0)
  BY DEF StoreWritePos, Copied, readerVars
<1>2. /\ writer.left \in Nat /\ writer.left < Slots /\ accepted \in Nat /\ writer.wp \in Slot
      /\ wPos \in Slot /\ rPos \in Slot /\ Slots \in Nat
  BY <1>1 DEF IInv, Types, Batch, RingAssumption
<1>3. wPos' \in Slot /\ accepted' \in Nat
  <2>1. writer.left \in 0..Slots
    BY <1>2
  <2> QED
    BY <1>1, <1>2, <2>1, MovedIs
<1>4. Types'
  <2>1. popped' \in Int /\ since' \in Nat
    BY <1>1, <1>2, <1>3, CountsTyped DEF IInv
  <2> QED
    BY <1>1, <1>3, <2>1 DEF IInv, Types
<1>5. Batch'
  BY <1>1 DEF Batch, IInv, Types
<1>6. ASSUME ~Calm PROVE IInv'
  BY <1>1, <1>4, <1>5, <1>6, UpsetIInv DEF Pass
<1>7. ASSUME Calm PROVE IInv'
  <2>1. Calm' /\ Unread' = Unread + writer.left
    BY <1>7, StoreCalm DEF IInv
  <2>2. /\ writer.wp = wPos /\ Unread + writer.left < Slots /\ Unread \in 0..Slots-1
        /\ Unread \in 0..Slots /\ Moved(rPos, Unread) = wPos
    BY <1>1, <1>2, <1>7, UsedMoved DEF Calm, WriterFits, Unread
  <2>3. since' = since /\ popped' = popped /\ popped = accepted - Unread
    BY <1>1, <1>7 DEF Pass, IInv, Types, Positions
  <2>4. ASSUME NEW k \in 1..Unread + writer.left, popped + k > since
        PROVE  ring[Moved(rPos, k - 1)] = popped + k
    <3>1. CASE k <= Unread
      <4>1. k \in 1..Unread
        BY <2>2, <2>4, <3>1
      <4> QED
        BY <2>4, <4>1 DEF IInv, Content
    <3>2. CASE k > Unread
      <4> DEFINE i == k - Unread
      <4>1. /\ i \in 1..writer.next /\ i - 1 \in 0..Slots /\ Unread + (i - 1) = k - 1
            /\ Unread + (i - 1) <= Slots /\ accepted + i = popped + k
        BY <1>1, <1>2, <2>2, <2>3, <2>4, <3>2 DEF IInv, Types
      <4> HIDE DEF i
      <4>2. Moved(writer.wp, i - 1) = Moved(rPos, k - 1)
        BY <1>2, <2>2, <4>1, Moves
      <4>3. ring[Moved(writer.wp, i - 1)] = accepted + i
        BY <1>1, <4>1 DEF IInv, Batch
      <4> QED
        BY <4>1, <4>2, <4>3
    <3> QED
      BY <2>2, <2>4, <3>1, <3>2
  <2>5. Content'
    BY <1>1, <2>1, <2>3, <2>4 DEF Content
  <2>6. Positions' /\ since' <= accepted'
    BY <1>1, <1>2, <2>1, <2>2, <2>3 DEF Positions, IInv, Since, Types
  <2> QED
    BY <1>4, <1>5, <2>1, <2>5, <2>6 DEF IInv, Since
<1> QED
  BY <1>6, <1>7

\* The worklet moves past frames that are there.
LEMMA AdvanceIInv ==
  ASSUME RingAssumption, IInv, Advance
  PROVE  IInv'
<1> DEFINE take == reader.take
<1>1. /\ rPos' = Moved(reader.rp, take) /\ reader' = [reader EXCEPT !.at = "idle"]
      /\ UNCHANGED <<wPos, writer, accepted, ring>> /\ Pass(take)
  BY DEF Advance, StoreReadPos, Consumed, writerVars
<1>2. take \in Nat /\ wPos \in Slot /\ reader.rp \in Slot /\ Slots \in Nat /\ rPos \in Slot
  BY DEF IInv, Types, RingAssumption
<1>3. rPos' \in Slot
  <2>1. Slots \in Nat \ {0} /\ reader.rp + take \in Int
    BY <1>2 DEF RingAssumption, Slot
  <2>2. (reader.rp + take) % Slots \in 0..Slots-1
    BY <2>1
  <2> QED
    BY <1>1, <2>2 DEF Moved, Slot
<1>4. Types' /\ Batch'
  <2>1. popped' \in Int /\ since' \in Nat
    BY <1>1, <1>2, <1>3, CountsTyped DEF IInv, Types
  <2> QED
    BY <1>1, <1>3, <2>1 DEF IInv, Types, Batch
<1>6. ASSUME ~Calm PROVE IInv'
  BY <1>1, <1>4, <1>6, UpsetIInv DEF Pass
<1>7. ASSUME Calm PROVE IInv'
  <2>1. Calm' /\ take <= Unread /\ Unread' = Unread - take /\ rPos' = Moved(rPos, take)
    BY <1>7, AdvanceCalm DEF IInv
  <2>2. /\ Unread \in 0..Slots-1
        /\ \A k \in 0..Slots-1-take : Moved(Moved(rPos, take), k) = Moved(rPos, take + k)
    BY <1>2, <2>1, UsedMoved, Passed DEF Unread
  <2>3. since' = since /\ popped' = popped + take /\ popped = accepted - Unread /\ popped \in Int
    BY <1>1, <1>7 DEF Pass, IInv, Types, Positions
  <2> HIDE DEF take
  <2>4. ASSUME NEW k \in 1..Unread - take, popped + take + k > since
        PROVE  ring[Moved(rPos', k - 1)] = popped + take + k
    <3> DEFINE m == take + k
    <3>1. /\ m \in 1..Unread /\ popped + m = popped + take + k /\ popped + m > since
          /\ k - 1 \in 0..Slots-1-take /\ take + (k - 1) = m - 1
      BY <1>2, <2>2, <2>3, <2>4
    <3> HIDE DEF m
    <3>2. ring[Moved(rPos, m - 1)] = popped + m
      BY <3>1 DEF IInv, Content
    <3> QED
      BY <2>1, <2>2, <3>1, <3>2
  <2>5. Content'
    BY <1>1, <2>1, <2>3, <2>4 DEF Content
  <2>6. Positions' /\ since' <= accepted'
    BY <1>1, <1>2, <2>1, <2>2, <2>3 DEF Positions, IInv, Since, Types
  <2> QED
    BY <1>4, <2>1, <2>5, <2>6 DEF IInv, Since
<1> QED
  BY <1>6, <1>7

\* Every step of the three threads keeps the invariant.
LEMMA NextIInv == RingAssumption /\ IInv /\ [Next]_vars => IInv'
<1> SUFFICES ASSUME RingAssumption, IInv, [Next]_vars PROVE IInv'
  OBVIOUS
<1> DEFINE Still == LoadWritePos \/ LoadReadPos \/ LoadPositions \/ Plan \/ PlayFrame
                    \/ Resume \/ AudioStarts
<1>1. CASE Still
  <2>1. UNCHANGED <<wPos, rPos, accepted, ring>> /\ Pass(0)
    BY <1>1 DEF LoadWritePos, LoadReadPos, LoadPositions, Plan, PlayFrame, Resume, AudioStarts,
                writerVars, readerVars
  <2>2. popped' \in Int /\ since' \in Nat
    BY <2>1, CountsTyped DEF IInv, Types
  <2>3. writer' \in [at : {"idle", "loaded", "copy"}, wp : Slot, left : Nat, next : Nat]
        /\ Batch'
    <3>1. CASE LoadWritePos
      <4>1. PICK n \in Batches : writer' = [at |-> "loaded", wp |-> wPos, left |-> n, next |-> 0]
        BY <3>1 DEF LoadWritePos
      <4>2. n \in Nat /\ wPos \in Slot
        BY DEF RingAssumption, IInv, Types
      <4> QED
        BY <4>1, <4>2 DEF Batch
    <3>2. CASE LoadReadPos
      <4> DEFINE free == Free(writer.wp, rPos)
      <4>1. /\ writer' = [writer EXCEPT !.at = "copy", !.left = IF @ <= free THEN @ ELSE free]
            /\ writer.at = "loaded"
        BY <3>2 DEF LoadReadPos
      <4>2. free \in Nat /\ free < Slots
        <5>1. Used(writer.wp, rPos) \in 0..Slots-1
          BY UsedMoved DEF IInv, Types
        <5> QED
          BY <5>1 DEF Free, RingAssumption
      <4> HIDE DEF free
      <4>3. /\ writer \in [at : {"idle", "loaded", "copy"}, wp : Slot, left : Nat, next : Nat]
            /\ writer.next = 0 /\ Slots \in Nat
        BY <4>1 DEF IInv, Types, Batch, RingAssumption
      <4> DEFINE cut == IF writer.left <= free THEN writer.left ELSE free
      <4>5. cut \in Nat /\ cut < Slots
        BY <4>2, <4>3
      <4>6. writer' = [writer EXCEPT !.at = "copy", !.left = cut]
        BY <4>1
      <4> HIDE DEF cut
      <4>4. /\ writer'.at = "copy" /\ writer'.next = 0 /\ writer'.left \in Nat
            /\ writer'.left < Slots
            /\ writer' \in [at : {"idle", "loaded", "copy"}, wp : Slot, left : Nat, next : Nat]
        BY <4>3, <4>5, <4>6
      <4> QED
        BY <4>4 DEF Batch
    <3>3. CASE UNCHANGED writer
      BY <2>1, <3>3 DEF IInv, Types, Batch
    <3> QED
      BY <1>1, <3>1, <3>2, <3>3 DEF LoadPositions, Plan, PlayFrame, Resume, AudioStarts, writerVars
  <2>4. reader' \in [at : {"idle", "loaded", "play"}, wp : Slot, rp : Slot, take : Nat,
                     last : Int, next : Nat]
    <3>1. CASE LoadPositions
      BY <3>1 DEF LoadPositions, IInv, Types
    <3>2. CASE Plan
      <4>1. PICK take \in Quanta : \E last \in {take - 1, take} :
              reader' = [reader EXCEPT !.at = "play", !.rp = rPos, !.take = take,
                                       !.last = last, !.next = 0]
        BY <3>2 DEF Plan
      <4>2. PICK last \in {take - 1, take} :
              reader' = [reader EXCEPT !.at = "play", !.rp = rPos, !.take = take,
                                       !.last = last, !.next = 0]
        BY <4>1
      <4>3. take \in Nat /\ last \in Int
        BY DEF RingAssumption
      <4> QED
        BY <4>2, <4>3 DEF IInv, Types
    <3>3. CASE PlayFrame
      BY <3>3 DEF PlayFrame, IInv, Types
    <3>4. CASE UNCHANGED reader
      BY <3>4 DEF IInv, Types
    <3> QED
      BY <1>1, <3>1, <3>2, <3>3, <3>4 DEF LoadWritePos, LoadReadPos, Resume, AudioStarts, readerVars
  <2>5. Types'
    BY <2>1, <2>2, <2>3, <2>4 DEF IInv, Types
  <2>6. CASE Calm
    BY <1>1, <2>1, <2>3, <2>5, <2>6, StillCalm, PlaceIInv DEF IInv
  <2>7. CASE ~Calm
    BY <2>1, <2>3, <2>5, <2>7, UpsetIInv DEF Pass
  <2> QED
    BY <2>6, <2>7
<1>2. CASE Underrun \/ ResetWritePos \/ ResetReadPos
  <2>1. /\ UNCHANGED <<ring, writer, accepted>> /\ Upset
        /\ wPos' \in {wPos, 0} /\ rPos' \in {rPos, Moved(reader.rp, reader.take), 0}
        /\ reader' \in {reader, [reader EXCEPT !.at = "idle"]}
    BY <1>2 DEF Underrun, StoreReadPos, Consumed, ResetWritePos, ResetReadPos, writerVars, readerVars
  <2>2. 0 \in Slot /\ Moved(reader.rp, reader.take) \in Slot
    <3>1. Slots \in Nat \ {0} /\ reader.rp + reader.take \in Int
      BY DEF RingAssumption, Slot, IInv, Types
    <3>2. (reader.rp + reader.take) % Slots \in 0..Slots-1
      BY <3>1
    <3> QED
      BY <3>1, <3>2 DEF Moved, Slot
  <2>3. wPos' \in Slot /\ rPos' \in Slot
    BY <2>1, <2>2 DEF IInv, Types
  <2>4. popped' \in Int /\ since' \in Nat
    <3>1. accepted' \in Nat /\ 0 \in Nat
      BY <2>1 DEF IInv, Types
    <3> QED
      BY <2>1, <2>3, <3>1, CountsTyped DEF IInv
  <2>5. Types' /\ Batch'
    BY <2>1, <2>3, <2>4 DEF IInv, Types, Batch
  <2> QED
    BY <2>1, <2>5, UpsetIInv
<1>3. CASE UNCHANGED vars
  BY <1>3 DEF vars, IInv, Types, Batch, Positions, Content, Since, Unread, Calm, WriterFits, ReaderFits
<1> QED
  BY <1>1, <1>2, <1>3, CopyIInv, StoreIInv, AdvanceIInv DEF Next

\* The invariant holds of every behaviour of the three threads.
THEOREM Invariant == RingAssumption /\ Spec => []IInv
<1>1. RingAssumption /\ Init => IInv
  BY InitIInv
<1>2. RingAssumption /\ IInv /\ [Next]_vars => IInv'
  BY NextIInv
<1>3. RingAssumption => []RingAssumption
  OBVIOUS
<1> QED
  BY <1>1, <1>2, <1>3, PTL DEF Spec

\* Only an underrun and the resumption upset the ring
\* (audio-worklet-processor.js:119-124, index-phase-b.html:194-195).
THEOREM CalmUntilUpsetHolds == RingAssumption /\ Spec => CalmUntilUpset
<1>1. RingAssumption /\ IInv /\ [Next]_vars
        => [Calm /\ ~Calm' => Underrun \/ ResetWritePos \/ ResetReadPos]_vars
  BY NextCalm DEF IInv
<1>2. RingAssumption => []RingAssumption
  OBVIOUS
<1> QED
  BY Invariant, <1>1, <1>2, PTL DEF Spec, CalmUntilUpset

\* The worklet hears the frames accepted since then, each in its turn
\* (emulator-worker.js:42-74, audio-worklet-processor.js:66-124).
THEOREM HearsInOrderHolds == RingAssumption /\ Spec => []HearsInOrder
<1>1. RingAssumption /\ IInv => HearsInOrder
  <2> SUFFICES ASSUME RingAssumption, IInv, Reading, Calm, popped + reader.next + 1 > since
               PROVE  ring[Moved(reader.rp, reader.next)] = popped + reader.next + 1
    BY DEF HearsInOrder
  <2>1. /\ reader.rp = rPos /\ reader.next < Used(reader.wp, rPos)
        /\ Used(reader.wp, rPos) <= Unread /\ reader.next \in Nat /\ popped \in Int
    BY DEF Reading, Available, Calm, ReaderFits, Unread, IInv, Types
  <2>2. Used(reader.wp, rPos) \in Int /\ Unread \in Int
    BY UsedMoved DEF Unread, IInv, Types
  <2> DEFINE k == reader.next + 1
  <2>3. k \in 1..Unread /\ k - 1 = reader.next /\ popped + k = popped + reader.next + 1
    BY <2>1, <2>2
  <2> HIDE DEF k
  <2>4. ring[Moved(rPos, k - 1)] = popped + k
    BY <2>3 DEF IInv, Content
  <2> QED
    BY <2>1, <2>3, <2>4
<1>2. RingAssumption => []RingAssumption
  OBVIOUS
<1> QED
  BY Invariant, <1>1, <1>2, PTL

-----------------------------------------------------------------------------
(* The ring is a queue.                                                    *)

\* The frames from p + 1 on.
Frames(p, n) == [i \in 1..n |-> p + i]

\* Appending the next frames, and removing the first ones.
LEMMA FramesGrow ==
  ASSUME NEW p \in Int, NEW n \in Nat, NEW m \in Nat
  PROVE  Frames(p, n + m) = Frames(p, n) \o [i \in 1..m |-> p + n + i]
<1> DEFINE s == Frames(p, n)
<1> DEFINE t == [i \in 1..m |-> p + n + i]
<1>1. s \in Seq(Int) /\ t \in Seq(Int) /\ Len(s) = n /\ Len(t) = m
  BY DEF Frames
<1>2. s \o t \in Seq(Int) /\ Len(s \o t) = n + m
  BY <1>1
<1>3. Frames(p, n + m) \in Seq(Int) /\ Len(Frames(p, n + m)) = n + m
  BY DEF Frames
<1>4. ASSUME NEW i \in 1..n + m PROVE (s \o t)[i] = Frames(p, n + m)[i]
  <2>1. CASE i <= n
    BY <1>1, <2>1 DEF Frames
  <2>2. CASE i > n
    BY <1>1, <2>2 DEF Frames
  <2>3. i <= n \/ i > n
    BY <1>4
  <2> QED
    BY <2>1, <2>2, <2>3
<1> HIDE DEF s, t
<1>5. s \o t = Frames(p, n + m)
  BY <1>2, <1>3, <1>4, SeqEqual
<1> QED
  BY <1>5 DEF s, t

LEMMA FramesLen == ASSUME NEW p \in Int, NEW n \in Nat PROVE Len(Frames(p, n)) = n
BY DEF Frames

LEMMA FramesShrink ==
  ASSUME NEW p \in Int, NEW n \in Nat, NEW k \in 0..n
  PROVE  SubSeq(Frames(p, n), k + 1, n) = Frames(p + k, n - k)
<1> DEFINE s == Frames(p, n)
<1>1. s \in Seq(Int) /\ Len(s) = n
  BY DEF Frames
<1>2. SubSeq(s, k + 1, n) \in Seq(Int) /\ Len(SubSeq(s, k + 1, n)) = n - k
  BY <1>1
<1>3. Frames(p + k, n - k) \in Seq(Int) /\ Len(Frames(p + k, n - k)) = n - k
  BY DEF Frames
<1>4. ASSUME NEW i \in 1..n - k PROVE SubSeq(s, k + 1, n)[i] = Frames(p + k, n - k)[i]
  BY <1>1 DEF Frames
<1> HIDE DEF s
<1>5. SubSeq(s, k + 1, n) = Frames(p + k, n - k)
  BY <1>2, <1>3, <1>4, SeqEqual
<1> QED
  BY <1>5 DEF s

LEMMA FramesNone == ASSUME NEW p \in Int PROVE Frames(p, 0) = <<>>
<1>1. Frames(p, 0) \in Seq(Int) /\ Len(Frames(p, 0)) = 0
  BY DEF Frames
<1> QED
  BY <1>1

\* Of a frames accepted, those after the first s that are among the latest u.
Latest(a, s, u) == IF a - s < u THEN a - s ELSE u
LatestFrames(a, s, u) == Frames(a - Latest(a, s, u), Latest(a, s, u))

LEMMA LatestIs ==
  ASSUME NEW a \in Nat, NEW s \in Nat, s <= a, NEW u \in Nat
  PROVE  /\ Latest(a, s, u) \in Nat /\ Latest(a, s, u) <= u /\ a - Latest(a, s, u) >= s
         /\ Len(LatestFrames(a, s, u)) = Latest(a, s, u)
<1>1. /\ Latest(a, s, u) \in Nat /\ Latest(a, s, u) <= u /\ a - Latest(a, s, u) >= s
      /\ a - Latest(a, s, u) \in Int
  BY DEF Latest
<1> QED
  BY <1>1, FramesLen DEF LatestFrames

\* m more frames are accepted.
LEMMA LatestGrow ==
  ASSUME NEW a \in Nat, NEW s \in Nat, s <= a, NEW u \in Nat, NEW m \in Nat
  PROVE  LatestFrames(a + m, s, u + m) = LatestFrames(a, s, u) \o Frames(a, m)
<1> DEFINE n == Latest(a, s, u)
<1>1. n \in Nat
  BY LatestIs
<1>2. Latest(a + m, s, u + m) = n + m
  BY DEF Latest
<1>3. LatestFrames(a, s, u) = Frames(a - n, n)
  BY DEF LatestFrames
<1> HIDE DEF n
<1>4. LatestFrames(a + m, s, u + m) = Frames((a + m) - (n + m), n + m)
  BY <1>2 DEF LatestFrames
<1>5. a - n \in Int /\ (a + m) - (n + m) = a - n /\ a - n + n = a
  BY <1>1
<1>6. Frames(a - n, n + m) = Frames(a - n, n) \o [i \in 1..m |-> a - n + n + i]
  BY <1>1, <1>5, FramesGrow
<1> QED
  BY <1>3, <1>4, <1>5, <1>6 DEF Frames

\* The first take of the u are passed.
LEMMA LatestShrink ==
  ASSUME NEW a \in Nat, NEW s \in Nat, s <= a, NEW u \in Nat, NEW take \in 0..u
  PROVE  \E k \in 0..Latest(a, s, u) :
           LatestFrames(a, s, u - take) = SubSeq(LatestFrames(a, s, u), k + 1, Latest(a, s, u))
<1> DEFINE n == Latest(a, s, u)
<1> DEFINE m == Latest(a, s, u - take)
<1> DEFINE k == n - m
<1>1. n \in Nat /\ a - n \in Int /\ k \in 0..n /\ n - k = m /\ a - n + k = a - m
  BY DEF Latest
<1> HIDE DEF n, m, k
<1>2. SubSeq(Frames(a - n, n), k + 1, n) = Frames(a - n + k, n - k)
  BY <1>1, FramesShrink
<1> QED
  BY <1>1, <1>2 DEF LatestFrames, n, m

LEMMA LatestNone ==
  ASSUME NEW a \in Nat, NEW u \in Nat
  PROVE  LatestFrames(a, a, u) = <<>>
<1>1. Latest(a, a, u) = 0 /\ a - 0 \in Int
  BY DEF Latest
<1> QED
  BY <1>1, FramesNone DEF LatestFrames

\* The queue is the latest frames accepted.
LEMMA FreshIs == RingAssumption /\ IInv => FreshFrames = LatestFrames(accepted, since, Unread)
<1> SUFFICES ASSUME RingAssumption, IInv
             PROVE  FreshFrames = LatestFrames(accepted, since, Unread)
  OBVIOUS
<1>1. /\ Unread \in Nat /\ accepted \in Nat /\ since \in Nat /\ since <= accepted
      /\ popped = accepted - Unread
  BY UsedMoved DEF IInv, Types, Positions, Since, Unread, RingAssumption
<1>2. Fresh = Latest(accepted, since, Unread)
  BY DEF Fresh, Latest, Unread
<1>3. Fresh \in Nat /\ Fresh <= Unread /\ accepted - Fresh >= since
  BY <1>1, <1>2, LatestIs
<1>4. ASSUME NEW i \in 1..Fresh
      PROVE  ring[Moved(rPos, Unread - Fresh + i - 1)] = accepted - Fresh + i
  <2> DEFINE k == Unread - Fresh + i
  <2>1. k \in 1..Unread /\ popped + k = accepted - Fresh + i /\ popped + k > since
        /\ Unread - Fresh + i - 1 = k - 1
    BY <1>1, <1>3, <1>4
  <2> HIDE DEF k
  <2>2. ring[Moved(rPos, k - 1)] = popped + k
    BY <2>1 DEF IInv, Content
  <2> QED
    BY <2>1, <2>2
<1> QED
  BY <1>2, <1>4 DEF FreshFrames, Frames, LatestFrames, Unread

\* The ring starts as an empty queue.
LEMMA InitQueue == RingAssumption /\ Init => Queue!Init
<1> SUFFICES ASSUME RingAssumption, Init PROVE Queue!Init
  OBVIOUS
<1>1. IInv /\ accepted = 0 /\ since = 0 /\ Unread \in Nat
  <2>1. IInv
    BY InitIInv
  <2> QED
    BY <2>1, UsedMoved DEF Init, IInv, Types, Unread, RingAssumption
<1>2. FreshFrames = LatestFrames(0, 0, Unread)
  BY <1>1, FreshIs
<1> QED
  BY <1>1, <1>2, LatestNone DEF Queue!Init

\* An upset loses what is in the queue.
LEMMA UpsetQueue ==
  ASSUME RingAssumption, IInv', Upset, accepted' >= accepted
  PROVE  Queue!Lose
<1>1. (RingAssumption /\ IInv => FreshFrames = LatestFrames(accepted, since, Unread))'
  BY FreshIs, PTL
<1>2. FreshFrames' = LatestFrames(accepted', accepted', Unread') /\ since' = accepted'
  BY <1>1 DEF Upset, RingAssumption
<1>3. accepted' \in Nat /\ Unread' \in Nat
  <2>1. wPos' \in Slot /\ rPos' \in Slot /\ accepted' \in Nat
    BY DEF IInv, Types
  <2>2. Used(wPos', rPos') \in 0..Slots-1
    BY <2>1, UsedMoved
  <2> QED
    BY <2>1, <2>2 DEF Unread, RingAssumption
<1> QED
  BY <1>2, <1>3, LatestNone DEF Queue!Lose

\* Publishing a batch appends it, moving read_pos removes what it passes, an upset
\* removes everything, and every other step leaves the queue alone.
LEMMA NextQueue ==
  RingAssumption /\ IInv /\ [Next]_vars
    => [Queue!Push \/ Queue!Pop \/ Queue!Lose]_(Queue!queueVars)
<1> SUFFICES ASSUME RingAssumption, IInv, [Next]_vars
             PROVE  [Queue!Push \/ Queue!Pop \/ Queue!Lose]_(Queue!queueVars)
  OBVIOUS
<1>1. IInv' /\ FreshFrames' = LatestFrames(accepted', since', Unread')
  <2>1. (RingAssumption /\ IInv => FreshFrames = LatestFrames(accepted, since, Unread))'
    BY FreshIs, PTL
  <2> QED
    BY <2>1, NextIInv DEF RingAssumption
<1>2. /\ FreshFrames = LatestFrames(accepted, since, Unread)
      /\ accepted \in Nat /\ since \in Nat /\ since <= accepted
      /\ Unread \in Nat /\ Unread < Slots /\ Slots \in Nat
  BY FreshIs, UsedMoved DEF IInv, Types, Since, Unread, RingAssumption
<1>3. Len(FreshFrames) = Latest(accepted, since, Unread) /\ Len(FreshFrames) <= Unread
      /\ Len(FreshFrames) \in Nat
  <2>1. /\ Len(LatestFrames(accepted, since, Unread)) = Latest(accepted, since, Unread)
        /\ Latest(accepted, since, Unread) \in Nat /\ Latest(accepted, since, Unread) <= Unread
    BY <1>2, LatestIs, Zenon
  <2> QED
    BY <1>2, <2>1
<1>4. CASE Upset /\ accepted' >= accepted
  BY <1>1, <1>4, UpsetQueue
<1>5. CASE Unread' = Unread /\ UNCHANGED <<accepted, since>>
  BY <1>1, <1>2, <1>5 DEF Queue!queueVars
<1>6. CASE StoreWritePos /\ Calm
  <2> DEFINE m == writer.left
  <2>1. /\ Unread' = Unread + m /\ since' = since /\ accepted' = accepted + m
        /\ m \in Nat /\ Unread + m < Slots
    BY <1>6, StoreCalm
       DEF StoreWritePos, Copied, Pass, Calm, WriterFits, IInv, Types, Unread
  <2> HIDE DEF m
  <2>2. FreshFrames' = FreshFrames \o [i \in 1..m |-> accepted + i]
    <3>1. LatestFrames(accepted + m, since, Unread + m)
            = LatestFrames(accepted, since, Unread) \o Frames(accepted, m)
      <4>1. /\ accepted \in Nat /\ since \in Nat /\ since <= accepted /\ Unread \in Nat
            /\ m \in Nat
        BY <1>2, <2>1, Zenon
      <4> QED
        BY ONLY <4>1, LatestGrow, Zenon
    <3>2. FreshFrames' = LatestFrames(accepted + m, since, Unread + m)
      BY <1>1, <2>1, Zenon
    <3> QED
      BY <1>2, <3>1, <3>2, Zenon DEF Frames
  <2>3. /\ accepted + m \in accepted..accepted + (Slots - 1) - Len(FreshFrames)
        /\ (accepted + m) - accepted = m
    BY <1>2, <1>3, <2>1
  <2> QED
    BY <2>1, <2>2, <2>3 DEF Queue!Push
<1>7. CASE Advance /\ Calm
  <2> DEFINE take == reader.take
  <2>1. /\ Unread' = Unread - take /\ since' = since /\ accepted' = accepted
        /\ take \in 0..Unread
    BY <1>2, <1>7, AdvanceCalm DEF Advance, StoreReadPos, Pass, writerVars, IInv
  <2> HIDE DEF take
  <2>2. \E k \in 0..Len(FreshFrames) :
          FreshFrames' = SubSeq(FreshFrames, k + 1, Len(FreshFrames))
    <3>1. \E k \in 0..Latest(accepted, since, Unread) :
            LatestFrames(accepted, since, Unread - take)
              = SubSeq(LatestFrames(accepted, since, Unread), k + 1, Latest(accepted, since, Unread))
      BY <1>2, <2>1, LatestShrink, Zenon
    <3>2. FreshFrames' = LatestFrames(accepted, since, Unread - take)
      BY <1>1, <2>1, Zenon
    <3> QED
      BY <1>2, <1>3, <3>1, <3>2, Zenon
  <2> QED
    BY <2>1, <2>2 DEF Queue!Pop
<1>8. CASE UNCHANGED vars
  BY <1>5, <1>8 DEF vars, Unread
<1> DEFINE Still == LoadWritePos \/ LoadReadPos \/ CopyFrame \/ LoadPositions \/ Plan \/ PlayFrame
                    \/ Resume \/ AudioStarts
<1>9. CASE Still
  <2>1. UNCHANGED <<wPos, rPos, accepted>> /\ Pass(0)
    BY <1>9 DEF LoadWritePos, LoadReadPos, CopyFrame, LoadPositions, Plan, PlayFrame, Resume,
                AudioStarts, writerVars, readerVars
  <2> QED
    BY <1>2, <1>4, <1>5, <2>1 DEF Pass, Unread
<1>10. CASE Underrun \/ ResetWritePos \/ ResetReadPos
  <2>1. accepted' = accepted /\ Upset
    BY <1>10 DEF Underrun, StoreReadPos, ResetWritePos, ResetReadPos, writerVars
  <2> QED
    BY <1>2, <1>4, <2>1
<1>11. CASE StoreWritePos /\ ~Calm
  <2>1. accepted' = accepted + writer.left /\ writer.left \in Nat /\ Upset
    BY <1>11 DEF StoreWritePos, Pass, IInv, Types
  <2>2. accepted' >= accepted
    BY <1>2, <2>1
  <2> QED
    BY <1>4, <2>1, <2>2
<1>12. CASE Advance /\ ~Calm
  <2>1. accepted' = accepted /\ Upset
    BY <1>12 DEF Advance, StoreReadPos, Pass, writerVars
  <2> QED
    BY <1>2, <1>4, <2>1
<1> QED
  BY <1>6, <1>7, <1>8, <1>9, <1>10, <1>11, <1>12 DEF Next

\* The ring is a bounded queue, which loses what it holds when it is upset
\* (emulator-worker.js:42-74, audio-worklet-processor.js:66-124,
\* index-phase-b.html:189-196).
THEOREM IsQueueHolds == RingAssumption /\ Spec => IsQueue
<1>1. RingAssumption /\ Init => Queue!Init
  BY InitQueue
<1>2. RingAssumption /\ IInv /\ [Next]_vars
        => [Queue!Push \/ Queue!Pop \/ Queue!Lose]_(Queue!queueVars)
  BY NextQueue
<1>3. RingAssumption => []RingAssumption
  OBVIOUS
<1> QED
  BY Invariant, <1>1, <1>2, <1>3, PTL DEF Spec, IsQueue, Queue!Spec
=============================================================================
