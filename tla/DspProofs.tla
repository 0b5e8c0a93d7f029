------------------------------ MODULE DspProofs ------------------------------
(***************************************************************************)
(* What a voice interpolates is its sample from the beginning, group after *)
(* group, for any program and any directories and blocks that it puts in   *)
(* RAM meanwhile; and what the echo reads was written the length of its    *)
(* buffer ago, for a buffer of any size at any place, around the end of    *)
(* RAM too.                                                                *)
(*                                                                         *)
(* Voices.  GroupsInOrder speaks of the groups in the ring; what makes it  *)
(* inductive is that the next one is decoded behind the newest: a voice    *)
(* keeps the address and the offset behind it and the header of its block  *)
(* (Behind), and the samples of the key-on pipeline decode the first three *)
(* groups of the first block (Keyed).  A voice that was never keyed on has *)
(* no groups, and no level either.                                         *)
(*                                                                         *)
(* Echo.  EchoDelay speaks of the access of one sample.  The invariant     *)
(* gives the age of every frame that has been passed since the registers   *)
(* were left alone: the way from the frame to the present position, around *)
(* the end of the buffer (Passed).  A buffer is not longer than RAM, so no *)
(* two frames of it share a place (Apart).                                 *)
(***************************************************************************)
EXTENDS Dsp, TLAPS

-----------------------------------------------------------------------------
(* Voices.                                                                 *)

Fields == {"srcn", "adsr1", "adsr2", "gain", "pitch", "env", "hidden", "phase", "ring", "pos",
           "addr", "header", "offset", "delay", "interp", "note", "since"}

\* A voice as it is between two samples.
Shape(v) ==
  /\ DOMAIN v = Fields /\ DOMAIN v.ring = 0..2
  /\ v.ring = [i \in 0..2 |-> v.ring[i]]
  /\ v.pos \in 0..2 /\ v.offset \in {1, 3, 5, 7, 9} /\ v.delay \in 0..4 /\ v.since \in -1..4

\* The group decoded last, the one before and the oldest.
Newest(v) == v.ring[(v.pos + 2) % 3]
Middle(v) == v.ring[(v.pos + 1) % 3]
Oldest(v) == v.ring[v.pos]

\* The next group is the one behind the newest.
Behind(v) ==
  v.since >= 1 =>
    /\ v.offset >= 3 /\ v.header = Newest(v).flags
    /\ Newest(v).addr = v.addr /\ Newest(v).off = v.offset - 2

\* The groups follow each other, from the first of the note.
Ordered(v) ==
  /\ v.since >= 2 => Follows(Middle(v), Newest(v))
  /\ v.since >= 3 => Follows(Oldest(v), Middle(v))
  /\ v.since = 1 => Newest(v).addr = v.note /\ Newest(v).off = 1
  /\ v.since = 2 => Middle(v).addr = v.note /\ Middle(v).off = 1
  /\ v.since = 3 => Oldest(v).addr = v.note /\ Oldest(v).off = 1

\* The key-on pipeline has decoded a group for every sample but the first; a
\* voice that has never been through it is silent.
Keyed(v) ==
  /\ v.delay # 0 => v.since = 4 - v.delay /\ v.offset = 2 * v.since + 1
  /\ v.since = 0 => v.addr = v.note
  /\ v.delay = 0 /\ v.since < 3 => v.since = -1 /\ v.env = 0 /\ v.phase \in {"off", "release"}

VoiceInv(v) == Shape(v) /\ Behind(v) /\ Ordered(v) /\ Keyed(v)

\* What decoding a group changes, and what it leaves alone.
LEMMA DecodeIs ==
  ASSUME NEW v, DOMAIN v = Fields, v.pos \in 0..2
  PROVE  /\ DOMAIN Decode(v) = Fields
         /\ Decode(v).header = Group(v).flags
         /\ Decode(v).ring = [v.ring EXCEPT ![v.pos] = Group(v)]
         /\ Decode(v).pos = (v.pos + 1) % 3
         /\ Decode(v).offset = v.offset + 2
         /\ Decode(v).since = IF v.since \in 0..3 THEN v.since + 1 ELSE v.since
         /\ Decode(v).addr = v.addr /\ Decode(v).note = v.note /\ Decode(v).delay = v.delay
         /\ Decode(v).env = v.env /\ Decode(v).phase = v.phase
BY DEF Decode, Group, Fields

\* The envelope changes the level and the phase only, and leaves a silent voice
\* that is released silent.
LEMMA EnvelopedIs ==
  ASSUME NEW v, DOMAIN v = Fields
  PROVE  /\ DOMAIN Enveloped(v) = Fields
         /\ \A f \in Fields \ {"env", "hidden", "phase"} : Enveloped(v)[f] = v[f]
         /\ v.env = 0 /\ v.phase \in {"off", "release"} =>
              Enveloped(v).env = 0 /\ Enveloped(v).phase = "off"
<1> DEFINE Only(w) == DOMAIN w = Fields /\ \A f \in Fields \ {"env", "hidden", "phase"} : w[f] = v[f]
<1>1. Only(v) /\ Only(Released(v))
  BY DEF Released, Fields
<1>7. \A e, p : /\ Only([v EXCEPT !.env = e]) /\ Only([v EXCEPT !.env = e, !.phase = p])
                /\ Only([v EXCEPT !.env = e, !.hidden = p])
  BY DEF Fields
<1>2. Only(Attacked(v)) /\ Only(DecayedToSustain(v)) /\ Only(Sustained(v))
  <2> HIDE DEF Only
  <2>1. Only(Attacked(v))
    <3> DEFINE rate == 2 * Bits(v.adsr1, 0, 4) + 1
               e == v.env + IF rate = 31 THEN 1024 ELSE 32
               top == \h7FF
    <3>1. Attacked(v) \in {v, [v EXCEPT !.env = top, !.phase = "decay"], [v EXCEPT !.env = e]}
      BY DEF Attacked
    <3> HIDE DEF e, rate, top
    <3>2. /\ Only([v EXCEPT !.env = top, !.phase = "decay"])
          /\ Only([v EXCEPT !.env = e])
      BY <1>7
    <3> QED
      BY <1>1, <3>1, <3>2
  <2>2. Only(DecayedToSustain(v))
    BY <1>1, <1>7 DEF DecayedToSustain
  <2>3. Only(Sustained(v))
    BY <1>1, <1>7 DEF Sustained
  <2> QED
    BY <2>1, <2>2, <2>3
<1>3. Only(Gained(v))
  <2> DEFINE e == v.env + IF v.hidden < \h600 THEN 32 ELSE 8
             g == v.gain * 16
  <2>1. Gained(v) \in {v, [v EXCEPT !.env = g, !.hidden = g], [v EXCEPT !.env = @ - 32],
                       [v EXCEPT !.env = Decayed(@)], [v EXCEPT !.env = @ + 32],
                       [v EXCEPT !.env = e, !.hidden = e]}
    BY DEF Gained
  <2> HIDE DEF Only, e, g
  <2>2. /\ Only([v EXCEPT !.env = g, !.hidden = g]) /\ Only([v EXCEPT !.env = @ - 32])
        /\ Only([v EXCEPT !.env = Decayed(@)]) /\ Only([v EXCEPT !.env = @ + 32])
        /\ Only([v EXCEPT !.env = e, !.hidden = e])
    BY <1>7
  <2> QED
    BY <1>1, <2>1, <2>2
<1>4. ASSUME NEW w, Only(w) PROVE Only([w EXCEPT !.env = Clamped(@)])
  BY <1>4 DEF Fields
<1>5. Only(Enveloped(v))
  BY <1>1, <1>2, <1>3, <1>4 DEF Enveloped
<1>6. v.env = 0 /\ v.phase \in {"off", "release"} =>
        Enveloped(v).env = 0 /\ Enveloped(v).phase = "off"
  BY DEF Enveloped, Released, Fields
<1> QED
  BY <1>5, <1>6

\* The group that is decoded now follows the newest, or is the first.
Due(v) ==
  /\ v.offset \in {1, 3, 5, 7}
  /\ v.since = 0 => v.addr = v.note /\ v.offset = 1
  /\ v.since >= 1 =>
       Ordered(v) /\ Follows(Newest(v), Group(v))

\* Decoding the group that is due keeps the groups in order.
LEMMA DecodeKeeps ==
  ASSUME NEW v, Shape(v), Due(v)
  PROVE  Shape(Decode(v)) /\ Behind(Decode(v)) /\ Ordered(Decode(v))
<1> DEFINE d == Decode(v)
           g == Group(v)
<1>1. /\ DOMAIN d = Fields /\ d.header = g.flags /\ d.ring = [v.ring EXCEPT ![v.pos] = g]
      /\ d.pos = (v.pos + 1) % 3 /\ d.offset = v.offset + 2
      /\ d.since = IF v.since \in 0..3 THEN v.since + 1 ELSE v.since
      /\ d.addr = v.addr /\ d.note = v.note /\ d.delay = v.delay
  BY DecodeIs DEF Shape, Fields
<1>6. g.addr = v.addr /\ g.off = v.offset
  BY DEF Group
<1> HIDE DEF d, g
<1>2. Shape(d)
  BY <1>1 DEF Shape, Due
<1>3. Newest(d) = g /\ Middle(d) = Newest(v) /\ Oldest(d) = Middle(v)
  BY <1>1 DEF Shape, Newest, Middle, Oldest
<1>4. Behind(d)
  BY <1>1, <1>3, <1>6 DEF Behind, Shape, Due
<1>5. Ordered(d)
  <2>1. CASE v.since <= 0
    BY <1>1, <1>3, <1>6, <2>1 DEF Ordered, Shape, Due
  <2>2. CASE v.since >= 1
    BY <1>1, <1>3, <2>2 DEF Ordered, Shape, Due, g
  <2> QED
    BY <2>1, <2>2 DEF Shape
<1> QED
  BY <1>2, <1>4, <1>5 DEF d

\* Inside a block, the group behind the newest is due.
LEMMA InsideDue ==
  ASSUME NEW v, Shape(v), Behind(v), Ordered(v), v.since = 0 => v.offset = 1,
         v.since = 0 => v.addr = v.note, v.offset # 9
  PROVE  Due(v)
BY DEF Shape, Behind, Due, Follows, Group

\* What a voice is known by apart from its level.
Same(v, w) ==
  /\ DOMAIN w = Fields
  /\ \A f \in {"ring", "pos", "addr", "header", "offset", "note", "since", "srcn"} : w[f] = v[f]

\* A change of the level, the position or the registers leaves the groups alone.
LEMMA SameKeeps ==
  ASSUME NEW v, NEW w, Same(v, w), Shape(v), w.delay \in 0..4
  PROVE  Shape(w) /\ (Behind(v) => Behind(w)) /\ (Ordered(v) => Ordered(w))
BY DEF Same, Shape, Behind, Ordered, Newest, Middle, Oldest

\* The first sample of the key-on pipeline looks the note up.
LEMMA KeyOnKeeps == ASSUME NEW v, VoiceInv(v) PROVE VoiceInv(Delayed(KeyOn(v)))
<1> DEFINE k == KeyOn(v)
           w == LookedUp(k)
           x == [w EXCEPT !.env = 0, !.hidden = 0, !.interp = 0, !.delay = @ - 1]
<1>1. DOMAIN k = Fields /\ k.delay = 5
  BY DEF VoiceInv, Shape, KeyOn, Fields
<1> HIDE DEF k
<1>2. /\ DOMAIN w = Fields /\ w.ring = [i \in 0..2 |-> NoGroup] /\ w.pos = 0 /\ w.addr = w.note
      /\ w.offset = 1 /\ w.since = 0 /\ w.delay = 5
  BY <1>1 DEF LookedUp, Fields
<1> HIDE DEF w
<1>3. /\ DOMAIN x = Fields /\ x.ring = [i \in 0..2 |-> NoGroup] /\ x.pos = 0 /\ x.addr = x.note
      /\ x.offset = 1 /\ x.since = 0 /\ x.delay = 4
  BY <1>2 DEF Fields
<1>4. Delayed(k) = x
  BY <1>1, <1>3 DEF Delayed, w
<1> HIDE DEF x
<1>5. VoiceInv(x)
  BY <1>3 DEF VoiceInv, Shape, Behind, Ordered, Keyed
<1> QED
  BY <1>4, <1>5 DEF k

\* The others decode a group each, and the last one opens the voice.
LEMMA DelayedKeeps == ASSUME NEW v, VoiceInv(v), v.delay # 0 PROVE VoiceInv(Delayed(v))
<1> DEFINE x == [v EXCEPT !.env = 0, !.hidden = 0, !.interp = 0, !.delay = @ - 1]
<1>1. Same(v, x) /\ x.delay = v.delay - 1 /\ v.delay \in 1..4
  BY DEF VoiceInv, Shape, Same, Fields
<1>2. Delayed(v) = IF x.delay % 4 # 0 THEN Decode(x) ELSE x
  <2>1. (IF v.delay = 5 THEN LookedUp(v) ELSE v) = v
    BY <1>1
  <2> QED
    BY <2>1, Zenon DEF Delayed
<1> HIDE DEF x
<1>3. Shape(x) /\ Behind(x) /\ Ordered(x)
  BY <1>1, SameKeeps DEF VoiceInv
<1>4. /\ x.since = 3 - x.delay /\ x.offset = 2 * x.since + 1 /\ x.delay \in 0..3
      /\ x.since = 0 => x.addr = x.note
  BY <1>1 DEF VoiceInv, Keyed, Same, Shape
<1>5. CASE x.delay = 0
  <2>1. Keyed(x)
    BY <1>4, <1>5 DEF Keyed
  <2> QED
    BY <1>2, <1>3, <1>5, <2>1 DEF VoiceInv
<1>6. CASE x.delay # 0
  <2> DEFINE d == Decode(x)
  <2>1. Due(x)
    BY <1>3, <1>4, <1>6, InsideDue
  <2>2. Shape(d) /\ Behind(d) /\ Ordered(d)
    BY <1>3, <2>1, DecodeKeeps
  <2>3. d.since = x.since + 1 /\ d.offset = x.offset + 2 /\ d.delay = x.delay
    <3>1. /\ d.since = IF x.since \in 0..3 THEN x.since + 1 ELSE x.since
          /\ d.offset = x.offset + 2 /\ d.delay = x.delay
      BY <1>3, DecodeIs DEF Shape
    <3>2. x.since \in 0..3
      BY <1>4, <1>6
    <3> QED
      BY <3>1, <3>2
  <2>4. Keyed(d)
    BY <1>4, <1>6, <2>2, <2>3 DEF Keyed, Shape
  <2>5. Delayed(v) = d
    BY <1>2, <1>4, <1>6
  <2> HIDE DEF d
  <2> QED
    BY <2>2, <2>4, <2>5 DEF VoiceInv
<1> QED
  BY <1>5, <1>6

\* A voice that sounds decodes the next group when its position passes one, or ends.
LEMMA NextGroupKeeps ==
  ASSUME NEW v, VoiceInv(v), v.delay = 0
  PROVE  VoiceInv(NextGroup(v)) /\ NextGroup(v).delay = 0
<1>1. Shape(v) /\ Behind(v) /\ Ordered(v) /\ Keyed(v) /\ v.since # 0
  BY DEF VoiceInv, Keyed
<1>2. CASE Stops(v)
  <2> DEFINE w == [v EXCEPT !.phase = "off", !.env = 0]
  <2>1. Same(v, w) /\ w.delay = 0 /\ w.env = 0 /\ w.phase = "off"
    BY <1>1 DEF Same, Shape, Fields
  <2>2. NextGroup(v) = w
    BY <1>2 DEF NextGroup
  <2> HIDE DEF w
  <2>3. Shape(w) /\ Behind(w) /\ Ordered(w)
    BY <1>1, <2>1, SameKeeps
  <2>4. Keyed(w)
    BY <1>1, <2>1 DEF Keyed, Same
  <2> QED
    BY <2>1, <2>2, <2>3, <2>4 DEF VoiceInv
<1>3. ASSUME NEW w, Shape(w), Due(w), NextGroup(v) = Decode(w), w.since = v.since, w.delay = 0,
             w.env = v.env, w.phase = v.phase
      PROVE  VoiceInv(NextGroup(v)) /\ NextGroup(v).delay = 0
  <2> DEFINE d == Decode(w)
  <2>1. Shape(d) /\ Behind(d) /\ Ordered(d)
    BY <1>3, DecodeKeeps
  <2>2. d.delay = 0 /\ d.env = v.env /\ d.phase = v.phase
        /\ d.since = IF v.since \in 0..3 THEN v.since + 1 ELSE v.since
    <3>1. DOMAIN w = Fields /\ w.pos \in 0..2
      BY <1>3 DEF Shape
    <3>2. /\ d.delay = w.delay /\ d.env = w.env /\ d.phase = w.phase
          /\ d.since = IF w.since \in 0..3 THEN w.since + 1 ELSE w.since
      BY ONLY <3>1, DecodeIs
    <3> QED
      BY ONLY <1>3, <3>2
  <2> HIDE DEF d
  <2>3. Keyed(d)
    BY <1>1, <2>1, <2>2 DEF Keyed, Shape
  <2> QED
    BY <1>3, <2>1, <2>2, <2>3 DEF VoiceInv, d
<1>4. CASE ~Stops(v) /\ BlockDone(v)
  <2> DEFINE w == [v EXCEPT !.addr = BlockAfter(v), !.offset = 1]
  <2>1. /\ DOMAIN w = Fields /\ w.addr = BlockAfter(v) /\ w.offset = 1
        /\ \A f \in Fields \ {"addr", "offset"} : w[f] = v[f]
    BY <1>1 DEF Shape, Fields
  <2>2. NextGroup(v) = Decode(w)
    BY <1>4 DEF NextGroup
  <2> HIDE DEF w
  <2>3. /\ w.ring = v.ring /\ w.pos = v.pos /\ w.since = v.since /\ w.note = v.note
        /\ w.delay = 0 /\ w.env = v.env /\ w.phase = v.phase /\ w.srcn = v.srcn
    BY <2>1 DEF Fields
  <2>4. Shape(w) /\ Ordered(w)
    BY <1>1, <2>1, <2>3 DEF Shape, Ordered, Newest, Middle, Oldest
  <2>5. v.offset = 9
    BY <1>1, <1>4 DEF BlockDone, Shape
  <2>6. v.since >= 1 => Follows(Newest(w), Group(w))
    <3> SUFFICES ASSUME v.since >= 1
                 PROVE  Follows(Newest(w), Group(w))
      OBVIOUS
    <3> DEFINE g == Newest(v)
    <3>1. v.header = g.flags /\ g.addr = v.addr /\ g.off = 7
      BY <1>1, <2>5 DEF Behind
    <3>2. Newest(w) = g
      BY <2>3 DEF Newest
    <3>3. /\ "end" \in v.header => "loop" \in v.header
          /\ w.addr = IF "end" \in v.header THEN layout.loop[v.srcn] ELSE NextBlock(v.addr)
      BY <1>4, <2>1 DEF Stops, Ends, BlockAfter
    <3>4. Group(w).addr = w.addr /\ Group(w).off = w.offset /\ Group(w).loop = layout.loop[w.srcn]
      BY DEF Group
    <3> HIDE DEF g
    <3> QED
      BY ONLY <2>1, <2>3, <3>1, <3>2, <3>3, <3>4 DEF Follows, NextBlock
  <2>7. Due(w)
    BY <1>1, <2>1, <2>3, <2>4, <2>6 DEF Due
  <2> QED
    BY <1>3, <2>2, <2>3, <2>4, <2>7
<1>5. CASE ~Stops(v) /\ ~BlockDone(v)
  <2>1. NextGroup(v) = Decode(v)
    BY <1>5 DEF NextGroup
  <2>2. Due(v)
    BY <1>1, <1>5, InsideDue DEF BlockDone, Shape
  <2> QED
    BY <1>1, <1>3, <2>1, <2>2
<1> QED
  BY <1>2, <1>4, <1>5

LEMMA SoundedKeeps ==
  ASSUME NEW v, NEW pitch, VoiceInv(v), v.delay = 0
  PROVE  VoiceInv(Sounded(v, pitch))
<1>1. ASSUME NEW p PROVE VoiceInv([v EXCEPT !.interp = p]) /\ [v EXCEPT !.interp = p].delay = 0
  <2> DEFINE w == [v EXCEPT !.interp = p]
  <2>1. Same(v, w) /\ w.delay = 0 /\ w.env = v.env /\ w.phase = v.phase
    BY DEF VoiceInv, Same, Shape, Fields
  <2> HIDE DEF w
  <2>2. Shape(w) /\ Behind(w) /\ Ordered(w)
    BY <2>1, SameKeeps DEF VoiceInv
  <2>3. Keyed(w)
    BY <2>1 DEF Keyed, Same, VoiceInv
  <2> QED
    BY <2>1, <2>2, <2>3 DEF VoiceInv, w
<1>2. ASSUME NEW w, VoiceInv(w), w.delay = 0 PROVE VoiceInv(Enveloped(w))
  <2> DEFINE e == Enveloped(w)
  <2>1. /\ Same(w, e) /\ e.delay = 0
        /\ w.env = 0 /\ w.phase \in {"off", "release"} => e.env = 0 /\ e.phase = "off"
    BY <1>2, EnvelopedIs DEF VoiceInv, Shape, Same, Fields
  <2> HIDE DEF e
  <2>2. Shape(e) /\ Behind(e) /\ Ordered(e)
    BY <1>2, <2>1, SameKeeps DEF VoiceInv
  <2>3. Keyed(e)
    BY <1>2, <2>1 DEF Keyed, Same, VoiceInv
  <2> QED
    BY <2>2, <2>3 DEF VoiceInv, e
<1>3. ASSUME NEW w, VoiceInv(w), w.delay = 0 PROVE VoiceInv(Enveloped(NextGroup(w)))
  BY <1>2, <1>3, NextGroupKeeps
<1> DEFINE p == Position(v, pitch)
           q == p - \h4000
<1>4. CASE Crosses(v, pitch)
  <2>1. Sounded(v, pitch) = Enveloped(NextGroup([v EXCEPT !.interp = q]))
    BY <1>4 DEF Sounded
  <2> HIDE DEF q
  <2> QED
    BY <1>1, <1>3, <2>1
<1>5. CASE ~Crosses(v, pitch)
  <2>1. Sounded(v, pitch) = Enveloped([v EXCEPT !.interp = p])
    BY <1>5 DEF Sounded
  <2> HIDE DEF p
  <2> QED
    BY <1>1, <1>2, <2>1
<1> QED
  BY <1>4, <1>5

\* One sample of a voice, keyed on or not.
LEMMA SteppedKeeps ==
  ASSUME NEW i, NEW amps, NEW v, VoiceInv(v)
  PROVE  VoiceInv(Stepped(i, v, amps)) /\ VoiceInv(Stepped(i, KeyOn(v), amps))
<1>1. VoiceInv(Stepped(i, v, amps))
  <2>1. v.delay \in 0..4
    BY DEF VoiceInv, Shape
  <2> QED
    BY <2>1, DelayedKeeps, SoundedKeeps DEF Stepped, Sounding
<1>2. KeyOn(v).delay = 5
  BY DEF VoiceInv, Shape, KeyOn, Fields
<1> QED
  BY <1>1, <1>2, KeyOnKeeps DEF Stepped

VoicesInv == voice = [i \in Voice |-> voice[i]] /\ \A i \in Voice : VoiceInv(voice[i])

\* Every voice is off, with nothing in its ring.
LEMMA InitVoices == SoundInit => VoicesInv
<1> SUFFICES ASSUME SoundInit, NEW i \in Voice PROVE VoiceInv(voice[i])
  BY DEF VoicesInv, SoundInit
<1>1. /\ DOMAIN voice[i] = Fields /\ voice[i].ring = [k \in 0..2 |-> NoGroup]
      /\ voice[i].pos = 0 /\ voice[i].offset = 1 /\ voice[i].delay = 0 /\ voice[i].since = -1
      /\ voice[i].env = 0 /\ voice[i].phase = "off"
  BY DEF SoundInit, Fields
<1> QED
  BY <1>1 DEF VoiceInv, Shape, Behind, Ordered, Keyed

\* A register of a voice is written between two samples.
LEMMA WrittenKeeps ==
  ASSUME NEW v, NEW w, VoiceInv(v), DOMAIN w = Fields,
         \A f \in {"ring", "pos", "addr", "header", "offset", "note", "since", "delay", "env"} :
           w[f] = v[f],
         w.phase \in {v.phase, "release"}
  PROVE  VoiceInv(w)
<1>1. Shape(w)
  BY DEF VoiceInv, Shape
<1>2. Behind(w) /\ Ordered(w)
  BY DEF VoiceInv, Behind, Ordered, Newest, Middle, Oldest
<1>3. Keyed(w)
  BY DEF VoiceInv, Keyed
<1> QED
  BY <1>1, <1>2, <1>3 DEF VoiceInv

\* Samples and register writes keep every voice in order.
LEMMA NextVoices == VoicesInv /\ [SoundNext]_soundVars => VoicesInv'
<1> SUFFICES ASSUME VoicesInv, [SoundNext]_soundVars PROVE VoicesInv'
  OBVIOUS
<1>1. CASE Sample
  <2> DEFINE keyed == [i \in Voice |-> IF i \in newKon THEN KeyOn(voice[i]) ELSE voice[i]]
  <2>1. PICK amps : voice' = [i \in Voice |-> Stepped(i, keyed[i], amps)]
    BY <1>1 DEF Sample
  <2>2. ASSUME NEW i \in Voice PROVE VoiceInv(Stepped(i, keyed[i], amps))
    BY SteppedKeeps DEF VoicesInv
  <2> QED
    BY <2>1, <2>2 DEF VoicesInv
<1>2. ASSUME NEW val, WriteKoff(val) PROVE VoicesInv'
  <2>1. ASSUME NEW v, VoiceInv(v) PROVE VoiceInv([v EXCEPT !.phase = "release"])
    <3> DEFINE w == [v EXCEPT !.phase = "release"]
    <3>1. /\ DOMAIN w = Fields /\ w.phase = "release"
          /\ \A f \in {"ring", "pos", "addr", "header", "offset", "note", "since", "delay", "env"} :
               w[f] = v[f]
      BY <2>1 DEF VoiceInv, Shape, Fields
    <3> HIDE DEF w
    <3> QED
      BY <2>1, <3>1, WrittenKeeps DEF w
  <2> QED
    BY <1>2, <2>1 DEF WriteKoff, VoicesInv
<1>3. ASSUME NEW reg, NEW i, NEW val, WriteField(reg, i, val) PROVE VoicesInv'
  <2>1. ASSUME NEW v, VoiceInv(v) PROVE VoiceInv([f \in DOMAIN v |-> IF f = reg THEN val ELSE v[f]])
    <3> DEFINE w == [f \in DOMAIN v |-> IF f = reg THEN val ELSE v[f]]
    <3>1. /\ DOMAIN w = Fields /\ w.phase = v.phase
          /\ \A f \in {"ring", "pos", "addr", "header", "offset", "note", "since", "delay", "env"} :
               w[f] = v[f]
      BY <1>3, <2>1 DEF WriteField, VoiceInv, Shape, Fields
    <3> HIDE DEF w
    <3> QED
      BY <2>1, <3>1, WrittenKeeps DEF w
  <2> QED
    BY <1>3, <2>1 DEF WriteField, VoicesInv
<1>4. ASSUME NEW half \in 0..1, NEW i, NEW val, WritePitch(half, i, val) PROVE VoicesInv'
  <2>1. ASSUME NEW v, NEW p, VoiceInv(v) PROVE VoiceInv([v EXCEPT !.pitch = p])
    <3> DEFINE w == [v EXCEPT !.pitch = p]
    <3>1. /\ DOMAIN w = Fields /\ w.phase = v.phase
          /\ \A f \in {"ring", "pos", "addr", "header", "offset", "note", "since", "delay", "env"} :
               w[f] = v[f]
      BY <2>1 DEF VoiceInv, Shape, Fields
    <3> HIDE DEF w
    <3> QED
      BY <2>1, <3>1, WrittenKeeps DEF w
  <2>2. PICK p : voice' = [voice EXCEPT ![i] = [voice[i] EXCEPT !.pitch = p]]
    BY <1>4 DEF WritePitch
  <2> QED
    BY <2>1, <2>2 DEF VoicesInv
<1>5. CASE UNCHANGED voice
  BY <1>5 DEF VoicesInv
<1>6. ASSUME NEW val, WriteKon(val) \/ WriteEndx(val) \/ WritePmon(val) PROVE UNCHANGED voice
  BY <1>6 DEF WriteKon, WriteEndx, WritePmon
<1>7. ASSUME NEW reg, NEW val, WriteEcho(reg, val) PROVE UNCHANGED voice
  BY <1>7 DEF WriteEcho, voiceVars
<1>8. UNCHANGED soundVars => UNCHANGED voice
  BY DEF soundVars, voiceVars
<1>9. ASSUME NEW val, WriteLayout(val) PROVE UNCHANGED voice
  BY <1>9 DEF WriteLayout
<1> QED
  BY <1>1, <1>2, <1>3, <1>4, <1>5, <1>6, <1>7, <1>8, <1>9 DEF SoundNext

\* What a voice interpolates is its sample from the beginning, group after group and
\* block after block, and an audible voice has the ring full of its own note
\* (dsp.rs:347-437, 478-507, 547-568).
THEOREM GroupsInOrderHolds == SoundSpec => []GroupsInOrder
<1>1. ASSUME NEW v, VoiceInv(v)
      PROVE  LET w == Window(v)
             IN  /\ v.since \in 1..3 => w[1].addr = v.note /\ w[1].off = 1
                 /\ \A k \in 1..Len(w)-1 : Follows(w[k], w[k + 1])
                 /\ Sounding(v) /\ v.env > 0 => Len(w) = 3
  <2> DEFINE n == IF v.since < 0 THEN 0 ELSE IF v.since > 3 THEN 3 ELSE v.since
             w == [i \in 1..n |-> v.ring[(v.pos + 3 - n + i - 1) % 3]]
  <2>1. n \in 0..3 /\ v.pos \in 0..2 /\ v.since \in -1..4
    BY <1>1 DEF VoiceInv, Shape
  <2>2. Window(v) = w
    BY DEF Window
  <2>3. Len(w) = n
    BY <2>1
  <2>4. /\ n = 1 => w[1] = Newest(v)
        /\ n = 2 => w[1] = Middle(v) /\ w[2] = Newest(v)
        /\ n = 3 => w[1] = Oldest(v) /\ w[2] = Middle(v) /\ w[3] = Newest(v)
    <3>1. CASE n = 1
      BY <2>1, <3>1 DEF Newest
    <3>2. CASE n = 2
      BY <2>1, <3>2 DEF Newest, Middle
    <3>3. CASE n = 3
      BY <2>1, <3>3 DEF Newest, Middle, Oldest
    <3> QED
      BY <3>1, <3>2, <3>3
  <2> HIDE DEF w
  <2>5. v.since \in 1..3 => w[1].addr = v.note /\ w[1].off = 1
    BY <1>1, <2>1, <2>4 DEF VoiceInv, Ordered
  <2>6. \A k \in 1..n-1 : Follows(w[k], w[k + 1])
    <3>1. n = 2 => Follows(w[1], w[2])
      BY <1>1, <2>1, <2>4 DEF VoiceInv, Ordered
    <3>2. n = 3 => Follows(w[1], w[2]) /\ Follows(w[2], w[3])
      BY <1>1, <2>1, <2>4 DEF VoiceInv, Ordered
    <3> HIDE DEF n
    <3> QED
      BY <2>1, <3>1, <3>2
  <2>7. Sounding(v) /\ v.env > 0 => n = 3
    BY <1>1, <2>1 DEF VoiceInv, Keyed, Sounding
  <2> HIDE DEF n
  <2> QED
    BY <2>2, <2>3, <2>5, <2>6, <2>7
<1>2. VoicesInv => GroupsInOrder
  BY <1>1 DEF VoicesInv, GroupsInOrder
<1> QED
  BY <1>2, InitVoices, NextVoices, PTL DEF SoundSpec

-----------------------------------------------------------------------------
(* Echo.                                                                   *)

Base == echo.esa * EsaUnit

\* Where the frame at q of the buffer is in RAM.
At(q) == (Base + q) % RamSize

\* Places of frames in a buffer of that length.
Places(length) == {q \in 0..length-1 : q % 4 = 0}

\* The way from the frame at q to the position.
Passed(q) == IF q < echo.pos THEN echo.pos - q ELSE echo.pos - q + echo.length

EchoTypes ==
  /\ DOMAIN echo = {"pos", "length", "esa", "readOnly", "mute"}
  /\ echo.pos \in Nat /\ echo.pos % 4 = 0 /\ echo.length \in Nat /\ echo.length % 4 = 0
  /\ echo.length <= RamSize /\ echo.esa \in Nat /\ steady \in 0..Unknown
  /\ \A a \in DOMAIN age : age[a] \in Nat

\* The position is inside the buffer, and the frames that were passed since the
\* registers were left alone, but the first, are as old as the way from them.
EchoInv ==
  /\ steady >= 1 => echo.pos < echo.length
  /\ steady >= 1 /\ ~echo.readOnly =>
       \A q \in Places(echo.length) : Passed(q) <= 4 * (steady - 1) =>
         At(q) \in DOMAIN age /\ 4 * age[At(q)] = Passed(q) - 4

IInv == EchoTypes /\ EchoInv /\ EchoDelay

LEMMA Sizes ==
  /\ EchoUnit \in Nat /\ EsaUnit \in Nat /\ Unknown \in Nat /\ EchoUnit % 4 = 0
  /\ RamSize \in Nat \ {0} /\ 15 * EchoUnit <= RamSize
BY DspAssumption

\* Two numbers that leave the same remainder are the same or a divisor apart.
LEMMA SameRemainder ==
  ASSUME NEW s \in Nat \ {0}, NEW x \in Nat, NEW y \in Nat, x % s = y % s, y - x \in 0..s-1
  PROVE  x = y
<1> DEFINE a == x \div s
           b == y \div s
<1>1. x = s * a + (x % s) /\ y = s * b + (y % s) /\ a \in Int /\ b \in Int
  OBVIOUS
<1> HIDE DEF a, b
<1>2. x % s \in Int /\ y % s \in Int /\ s * a \in Int /\ s * b \in Int
  BY <1>1
<1>3. y - x = s * b - s * a
  BY <1>1, <1>2
<1>4. CASE b >= a + 1
  <2>1. s * b >= s * (a + 1) /\ s * (a + 1) = s * a + s
    BY <1>1, <1>4
  <2> QED
    BY <1>2, <1>3, <2>1
<1>5. CASE b <= a
  <2>1. s * b <= s * a
    BY <1>1, <1>5
  <2> QED
    BY <1>2, <1>3, <2>1
<1> QED
  BY <1>1, <1>4, <1>5

\* No two frames of a buffer share a place in RAM.
LEMMA Apart ==
  ASSUME EchoTypes, NEW p \in 0..echo.length-1, NEW q \in 0..echo.length-1, p # q
  PROVE  At(p) # At(q)
<1> DEFINE b == Base
<1>1. b \in Nat
  BY Sizes DEF EchoTypes, Base
<1>2. echo.length \in Nat /\ echo.length <= RamSize /\ RamSize \in Nat \ {0}
  BY Sizes DEF EchoTypes
<1>3. /\ b + p \in Nat /\ b + q \in Nat
      /\ (b + q) - (b + p) \in 0..RamSize-1 \/ (b + p) - (b + q) \in 0..RamSize-1
      /\ b + p # b + q
  <2> HIDE DEF b
  <2> QED
    BY <1>1, <1>2
<1>4. (b + p) % RamSize # (b + q) % RamSize
  <2> DEFINE x == b + p
             y == b + q
  <2>1. x \in Nat /\ y \in Nat /\ x # y /\ (y - x \in 0..RamSize-1 \/ x - y \in 0..RamSize-1)
    BY <1>3
  <2> HIDE DEF x, y
  <2>2. x % RamSize # y % RamSize
    BY <1>2, <2>1, SameRemainder
  <2> QED
    BY <2>2 DEF x, y
<1> QED
  BY <1>4 DEF At

\* A whole number of steps of EDL is a whole number of frames.
LEMMA Frames4 ==
  ASSUME NEW n \in Nat
  PROVE  /\ n * EchoUnit \in Nat /\ (n * EchoUnit) % 4 = 0
         /\ n <= 15 => n * EchoUnit <= RamSize
<1>1. EchoUnit \in Nat /\ EchoUnit = 4 * (EchoUnit \div 4) /\ EchoUnit \div 4 \in Nat
  <2>1. \A x \in Nat : x % 4 = 0 => x = 4 * (x \div 4) /\ x \div 4 \in Nat
    OBVIOUS
  <2> QED
    BY <2>1, Sizes
<1> DEFINE k == EchoUnit \div 4
<1>2. n * k \in Nat /\ n * EchoUnit = 4 * (n * k)
  <2> HIDE DEF k
  <2>1. EchoUnit = 4 * k /\ k \in Nat
    BY <1>1 DEF k
  <2>2. n * k \in Nat /\ n * (4 * k) = 4 * (n * k)
    BY <2>1
  <2> QED
    BY <2>1, <2>2
<1>3. \A x \in Nat : 4 * x \in Nat /\ (4 * x) % 4 = 0
  OBVIOUS
<1> HIDE DEF k
<1>4. n <= 15 => n * EchoUnit <= 15 * EchoUnit
  BY <1>1
<1>5. n <= 15 => n * EchoUnit <= RamSize
  BY <1>2, <1>4, Sizes
<1> QED
  BY <1>2, <1>3, <1>5

\* There is no buffer yet.
LEMMA InitEcho == SoundInit => IInv
<1> SUFFICES ASSUME SoundInit PROVE IInv
  OBVIOUS
<1>1. EchoTypes
  BY Sizes DEF SoundInit, EchoTypes
<1>2. EchoInv
  BY DEF SoundInit, EchoInv
<1>3. EchoDelay
  BY DEF SoundInit, EchoDelay
<1> QED
  BY <1>1, <1>2, <1>3 DEF IInv

\* Writing a register of the echo starts the count again.
LEMMA WriteEchoKeeps ==
  ASSUME IInv, NEW reg \in {"edl", "esa", "flg"}, NEW val, WriteEcho(reg, val),
         song \in Songs
  PROVE  IInv'
<1>1. val \in 0..255
  <2> DEFINE w == [reg |-> reg, v |-> 0, val |-> val]
  <2>1. w \in song /\ w.val = val
    BY DEF WriteEcho, MayWrite
  <2> HIDE DEF w
  <2> QED
    BY <2>1, ByteAssumption
<1>2. steady' = 0 /\ age' = age /\ echoed' = echoed
  BY DEF WriteEcho
<1>3. /\ val % 16 \in Nat /\ (val % 16) * EchoUnit \in Nat
      /\ ((val % 16) * EchoUnit) % 4 = 0 /\ (val % 16) * EchoUnit <= RamSize
  <2>1. val % 16 \in Nat /\ val % 16 <= 15
    BY <1>1
  <2> QED
    BY <2>1, Frames4
<1>4. /\ DOMAIN echo' = {"pos", "length", "esa", "readOnly", "mute"}
      /\ echo'.pos = echo.pos
      /\ echo'.length \in {echo.length, (val % 16) * EchoUnit} /\ echo'.esa \in {echo.esa, val}
  BY DEF WriteEcho, IInv, EchoTypes
<1>5. EchoTypes'
  <2>1. /\ echo'.length \in Nat /\ echo'.length % 4 = 0 /\ echo'.length <= RamSize
        /\ echo'.esa \in Nat
    BY <1>1, <1>3, <1>4 DEF IInv, EchoTypes
  <2> QED
    BY <1>2, <1>4, <2>1, Sizes DEF IInv, EchoTypes
<1>6. EchoInv'
  BY <1>2 DEF EchoInv
<1>7. EchoDelay'
  <2> DEFINE frames == echo'.length \div 4
  <2>1. frames \in Nat
    BY <1>5 DEF EchoTypes
  <2> HIDE DEF frames
  <2> QED
    BY <1>2, <2>1 DEF EchoDelay, frames
<1> QED
  BY <1>5, <1>6, <1>7 DEF IInv

\* A sample reads the frame at the position, which has been passed a whole buffer ago,
\* and passes it again.
LEMMA EchoStepKeeps == ASSUME IInv, EchoStep PROVE IInv'
<1> DEFINE older == [a \in DOMAIN age |-> IF age[a] >= Unknown THEN Unknown ELSE age[a] + 1]
           at == At(echo.pos)
<1>1. CASE echo.mute \/ echo.length = 0
  <2>1. age' = older /\ steady' = 0 /\ echo' = echo
    BY <1>1 DEF EchoStep
  <2>2. EchoTypes'
    BY <2>1, Sizes DEF IInv, EchoTypes
  <2>3. EchoInv'
    BY <2>1 DEF EchoInv
  <2>4. EchoDelay'
    <3> DEFINE frames == echo'.length \div 4
    <3>1. frames \in Nat
      BY <2>2 DEF EchoTypes
    <3> HIDE DEF frames
    <3> QED
      BY <2>1, <3>1 DEF EchoDelay, frames
  <2> QED
    BY <2>2, <2>3, <2>4 DEF IInv
<1>2. CASE ~(echo.mute \/ echo.length = 0)
  <2> DEFINE L == echo.length
  <2>1. /\ echoed' = [at |-> at, age |-> IF at \in DOMAIN older THEN older[at] ELSE Unknown]
        /\ age' = IF echo.readOnly THEN older
                  ELSE [a \in DOMAIN older \cup {at} |-> IF a = at THEN 0 ELSE older[a]]
        /\ steady' = IF steady < Unknown THEN steady + 1 ELSE steady
        /\ echo' = [echo EXCEPT !.pos = EchoAfter(@)]
    BY <1>2 DEF EchoStep, At, Base
  <2>2. /\ L \in Nat /\ L % 4 = 0 /\ L > 0 /\ L <= RamSize /\ echo.pos \in Nat /\ echo.pos % 4 = 0
        /\ steady \in 0..Unknown /\ Unknown \in Nat
    BY <1>2, Sizes DEF IInv, EchoTypes
  <2>3. /\ DOMAIN echo' = DOMAIN echo /\ echo'.length = L /\ echo'.esa = echo.esa
        /\ echo'.readOnly = echo.readOnly /\ \A q : At(q)' = At(q)
        /\ echo'.pos = IF echo.pos + 4 >= L THEN 0 ELSE echo.pos + 4
    BY <2>1 DEF IInv, EchoTypes, EchoAfter, At, Base
  <2>4. EchoTypes'
    <3>1. \A a \in DOMAIN older : older[a] \in Nat
      BY <2>2 DEF IInv, EchoTypes
    <3>2. \A a \in DOMAIN age' : age'[a] \in Nat
      BY <2>1, <3>1
    <3>3. echo'.pos \in Nat /\ echo'.pos % 4 = 0 /\ steady' \in 0..Unknown
      BY <2>1, <2>2, <2>3
    <3> QED
      BY <2>2, <2>3, <3>2, <3>3 DEF IInv, EchoTypes
  <2>5. /\ steady' - 1 <= steady /\ (steady' >= 2 => steady >= 1 /\ echo.pos < L)
        /\ echo'.pos < L
    BY <2>1, <2>2, <2>3 DEF IInv, EchoInv
  <2>6. EchoInv'
    <3> SUFFICES ASSUME ~echo.readOnly, NEW q \in Places(L), Passed(q)' <= 4 * (steady' - 1)
                 PROVE  At(q) \in DOMAIN age' /\ 4 * age'[At(q)] = Passed(q)' - 4
      BY <2>3, <2>5 DEF EchoInv
    <3>1. age' = [a \in DOMAIN older \cup {at} |-> IF a = at THEN 0 ELSE older[a]]
      BY <2>1
    <3>2. q \in 0..L-1 /\ q % 4 = 0 /\ Passed(q)' \in Nat /\ Passed(q)' >= 1
      BY <2>2, <2>3, <2>4 DEF Places, Passed, EchoTypes
    <3>3. steady >= 1 /\ echo.pos < L
      BY <2>2, <2>4, <2>5, <3>2 DEF EchoTypes
    <3>4. CASE q = echo.pos
      <4>1. Passed(q)' = 4
        <5> HIDE DEF L, at, older
        <5>1. CASE echo.pos + 4 >= L
          <6>1. echo.pos + 4 = L
            BY <2>2, <3>3, <5>1
          <6>2. echo'.pos = 0 /\ echo'.length = L
            BY <2>3, <5>1
          <6> QED
            BY <2>2, <3>4, <6>1, <6>2 DEF Passed
        <5>2. CASE echo.pos + 4 < L
          <6>1. echo'.pos = echo.pos + 4
            BY <2>2, <2>3, <5>2
          <6> QED
            BY <2>2, <3>4, <6>1 DEF Passed
        <5> QED
          BY <2>2, <5>1, <5>2
      <4>2. At(q) = at
        BY <3>4
      <4> HIDE DEF at, older
      <4> QED
        BY <3>1, <4>1, <4>2
    <3>5. CASE q # echo.pos
      <4>1. Passed(q)' = Passed(q) + 4 /\ Passed(q) \in Nat
        <5>1. PICK j \in Nat, k \in Nat, l \in Nat : echo.pos = 4*j /\ q = 4*k /\ L = 4*l
          <6>1. \A x \in Nat : x % 4 = 0 => x \div 4 \in Nat /\ x = 4 * (x \div 4)
            OBVIOUS
          <6>2. q \in Nat /\ echo.pos \in Nat /\ L \in Nat
            BY <2>2, <3>2
          <6> HIDE DEF L
          <6>3. /\ echo.pos \div 4 \in Nat /\ echo.pos = 4 * (echo.pos \div 4)
                /\ q \div 4 \in Nat /\ q = 4 * (q \div 4)
                /\ L \div 4 \in Nat /\ L = 4 * (L \div 4)
            BY <2>2, <3>2, <6>1, <6>2
          <6> QED
            BY <6>3
        <5> QED
          BY <2>2, <2>3, <3>2, <3>3, <3>5, <5>1 DEF Passed
      <4>2. Passed(q) <= 4 * (steady - 1)
        BY <2>1, <2>2, <4>1
      <4>3. At(q) \in DOMAIN age /\ 4 * age[At(q)] = Passed(q) - 4
        BY <2>2, <3>3, <4>2 DEF IInv, EchoInv
      <4>4. age[At(q)] \in Nat /\ age[At(q)] < Unknown
        BY <2>2, <4>1, <4>2, <4>3 DEF IInv, EchoTypes
      <4>5. older[At(q)] = age[At(q)] + 1 /\ At(q) \in DOMAIN older
        BY <2>2, <4>3, <4>4
      <4>6. At(q) # at
        <5>1. q \in 0..L-1 /\ echo.pos \in 0..L-1
          BY <2>2, <3>2, <3>3
        <5> QED
          BY <3>5, <5>1, Apart DEF IInv
      <4>7. At(q) \in DOMAIN age' /\ age'[At(q)] = age[At(q)] + 1
        <5> HIDE DEF at, older
        <5> QED
          BY <3>1, <4>5, <4>6
      <4> QED
        BY <4>1, <4>3, <4>4, <4>7
    <3> QED
      BY <3>4, <3>5
  <2>7. EchoDelay'
    <3> DEFINE frames == L \div 4
    <3>1. frames \in Nat /\ L = 4 * frames /\ frames >= 1
      BY <2>2
    <3>2. steady' >= 2 => \E q \in 0..L-1 : echoed'.at = At(q)'
      <4>1. echoed'.at = at /\ (steady' >= 2 => echo.pos \in 0..L-1)
        BY <2>1, <2>2, <2>5
      <4>2. \A q : At(q)' = At(q)
        BY <2>3
      <4> QED
        BY <4>1, <4>2
    <3>3. ASSUME steady' >= frames + 2, ~echo.readOnly PROVE echoed'.age = frames
      <4>1. steady >= frames + 1 /\ echo.pos < L
        BY <2>1, <2>2, <2>5, <3>1, <3>3
      <4>2. echo.pos \in Places(L) /\ Passed(echo.pos) = L
        BY <2>2, <4>1 DEF Places, Passed
      <4>3. At(echo.pos) \in DOMAIN age /\ 4 * age[At(echo.pos)] = L - 4
        BY <2>2, <3>1, <3>3, <4>1, <4>2 DEF IInv, EchoInv
      <4>4. age[At(echo.pos)] = frames - 1 /\ frames - 1 < Unknown
        BY <2>2, <3>1, <4>1, <4>3 DEF IInv, EchoTypes
      <4>5. at \in DOMAIN older /\ older[at] = frames
        <5> HIDE DEF frames
        <5> QED
          BY <2>2, <3>1, <4>3, <4>4
      <4> HIDE DEF older, at
      <4> QED
        BY <2>1, <4>5
    <3> HIDE DEF frames
    <3>4. echo'.length \div 4 = frames
      BY <2>3 DEF frames
    <3> QED
      BY <2>3, <3>2, <3>3, <3>4 DEF EchoDelay, At, Base
  <2> QED
    BY <2>4, <2>6, <2>7 DEF IInv
<1> QED
  BY <1>1, <1>2

\* Everything else leaves the echo alone.
LEMMA NextEcho ==
  song \in Songs /\ IInv /\ [SoundNext]_soundVars => (song \in Songs /\ IInv)'
<1> SUFFICES ASSUME song \in Songs, IInv, [SoundNext]_soundVars PROVE song' = song /\ IInv'
  OBVIOUS
<1>1. CASE Sample
  BY <1>1, EchoStepKeeps DEF Sample
<1>2. ASSUME NEW reg \in {"edl", "esa", "flg"}, NEW val, WriteEcho(reg, val)
      PROVE  song' = song /\ IInv'
  BY <1>2, WriteEchoKeeps DEF WriteEcho, MayWrite
<1>3. CASE song' = song /\ UNCHANGED echoVars
  BY <1>3 DEF echoVars, IInv, EchoTypes, EchoInv, EchoDelay, Passed, At, Base
<1>4. ASSUME NEW val, WriteKon(val) \/ WriteKoff(val) \/ WriteEndx(val) \/ WritePmon(val)
      PROVE  song' = song /\ UNCHANGED echoVars
  BY <1>4 DEF WriteKon, WriteKoff, WriteEndx, WritePmon, MayWrite
<1>5. ASSUME NEW reg, NEW i, NEW val, NEW half, WriteField(reg, i, val) \/ WritePitch(half, i, val)
      PROVE  song' = song /\ UNCHANGED echoVars
  BY <1>5 DEF WriteField, WritePitch, MayWrite
<1>6. UNCHANGED soundVars => song' = song /\ UNCHANGED echoVars
  BY DEF soundVars
<1>7. ASSUME NEW val, WriteLayout(val) PROVE song' = song /\ UNCHANGED echoVars
  BY <1>7 DEF WriteLayout, MayWrite
<1> QED
  BY <1>1, <1>2, <1>3, <1>4, <1>5, <1>6, <1>7 DEF SoundNext

\* Once the echo registers are left alone, every access but the first is inside the
\* buffer, and what is read was written exactly the buffer's length ago
\* (dsp.rs:334, 668-712).
THEOREM EchoDelayHolds == SoundSpec => []EchoDelay
<1>1. SoundInit => song \in Songs /\ IInv
  BY InitEcho DEF SoundInit
<1>2. IInv => EchoDelay
  BY DEF IInv
<1> QED
  BY <1>1, <1>2, NextEcho, PTL DEF SoundSpec
=============================================================================
