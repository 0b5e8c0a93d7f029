-------------------------------- MODULE Dsp --------------------------------
(***************************************************************************)
(* The sound generator of src/src/spc700/dsp.rs.  The SPC700's program     *)
(* writes registers at any time between two samples; each sample steps the *)
(* voices (key-on pipeline, BRR decoder, pitch, envelope) and the echo     *)
(* buffer.  It may also put another directory or other blocks in RAM.      *)
(*                                                                         *)
(* Sample values are left out: a decoded group of four samples is named by *)
(* where it was decoded from, what a voice puts out before its envelope is *)
(* any of Outputs, and a frame of the echo buffer is known by its age.     *)
(* Noise, volumes and the FIR filter are left out with them.               *)
(*                                                                         *)
(* Definitions named Bad... are plausible faults, not part of the model.   *)
(***************************************************************************)
EXTENDS Integers, FiniteSets, Sequences

CONSTANTS
  Voice,       \* the voices, 0..7
  Layouts,     \* what may be in RAM, [start, loop, flags]: the directory at DIR,
               \* sample number -> address, and the headers of the blocks,
               \* block address -> subset of {"end", "loop"}
  RamSize,     \* bytes of RAM (65536)
  Outputs,     \* what a voice may put out before its envelope
  CounterWrap, \* a multiple of the periods of the rates the programs use (2^32)
  EchoUnit,    \* bytes of echo buffer per step of EDL (2048)
  EsaUnit,     \* bytes per step of ESA (256)
  Songs,       \* sets of writes, [reg, v, val], a program is made of
  MaxWrites,   \* bound on the writes
  Unknown      \* bound on ages: more than the longest buffer's frames

ASSUME DspAssumption ==
  /\ Voice \subseteq 0..7
  /\ EchoUnit \in Nat /\ EsaUnit \in Nat /\ EchoUnit % 4 = 0 /\ EsaUnit % 4 = 0
  /\ RamSize \in Nat \ {0} /\ 15 * EchoUnit <= RamSize
  /\ Unknown \in Nat
  /\ CounterWrap \in Nat \ {0} /\ MaxWrites \in Nat

ASSUME OutputAssumption == Outputs \subseteq -32768..32767

ASSUME ByteAssumption == \A p \in Songs : \A w \in p : w.val \in 0..255

VARIABLES
  song,     \* the writes of this behaviour
  writes,   \* writes so far
  layout,   \* what is in RAM now
  voice,    \* Voice -> the fields of Voice
  newKon,   \* new_kon: voices to be keyed on at the next sample
  endx,     \* ENDX: voices that have reached an end block
  pmon,     \* $2D: voices whose pitch is modulated
  globalCounter,  \* global_counter
  echo,     \* [pos, length, esa, readOnly, mute]
  \* history
  amp,      \* Voice -> its output in the latest sample
  advance,  \* Voice -> the pitch it moved by
  age,      \* address -> samples since the echo frame there was written
  steady,   \* samples since a write to the echo registers
  echoed    \* the latest sample's echo access, [at, age]

voiceVars == <<layout, voice, newKon, endx, pmon, globalCounter, amp, advance>>
echoVars  == <<echo, age, steady, echoed>>
soundVars == <<song, writes, voiceVars, echoVars>>

NoGroup == [addr |-> -1, off |-> 0, flags |-> {}, loop |-> -1]

SoundInit ==
  /\ song \in Songs /\ writes = 0 /\ layout = Layouts[1]
  /\ voice = [v \in Voice |->
       [srcn |-> 0, adsr1 |-> 0, adsr2 |-> 0, gain |-> 0, pitch |-> 0,
        env |-> 0, hidden |-> 0, phase |-> "off",
        ring |-> [i \in 0..2 |-> NoGroup], pos |-> 0,
        addr |-> 0, header |-> {}, offset |-> 1, delay |-> 0, interp |-> 0,
        note |-> 0, since |-> -1]]   \* history: address looked up, groups since
  /\ newKon = {} /\ endx = {} /\ pmon = {} /\ globalCounter = 0
  /\ echo = [pos |-> 0, length |-> 0, esa |-> 0, readOnly |-> TRUE, mute |-> TRUE]
  /\ amp = [v \in Voice |-> 0] /\ advance = [v \in Voice |-> 0]
  /\ age = [a \in {} |-> 0] /\ steady = 0 /\ echoed = [at |-> -1, age |-> Unknown]

-----------------------------------------------------------------------------
(* BRR: a block has four groups of two bytes, at the offsets 1, 3, 5, 7.    *)
(* The ring holds three groups; pos is that of the oldest.                 *)

NextBlock(addr) == (addr + 9) % RamSize

\* The group that is decoded now: its place, its header, and the loop point that the
\* directory names meanwhile.
Group(v) == [addr |-> v.addr, off |-> v.offset,
             flags |-> layout.flags[v.addr], loop |-> layout.loop[v.srcn]]

\* The header is read once for its block.
BadDecode(v) ==
  [v EXCEPT !.header = IF v.offset = 1 THEN Group(v).flags ELSE @,
            !.ring[v.pos] = Group(v),
            !.pos = (@ + 1) % 3,
            !.offset = @ + 2,
            !.since = IF @ \in 0..3 THEN @ + 1 ELSE @]

\* decode_brr_group: the header is read again for each group.
Decode(v) ==
  [v EXCEPT !.header = Group(v).flags,
            !.ring[v.pos] = Group(v),
            !.pos = (@ + 1) % 3,
            !.offset = @ + 2,
            !.since = IF @ \in 0..3 THEN @ + 1 ELSE @]

\* advance_brr_block, for a sample that goes on.
BlockAfter(v) ==
  IF "end" \in v.header THEN layout.loop[v.srcn] ELSE NextBlock(v.addr)

BlockDone(v) == v.offset > 8
Ends(v)      == BlockDone(v) /\ "end" \in v.header
Stops(v)     == Ends(v) /\ "loop" \notin v.header

NextGroup(v) ==
  IF Stops(v) THEN [v EXCEPT !.phase = "off", !.env = 0]
  ELSE IF BlockDone(v) THEN Decode([v EXCEPT !.addr = BlockAfter(v), !.offset = 1])
  ELSE Decode(v)

-----------------------------------------------------------------------------
(* Key-on: the first of five samples looks the address up, three decode.   *)

KeyOn(v) == [v EXCEPT !.delay = 5, !.phase = "attack", !.env = 0, !.hidden = 0]

LookedUp(v) ==
  [v EXCEPT !.ring = [i \in 0..2 |-> NoGroup], !.pos = 0, !.addr = layout.start[v.srcn],
            !.offset = 1, !.header = {}, !.note = layout.start[v.srcn], !.since = 0]

Delayed(v) ==
  LET w == IF v.delay = 5 THEN LookedUp(v) ELSE v
      x == [w EXCEPT !.env = 0, !.hidden = 0, !.interp = 0, !.delay = @ - 1]
  IN  IF x.delay % 4 # 0 THEN Decode(x) ELSE x

-----------------------------------------------------------------------------
(* Envelopes.                                                              *)

CounterRates ==
  <<30721, 2048, 1536, 1280, 1024, 768, 640, 512, 384, 320, 256, 192, 160, 128, 96, 80,
    64, 48, 40, 32, 24, 20, 16, 12, 10, 8, 6, 5, 4, 3, 2, 1>>
CounterOffsets ==
  <<1, 0, 1040, 536, 0, 1040, 536, 0, 1040, 536, 0, 1040, 536, 0, 1040, 536,
    0, 1040, 536, 0, 1040, 536, 0, 1040, 536, 0, 1040, 536, 0, 1040, 0, 0>>

Fires(rate) ==
  rate # 0 /\ (globalCounter + CounterOffsets[rate + 1]) % CounterRates[rate + 1] = 0

Bits(x, low, n) == (x \div 2^low) % 2^n
Clamped(e) == IF e < 0 THEN 0 ELSE IF e > \h7FF THEN \h7FF ELSE e
Decayed(e) == LET d == e - 1 IN d - d \div 256

\* The level falls by a part of itself and never gets to zero.
BadReleased(v) == [v EXCEPT !.env = @ - @ \div 256]

Released(v) ==
  IF v.env <= 8 THEN [v EXCEPT !.env = 0, !.phase = "off"] ELSE [v EXCEPT !.env = @ - 8]

Attacked(v) ==
  LET rate == 2 * Bits(v.adsr1, 0, 4) + 1
      env  == v.env + IF rate = 31 THEN 1024 ELSE 32
  IN  IF ~Fires(rate) THEN v
      ELSE IF env >= \h7FF THEN [v EXCEPT !.env = \h7FF, !.phase = "decay"]
      ELSE [v EXCEPT !.env = env]

\* Sustain begins when the upper bits of the level are the sustain level's.
DecayedToSustain(v) ==
  LET env == Decayed(v.env)
  IN  IF ~Fires(2 * Bits(v.adsr1, 4, 3) + 16) THEN v
      ELSE [v EXCEPT !.env = env,
                     !.phase = IF env \div 256 = Bits(v.adsr2, 5, 3) THEN "sustain" ELSE @]

Sustained(v) ==
  IF Fires(Bits(v.adsr2, 0, 5)) THEN [v EXCEPT !.env = Decayed(@)] ELSE v

\* GAIN: a level set directly, or one of four slopes.
Gained(v) ==
  IF v.gain < 128 THEN [v EXCEPT !.env = v.gain * 16, !.hidden = v.gain * 16]
  ELSE IF ~Fires(Bits(v.gain, 0, 5)) THEN v
  ELSE CASE Bits(v.gain, 5, 2) = 0 -> [v EXCEPT !.env = @ - 32]
         [] Bits(v.gain, 5, 2) = 1 -> [v EXCEPT !.env = Decayed(@)]
         [] Bits(v.gain, 5, 2) = 2 -> [v EXCEPT !.env = @ + 32]
         [] Bits(v.gain, 5, 2) = 3 ->
              LET env == v.env + IF v.hidden < \h600 THEN 32 ELSE 8
              IN  [v EXCEPT !.env = env, !.hidden = env]
         [] OTHER -> v

\* update_envelope_step: release goes before the mode.
Enveloped(v) ==
  IF v.phase = "off" THEN v
  ELSE IF v.phase = "release" THEN Released(v)
  ELSE LET w == IF v.adsr1 < 128 THEN Gained(v)
                ELSE CASE v.phase = "attack"  -> Attacked(v)
                       [] v.phase = "decay"   -> DecayedToSustain(v)
                       [] v.phase = "sustain" -> Sustained(v)
                       [] OTHER -> v
       IN  [w EXCEPT !.env = Clamped(@)]

-----------------------------------------------------------------------------
(* One sample.                                                             *)

Sounding(v) == v.delay = 0 /\ v.phase # "off"

Evened(x) == x - (x % 2)
Amp(v, out) == IF Sounding(v) THEN Evened((out * v.env) \div 2048) ELSE 0

\* The code has stored the voice's own output by the time it modulates the pitch.
Modulator(i, amps) == amps[i]

Bent(pitch, by) == pitch + Evened((pitch * by) \div 32768)

Pitch(i, v, amps) == IF i > 0 /\ i \in pmon THEN Bent(v.pitch, Modulator(i, amps)) ELSE v.pitch

\* The position is cut off below two groups: a sample decodes one at most.
Position(v, pitch) ==
  LET p == (v.interp % \h4000) + pitch IN IF p > \h7FFF THEN \h7FFF ELSE p

Crosses(v, pitch) == Position(v, pitch) >= \h4000

Sounded(v, pitch) ==
  LET p == Position(v, pitch)
  IN  Enveloped(IF Crosses(v, pitch) THEN NextGroup([v EXCEPT !.interp = p - \h4000])
                                     ELSE [v EXCEPT !.interp = p])

Stepped(i, v, amps) ==
  IF v.delay > 0 THEN Delayed(v)
  ELSE IF Sounding(v) THEN Sounded(v, Pitch(i, v, amps))
  ELSE v

\* The position wraps one frame late.
BadEchoAfter(pos) == IF pos + 4 > echo.length THEN 0 ELSE pos + 4

EchoAfter(pos) == IF pos + 4 >= echo.length THEN 0 ELSE pos + 4

\* process_echo: a frame is read, written over unless FLG forbids it, and passed.
EchoStep ==
  LET at    == (echo.esa * EsaUnit + echo.pos) % RamSize
      older == [a \in DOMAIN age |-> IF age[a] >= Unknown THEN Unknown ELSE age[a] + 1]
  IN  IF echo.mute \/ echo.length = 0
      THEN age' = older /\ steady' = 0 /\ echoed' = [at |-> -1, age |-> Unknown]
           /\ UNCHANGED echo
      ELSE /\ echoed' = [at |-> at, age |-> IF at \in DOMAIN older THEN older[at] ELSE Unknown]
           /\ age' = IF echo.readOnly THEN older
                     ELSE [a \in DOMAIN older \cup {at} |-> IF a = at THEN 0 ELSE older[a]]
           /\ steady' = IF steady < Unknown THEN steady + 1 ELSE steady
           /\ echo' = [echo EXCEPT !.pos = EchoAfter(@)]

\* generate_sample.
Sample ==
  LET keyed == [i \in Voice |-> IF i \in newKon THEN KeyOn(voice[i]) ELSE voice[i]]
  IN  \E out \in [Voice -> Outputs] :
        LET amps == [i \in Voice |-> Amp(keyed[i], out[i])]
            pitch(i) == Pitch(i, keyed[i], amps)
        IN  /\ voice' = [i \in Voice |-> Stepped(i, keyed[i], amps)]
            /\ endx' = (endx \ newKon) \cup
                 {i \in Voice : Sounding(keyed[i]) /\ Crosses(keyed[i], pitch(i)) /\ Ends(keyed[i])}
            /\ newKon' = {}
            /\ globalCounter' = (globalCounter + 1) % CounterWrap
            /\ amp' = amps
            /\ advance' = [i \in Voice |-> pitch(i)]
            /\ EchoStep
            /\ UNCHANGED <<layout, pmon, song, writes>>

-----------------------------------------------------------------------------
(* Writes.  KON is latched until the next sample; KOFF acts at     *)
(* once, on voices that have ended too.                                    *)

MayWrite(reg, i, val) ==
  /\ [reg |-> reg, v |-> i, val |-> val] \in song
  /\ writes < MaxWrites /\ writes' = writes + 1
  /\ UNCHANGED song

Chosen(val) == {i \in Voice : Bits(val, i, 1) = 1}

WriteKon(val) ==
  /\ MayWrite("kon", 0, val)
  /\ newKon' = newKon \cup Chosen(val)
  /\ UNCHANGED <<layout, voice, endx, pmon, globalCounter, amp, advance, echoVars>>

WriteKoff(val) ==
  /\ MayWrite("koff", 0, val)
  /\ voice' = [i \in Voice |->
       IF i \in Chosen(val) THEN [voice[i] EXCEPT !.phase = "release"] ELSE voice[i]]
  /\ UNCHANGED <<layout, newKon, endx, pmon, globalCounter, amp, advance, echoVars>>

WriteEndx(val) ==
  /\ MayWrite("endx", 0, val)
  /\ endx' = {}
  /\ UNCHANGED <<layout, voice, newKon, pmon, globalCounter, amp, advance, echoVars>>

WritePmon(val) ==
  /\ MayWrite("pmon", 0, val)
  /\ pmon' = Chosen(val)
  /\ UNCHANGED <<layout, voice, newKon, endx, globalCounter, amp, advance, echoVars>>

\* SRCN, ADSR1, ADSR2 and GAIN.
WriteField(reg, i, val) ==
  /\ reg \in {"srcn", "adsr1", "adsr2", "gain"} /\ MayWrite(reg, i, val)
  /\ voice' = [voice EXCEPT ![i] = [f \in DOMAIN @ |-> IF f = reg THEN val ELSE @[f]]]
  /\ UNCHANGED <<layout, newKon, endx, pmon, globalCounter, amp, advance, echoVars>>

\* A pitch is written in two halves, and a sample may come in between.
WritePitch(half, i, val) ==
  /\ MayWrite(<<"pitchl", "pitchh">>[half + 1], i, val)
  /\ voice' = [voice EXCEPT ![i].pitch =
       IF half = 0 THEN (@ - (@ % 256)) + val ELSE (@ % 256) + 256 * (val % 64)]
  /\ UNCHANGED <<layout, newKon, endx, pmon, globalCounter, amp, advance, echoVars>>

WriteEcho(reg, val) ==
  /\ MayWrite(reg, 0, val)
  /\ echo' = CASE reg = "edl" -> [echo EXCEPT !.length = (val % 16) * EchoUnit]
               [] reg = "esa" -> [echo EXCEPT !.esa = val]
               [] reg = "flg" -> [echo EXCEPT !.mute = Bits(val, 6, 1) = 1,
                                              !.readOnly = Bits(val, 5, 1) = 1]
  /\ steady' = 0
  /\ UNCHANGED <<age, echoed, voiceVars>>

\* DIR, an entry of the directory or the header of a block.
WriteLayout(val) ==
  /\ MayWrite("layout", 0, val)
  /\ layout' = Layouts[val]
  /\ UNCHANGED <<voice, newKon, endx, pmon, globalCounter, amp, advance, echoVars>>

SoundNext ==
  \/ Sample
  \/ \E w \in song :
       \/ WriteKon(w.val) \/ WriteKoff(w.val) \/ WriteEndx(w.val) \/ WritePmon(w.val)
       \/ WriteField(w.reg, w.v, w.val)
       \/ \E half \in 0..1 : WritePitch(half, w.v, w.val)
       \/ w.reg \in {"edl", "esa", "flg"} /\ WriteEcho(w.reg, w.val)
       \/ WriteLayout(w.val)

\* The APU generates a sample every 32 of its cycles, whatever the program does.
SoundSpec == SoundInit /\ [][SoundNext]_soundVars /\ WF_soundVars(Sample)

-----------------------------------------------------------------------------
(* Properties.                                                             *)

\* The groups in the ring since the voice was keyed on, oldest first.
Window(v) ==
  LET n == IF v.since < 0 THEN 0 ELSE IF v.since > 3 THEN 3 ELSE v.since
  IN  [i \in 1..n |-> v.ring[(v.pos + 3 - n + i - 1) % 3]]

Follows(g, h) ==
  IF g.off < 7 THEN h.addr = g.addr /\ h.off = g.off + 2
  ELSE /\ h.off = 1
       /\ "end" \in g.flags => "loop" \in g.flags
       /\ h.addr = IF "end" \in g.flags THEN h.loop ELSE (g.addr + 9) % RamSize

\* What a voice interpolates is its sample from the beginning, group after group
\* and block after block, through the loop point that the directory names when it
\* gets there and by the headers as they are then, around the end of RAM, whenever
\* it is keyed on, at whatever pitch and whatever is put in RAM meanwhile; an
\* audible voice has the ring full of its own note (dsp.rs:347-437, 478-507,
\* 547-568).
GroupsInOrder ==
  \A i \in Voice :
    LET v == voice[i]  w == Window(v)
    IN  /\ v.since \in 1..3 => w[1].addr = v.note /\ w[1].off = 1
        /\ \A k \in 1..Len(w)-1 : Follows(w[k], w[k + 1])
        /\ Sounding(v) /\ v.env > 0 => Len(w) = 3

\* A voice that is keyed off falls silent in the end, whatever else is written
\* to its registers meanwhile, unless it is keyed on again (dsp.rs:331, 602-611).
KeyOffEnds == \A i \in Voice : voice[i].phase = "release" ~> voice[i].phase # "release"

\* Once the echo registers are left alone, every echo access but the first is
\* inside the buffer they describe, around the end of RAM, and what is read was
\* written exactly the buffer's length ago: at most one frame is misplaced when the
\* buffer is made shorter or moved (dsp.rs:334, 668-712).
EchoDelay ==
  LET frames == echo.length \div 4
  IN  /\ steady >= 2 =>
           \E q \in 0..echo.length-1 : echoed.at = (echo.esa * EsaUnit + q) % RamSize
      /\ steady >= frames + 2 /\ ~echo.readOnly => echoed.age = frames

-----------------------------------------------------------------------------
\* "PMON: modulate pitch by previous voice's output" (dsp.rs:549; "voice N modulated
\* by voice N-1", docs/ARCHITECTURE-OLD-20260527-130153.md:311).
ModulatedByPredecessor ==
  [][Sample => \A i \in pmon \ ({0} \cup newKon) :
       Sounding(voice[i]) => advance'[i] = Bent(voice[i].pitch, amp'[i - 1])]_soundVars
=============================================================================
