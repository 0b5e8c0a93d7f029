------------------------------- MODULE PhaseA -------------------------------
(***************************************************************************)
(* The life cycle of the main page, src/web/index.html: emulator, game     *)
(* loop and audio all live on the main thread, but starting the emulator   *)
(* awaits the WebAssembly module, and other events run meanwhile.  A start *)
(* is asked for by the auto-load at page load, by a dropped file or by a   *)
(* choice from the catalogue, all of them at any time.                     *)
(*                                                                         *)
(* The browser is external: it keeps the requested animation frames, which *)
(* cancelAnimationFrame removes by handle, and the audio contexts that     *)
(* have not been closed.                                                   *)
(*                                                                         *)
(* Definitions named Bad... are plausible faults, not part of the model.   *)
(***************************************************************************)
EXTENDS Integers, FiniteSets, FiniteSetsExt

CONSTANTS
  Rom,       \* the ROMs that may be asked for
  BadRom,    \* those the emulator's constructor rejects
  MaxStarts  \* bound on the starts asked for

RomAssumption == BadRom \subseteq Rom /\ MaxStarts \in Nat

VARIABLES
  startingEmulator,
  awaiting,     \* startEmulator calls suspended in "await init()": [n, rom]
  loopGeneration,
  emulator,     \* the ROM that runs, or NoRom
  frames,       \* requested animation frames: [id, gen]
  animFrameId,  \* handle of the latest one, 0 for null
  audioCtx,     \* the page's context (named after the start that made it), 0 for null
  open,         \* contexts that have not been closed
  starts        \* history: starts asked for

vars == <<startingEmulator, awaiting, loopGeneration, emulator, frames, animFrameId,
          audioCtx, open, starts>>

NoRom == "none"
StartCall == [n : 1..MaxStarts, rom : Rom]

Init ==
  /\ startingEmulator = FALSE /\ awaiting = {} /\ loopGeneration = 0
  /\ emulator = NoRom /\ frames = {} /\ animFrameId = 0
  /\ audioCtx = 0 /\ open = {} /\ starts = 0

-----------------------------------------------------------------------------
\* requestAnimationFrame's handle: one that no request has any more.
Handle == Min((1..MaxStarts + 2) \ ({f.id : f \in frames} \cup {animFrameId}))

Cancelled == {f \in frames : f.id # animFrameId}

\* Concurrent starts are let through.
BadMayStart == TRUE

MayStart == ~startingEmulator

\* startEmulator up to its await.  While another start is under way the call
\* returns at once.
StartEmulator(rom) ==
  /\ starts < MaxStarts
  /\ starts' = starts + 1
  /\ IF MayStart
       THEN /\ startingEmulator' = TRUE
            /\ loopGeneration' = loopGeneration + 1
            /\ frames' = Cancelled /\ animFrameId' = 0
            /\ awaiting' = awaiting \cup {[n |-> starts + 1, rom |-> rom]}
       ELSE UNCHANGED <<startingEmulator, loopGeneration, frames, animFrameId, awaiting>>
  /\ UNCHANGED <<emulator, audioCtx, open>>

\* The module cannot be loaded: the call ends with an exception.
InitFails(c) ==
  /\ c \in awaiting
  /\ awaiting' = awaiting \ {c}
  /\ UNCHANGED <<startingEmulator, loopGeneration, emulator, frames, animFrameId,
                 audioCtx, open, starts>>

\* The constructor rejects the ROM: the call returns.
Rejected(c) ==
  /\ c \in awaiting /\ c.rom \in BadRom
  /\ awaiting' = awaiting \ {c}
  /\ UNCHANGED <<startingEmulator, loopGeneration, emulator, frames, animFrameId,
                 audioCtx, open, starts>>

Accepted(c) == c.rom \notin BadRom

\* The context of the ROM before is not closed.
BadClosed == open

Closed == open \ {audioCtx}

\* The rest of startEmulator: a new emulator, a new audio context (which the
\* browser may refuse) and a game loop of the present generation.
Started(c, audio) ==
  /\ c \in awaiting /\ Accepted(c)
  /\ awaiting' = awaiting \ {c}
  /\ emulator' = c.rom
  /\ audioCtx' = IF audio THEN c.n ELSE 0
  /\ open' = Closed \cup (IF audio THEN {c.n} ELSE {})
  /\ frames' = frames \cup {[id |-> Handle, gen |-> loopGeneration]}
  /\ animFrameId' = Handle
  /\ startingEmulator' = FALSE
  /\ UNCHANGED <<loopGeneration, starts>>

\* gameLoop, called back by the browser.
GameLoop(f) ==
  /\ f \in frames
  /\ IF loopGeneration # f.gen
       THEN frames' = frames \ {f} /\ UNCHANGED animFrameId
       ELSE frames' = (frames \ {f}) \cup {[f EXCEPT !.id = Handle]} /\ animFrameId' = Handle
  /\ UNCHANGED <<startingEmulator, awaiting, loopGeneration, emulator, audioCtx, open, starts>>

\* stopEmulator: the Back link at any time, or Escape.
StopEmulator ==
  /\ frames' = Cancelled /\ animFrameId' = 0
  /\ open' = open \ {audioCtx} /\ audioCtx' = 0
  /\ emulator' = NoRom
  /\ UNCHANGED <<startingEmulator, awaiting, loopGeneration, starts>>

Next ==
  \/ \E rom \in Rom : StartEmulator(rom)
  \/ \E c \in StartCall : InitFails(c) \/ Rejected(c) \/ \E audio \in BOOLEAN : Started(c, audio)
  \/ \E f \in frames : GameLoop(f)
  \/ StopEmulator

Spec == Init /\ [][Next]_vars

-----------------------------------------------------------------------------
(* Properties.                                                             *)

\* Never more than one game loop, and the page holds its handle, so that Stop can
\* cancel it, however starts, stops and animation frames interleave with the
\* await: the guard is what keeps two starts from ending in the same generation
\* (index.html:298-304, 387-391, 453-457).
OneGameLoop == \A f \in frames : f.id = animFrameId

\* No audio context is left running behind the page's back (index.html:338-345, 464).
NoLeakedAudio == open \subseteq {audioCtx}

-----------------------------------------------------------------------------
\* "Prevent concurrent starts" (index.html:298): the guard stands for a start
\* that is under way.
GuardMeansStarting == startingEmulator => awaiting # {}
=============================================================================
