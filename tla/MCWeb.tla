------------------------------- MODULE MCWeb -------------------------------
(* The browser side, one part of it at a time (focus, chosen at the start): *)
(* the audio ring, the framebuffer slot, the main page, the Phase B page.   *)
EXTENDS PhaseB

CONSTANTS
  Slots, Batches, Quanta, MaxAccepted,                         \* AudioRing
  Part, MaxFrames, MaxLoads,                                   \* FrameSlot
  Rom, BadFile, MaxStarts                                      \* PhaseA

VARIABLES
  focus,
  ring, wPos, rPos, writer, reader, main, audio, accepted, popped, since, stale,
  seq, pixels, frameSeq, toWrite, published, ready, lastPainted, toRead, picture,
  painting, loads, made, due,
  startingEmulator, awaiting, loopGeneration, emulatorA, framesA, animFrameId,
  audioCtxA, openA, starts

ringVars  == <<ring, wPos, rPos, writer, reader, main, audio, accepted, popped, since, stale>>
slotVars  == <<seq, pixels, frameSeq, toWrite, published, ready, lastPainted, toRead, picture,
               painting, loads, made, due>>
pageAVars == <<startingEmulator, awaiting, loopGeneration, emulatorA, framesA, animFrameId,
               audioCtxA, openA, starts>>
notSlot   == <<focus, ringVars, pageAVars, vars>>

Ring == INSTANCE AudioRing
Slot == INSTANCE FrameSlot
PageA == INSTANCE PhaseA WITH BadRom <- BadFile, emulator <- emulatorA, frames <- framesA,
                              audioCtx <- audioCtxA, open <- openA

ASSUME WebAssumption == Ring!RingAssumption /\ Slot!SlotAssumption /\ PageA!RomAssumption

WebInit ==
  /\ focus \in {"ring", "slot", "page A", "page B"}
  /\ Ring!Init /\ Slot!Init /\ PageA!Init /\ Init
  /\ focus # "ring" => audio = "running"

SlotDoes(A) == focus = "slot" /\ A /\ UNCHANGED notSlot

WebNext ==
  \/ focus = "ring" /\ Ring!Next /\ UNCHANGED <<focus, slotVars, pageAVars, vars>>
  \/ SlotDoes(Slot!Next)
  \/ focus = "page A" /\ PageA!Next /\ UNCHANGED <<focus, ringVars, slotVars, vars>>
  \/ focus = "page B" /\ Next /\ UNCHANGED <<focus, ringVars, slotVars, pageAVars>>

webVars == <<notSlot, slotVars>>

\* FrameSlot's fairness, of the steps that WebNext lets happen.
WebSpec ==
  /\ WebInit /\ [][WebNext]_webVars
  /\ WF_webVars(SlotDoes(Slot!WorkerCopies)) /\ WF_webVars(SlotDoes(Slot!MainCopies))
  /\ WF_webVars(SlotDoes(Slot!OnReady)) /\ WF_webVars(SlotDoes(Slot!Look))

-----------------------------------------------------------------------------
(* The properties of the parts, stated where the parts are.                *)

\* Only an underrun and the resumption upset the ring
\* (audio-worklet-processor.js:119-124, index-phase-b.html:194-195).
CalmUntilUpset == Ring!CalmUntilUpset
\* The worklet hears the frames the worker accepted since the ring was last upset,
\* each in its turn (audio-worklet-processor.js:66-124).
HearsInOrder == Ring!HearsInOrder
\* The ring implements the bounded queue SampleQueue (emulator-worker.js:42-74).
IsQueue == Ring!IsQueue

\* A picture is torn forwards only (emulator-worker.js:96-106).
NeverOlder == Slot!NeverOlder
\* The screen ends up showing the whole of the latest frame
\* (index-phase-b.html, paint).
Converges == Slot!Converges

\* The main page has never more than one game loop (index.html:298-304).
OneGameLoop == PageA!OneGameLoop
\* Nor an audio context behind its back (index.html:338-345, 464).
NoLeakedAudio == PageA!NoLeakedAudio
=============================================================================
