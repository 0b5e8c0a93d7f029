----------------------------- MODULE FrameSlot -----------------------------
(***************************************************************************)
(* The picture of the Phase B page: one framebuffer in shared memory, no   *)
(* lock.  The worker (src/web/emulator-worker.js) copies a frame into it   *)
(* and then stores the frame's number in seq; the main thread              *)
(* (src/web/index-phase-b.html) looks at seq in every animation frame and  *)
(* copies the pixels out when it has changed.  Pixels are plain memory:    *)
(* the two copies may overlap, and a picture may be torn.                  *)
(*                                                                         *)
(* Loading a ROM sets seq back to zero; the main thread hears of it by a   *)
(* message (ready) some time later.                                        *)
(*                                                                         *)
(* Definitions named Bad... are plausible faults, not part of the model.   *)
(***************************************************************************)
EXTENDS Integers

CONSTANTS
  Part,       \* pieces in which the pixels are copied, in any order
  MaxFrames,  \* bound on the frames emulated
  MaxLoads    \* bound on the ROMs loaded

SlotAssumption == Part # {} /\ MaxFrames \in Nat /\ MaxLoads \in Nat

VARIABLES
  seq,          \* fbSeqU32[0]
  pixels,       \* Part -> the frame it is of
  frameSeq,     \* the worker's frame number
  toWrite,      \* parts of the latest frame still to be copied
  published,    \* seq has been stored for the latest frame
  ready,        \* ready messages under way to the main thread
  lastPainted,  \* lastPaintedSeq
  toRead,       \* parts the main thread has yet to copy
  picture,      \* imageData: Part -> the frame it is of
  painting,     \* the main thread is inside paint
  \* history
  loads,
  made,         \* frames emulated so far: the latest one's name
  due           \* the frame in the slot when the main thread looked at seq

vars == <<seq, pixels, frameSeq, toWrite, published, ready, lastPainted, toRead,
          picture, painting, loads, made, due>>
workerVars == <<seq, pixels, frameSeq, toWrite, published, loads, made>>
mainVars   == <<lastPainted, toRead, picture, painting, due>>

Init ==
  /\ seq = 0 /\ frameSeq = 0 /\ lastPainted = 0
  /\ pixels = [p \in Part |-> 0] /\ picture = [p \in Part |-> 0]
  /\ toWrite = {} /\ published = TRUE /\ toRead = {} /\ painting = FALSE
  /\ ready = 0 /\ loads = 0 /\ made = 0 /\ due = 0

-----------------------------------------------------------------------------
(* The worker.                                                             *)

\* handleLoad, after its await.  The loop may be running already.
Load ==
  /\ published /\ loads < MaxLoads
  /\ loads' = loads + 1
  /\ frameSeq' = 0 /\ seq' = 0
  /\ ready' = ready + 1
  /\ UNCHANGED <<pixels, toWrite, published, made, mainVars>>

\* tick: a frame is emulated, its pixels are copied, its number is stored.
EmulateFrame ==
  /\ loads > 0 /\ published /\ made < MaxFrames
  /\ made' = made + 1
  /\ frameSeq' = frameSeq + 1
  /\ toWrite' = Part /\ published' = FALSE
  /\ UNCHANGED <<seq, pixels, ready, loads, mainVars>>

CopyPart(p) ==
  /\ p \in toWrite
  /\ toWrite' = toWrite \ {p}
  /\ pixels' = [pixels EXCEPT ![p] = made]
  /\ UNCHANGED <<seq, frameSeq, published, ready, loads, made, mainVars>>

\* The number is stored while the pixels are still being copied.
BadCopied == ~published

Copied == ~published /\ toWrite = {}

StoreSeq ==
  /\ Copied
  /\ published' = TRUE
  /\ seq' = frameSeq
  /\ UNCHANGED <<pixels, frameSeq, toWrite, ready, loads, made, mainVars>>

-----------------------------------------------------------------------------
(* The main thread.                                                        *)

\* The number painted last is remembered across ROMs.
BadOnReady ==
  /\ ready > 0 /\ ~painting
  /\ ready' = ready - 1
  /\ UNCHANGED <<workerVars, mainVars>>

OnReady ==
  /\ ready > 0 /\ ~painting
  /\ ready' = ready - 1
  /\ lastPainted' = 0
  /\ UNCHANGED <<workerVars, toRead, picture, painting, due>>

\* The frame whose number is in seq.
InSlot == IF published THEN made ELSE made - 1

\* paint: an animation frame in which seq has changed.
Look ==
  /\ ~painting /\ seq # lastPainted
  /\ painting' = TRUE
  /\ lastPainted' = seq
  /\ toRead' = Part
  /\ due' = InSlot
  /\ UNCHANGED <<workerVars, ready, picture>>

ReadPart(p) ==
  /\ p \in toRead
  /\ toRead' = toRead \ {p}
  /\ picture' = [picture EXCEPT ![p] = pixels[p]]
  /\ UNCHANGED <<workerVars, ready, lastPainted, painting, due>>

PutImage ==
  /\ painting /\ toRead = {}
  /\ painting' = FALSE
  /\ UNCHANGED <<workerVars, ready, lastPainted, toRead, picture, due>>

Next ==
  \/ Load \/ EmulateFrame \/ (\E p \in Part : CopyPart(p)) \/ StoreSeq
  \/ OnReady \/ Look \/ (\E p \in Part : ReadPart(p)) \/ PutImage

\* A tick and an animation frame run to their ends, messages are delivered, and
\* the browser keeps asking for animation frames.  Nothing makes the worker tick.
WorkerCopies == (\E p \in Part : CopyPart(p)) \/ StoreSeq
MainCopies   == (\E p \in Part : ReadPart(p)) \/ PutImage

Fairness ==
  /\ WF_vars(WorkerCopies)
  /\ WF_vars(OnReady)
  /\ WF_vars(Look)
  /\ WF_vars(MainCopies)

Spec == Init /\ [][Next]_vars /\ Fairness

-----------------------------------------------------------------------------
(* Properties.                                                             *)

\* A picture may be torn, but forwards only: what is painted for a number is the
\* frame of that number or, in part, a later one, and never an older one
\* (emulator-worker.js:96-106: pixels first, the signal after them).
NeverOlder == painting /\ toRead = {} => \A p \in Part : picture[p] >= due

\* A torn picture is put right and no frame is missed for good: when the worker
\* ticks no more, the screen ends up showing the whole of the latest frame, even
\* if ROMs were loaded and their frames had numbers that were painted before.
\* (A ROM that has yet to make a frame leaves the screen to its predecessor.)
Converges ==
  <>[][~EmulateFrame]_vars => <>[](frameSeq > 0 => \A p \in Part : picture[p] = made)
=============================================================================
