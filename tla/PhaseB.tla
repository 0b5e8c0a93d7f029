------------------------------- MODULE PhaseB -------------------------------
(***************************************************************************)
(* The life cycle of the Phase B page: the main thread                     *)
(* (src/web/index-phase-b.html) and the emulator worker                    *)
(* (src/web/emulator-worker.js) exchange messages in two queues that keep  *)
(* their order.  A start awaits the bytes of its ROM and the audio module  *)
(* on one side, the WebAssembly module on the other; nothing keeps other   *)
(* starts, Stop or messages from coming in between.                        *)
(*                                                                         *)
(* A start is named by a number, and so are the ROM it brings and the      *)
(* audio context it makes.  Call 1 is the auto-load, under way since the   *)
(* page was loaded; the others are files, which can be picked while the    *)
(* drop zone is shown.  What a tick of the loop does is in AudioRing and   *)
(* FrameSlot.                                                              *)
(*                                                                         *)
(* The browser (contexts, worklet nodes, animation frames) is external.    *)
(*                                                                         *)
(* Definitions named Bad... are plausible faults, not part of the model.   *)
(***************************************************************************)
EXTENDS Integers, Sequences, FiniteSetsExt

CONSTANTS
  Call,      \* starts, 1 to some n
  MaxStops   \* bound on the stops

ASSUME PageAssumption ==
  Call \subseteq Nat \ {0} /\ 1 \in Call /\ MaxStops \in Nat

VARIABLES
  call,      \* Call -> "new", "read" (awaits the ROM's bytes), "await" (in
             \* initAudio) or "done"
  audioCtx,  \* the page's audio context, 0 for null
  open,      \* contexts not closed
  modules,   \* contexts whose worklet module is loaded
  nodes,     \* Call -> worklet nodes of the context, each of them a ring reader
  playing,   \* the canvas is shown, not the drop zone
  frames,    \* requested animation frames of paint, by handle
  raf,       \* rafHandle, 0 for null
  inbox,     \* messages to the worker
  outbox,    \* messages to the main thread
  wired,     \* shared buffers the worker has received
  loading,   \* handleLoad calls suspended in "await init()"
  emulator,  \* the worker's emulator, 0 for null
  looping,   \* loopHandle is not null
  \* history
  stops,     \* stops so far
  latest,    \* the call that sent its ROM last
  patient,   \* every start and stop so far was of a page that had settled
  lost       \* the worker could not load the ROM sent last

mainVars   == <<call, audioCtx, open, modules, nodes, playing, frames, raf, stops, latest,
                patient>>
workerVars == <<wired, loading, emulator, looping, lost>>
vars == <<mainVars, workerVars, inbox, outbox>>

Buffer  == {"audio-ring", "fb-sab"}

Msg(t)  == [type |-> t, rom |-> 0]
Load(c) == [type |-> "load", rom |-> c]

Init ==
  /\ call = [c \in Call |-> IF c = 1 THEN "read" ELSE "new"]
  /\ audioCtx = 0 /\ open = {} /\ modules = {} /\ nodes = [c \in Call |-> 0]
  /\ playing = FALSE /\ frames = {} /\ raf = 0
  /\ inbox = <<>> /\ outbox = <<>>
  /\ wired = {} /\ loading = {} /\ emulator = 0 /\ looping = FALSE
  /\ stops = 0 /\ latest = 0 /\ patient = TRUE /\ lost = FALSE

UnderWay == {c \in Call : call[c] \in {"read", "await"}}

\* Nothing is under way.
Settled ==
  /\ UnderWay = {}
  /\ inbox = <<>> /\ outbox = <<>> /\ loading = {}

-----------------------------------------------------------------------------
(* The main thread.                                                        *)

Handle == Min((1..2 * Cardinality(Call) + 2) \ (frames \cup {raf}))

\* loadFile up to its await; the zone is not looked at again.
PickFile(c) ==
  /\ call[c] = "new" /\ ~playing
  /\ patient' = (patient /\ Settled)
  /\ call' = [call EXCEPT ![c] = "read"]
  /\ UNCHANGED <<audioCtx, open, modules, nodes, playing, frames, raf, stops, latest, inbox,
                 outbox, workerVars>>

\* The file cannot be read, or there is no ROM to load.
Unread(c) ==
  /\ call[c] = "read"
  /\ call' = [call EXCEPT ![c] = "done"]
  /\ UNCHANGED <<audioCtx, open, modules, nodes, playing, frames, raf, stops, latest, patient,
                 inbox, outbox, workerVars>>

\* startEmulator up to the await in initAudio.
StartEmulator(c) ==
  /\ call[c] = "read"
  /\ call' = [call EXCEPT ![c] = "await"]
  /\ audioCtx' = c
  /\ open' = open \cup {c}
  /\ UNCHANGED <<modules, nodes, playing, frames, raf, stops, latest, patient, inbox, outbox,
                 workerVars>>

\* The buffers are sent only by the first call.
BadWiring(c) == IF c = 1 THEN <<Msg("audio-ring"), Msg("fb-sab")>> ELSE <<>>

Wiring(c) == <<Msg("audio-ring"), Msg("fb-sab")>>

\* The end of startEmulator.
SendRom(c) ==
  /\ call' = [call EXCEPT ![c] = "done"]
  /\ playing' = TRUE
  /\ inbox' = inbox \o Wiring(c) \o <<Load(c)>>
  /\ latest' = c /\ lost' = FALSE
  /\ UNCHANGED <<audioCtx, open, frames, raf, stops, patient, outbox, wired, loading, emulator,
                 looping>>

\* There is no new context: the page keeps the one it has, and awaits nothing.
StartSilent(c) ==
  /\ call[c] = "read"
  /\ SendRom(c)
  /\ UNCHANGED <<modules, nodes>>

\* The module is loaded, or not, into the context of the call; the node is made
\* in the page's context, which may be another one by now, without the module,
\* or none at all.  Every failure is caught, and the ROM is sent in any case.
AudioSettled(c, ok) ==
  /\ call[c] = "await"
  /\ SendRom(c)
  /\ modules' = IF ok THEN modules \cup {c} ELSE modules
  /\ nodes' = IF ok /\ audioCtx \in modules' THEN [nodes EXCEPT ![audioCtx] = @ + 1] ELSE nodes

OnReady ==
  /\ outbox # <<>>
  /\ outbox' = Tail(outbox)
  /\ inbox' = Append(inbox, Msg("start"))
  /\ frames' = frames \cup {Handle} /\ raf' = Handle
  /\ UNCHANGED <<call, audioCtx, open, modules, nodes, playing, stops, latest, patient,
                 workerVars>>

Paint(f) ==
  /\ f \in frames
  /\ frames' = (frames \ {f}) \cup {Handle} /\ raf' = Handle
  /\ UNCHANGED <<call, audioCtx, open, modules, nodes, playing, stops, latest, patient, inbox,
                 outbox, workerVars>>

\* The context is forgotten, not closed.
BadClosed == open

Closed == open \ {audioCtx}

\* Escape or Back, at any time.
StopEmulator ==
  /\ stops < MaxStops
  /\ patient' = (patient /\ Settled /\ playing)
  /\ stops' = stops + 1
  /\ inbox' = Append(inbox, Msg("stop"))
  /\ frames' = frames \ {raf} /\ raf' = 0
  /\ open' = Closed /\ audioCtx' = 0
  /\ playing' = FALSE
  /\ UNCHANGED <<call, modules, nodes, latest, outbox, workerVars>>

-----------------------------------------------------------------------------
(* The worker.                                                             *)

\* A message is handled; the handler of a ROM stops at its await.
Receive ==
  /\ inbox # <<>>
  /\ inbox' = Tail(inbox)
  /\ LET m == Head(inbox)
     IN  /\ wired' = IF m.type \in Buffer THEN wired \cup {m.type} ELSE wired
         /\ loading' = IF m.type = "load" THEN loading \cup {m.rom} ELSE loading
         /\ looping' = CASE m.type = "start" -> looping \/ emulator # 0
                         [] m.type = "stop"  -> FALSE
                         [] OTHER            -> looping
  /\ UNCHANGED <<emulator, lost, outbox, mainVars>>

\* The module is ready for one of the loads that wait for it.
Loaded(c) ==
  /\ c \in loading
  /\ loading' = loading \ {c}
  /\ emulator' = c /\ outbox' = Append(outbox, "ready")
  /\ UNCHANGED <<wired, looping, lost, inbox, mainVars>>

\* There is no module, or the constructor throws: nobody is told, and the worker
\* keeps the emulator it has.
LoadFails(c) ==
  /\ c \in loading
  /\ loading' = loading \ {c}
  /\ lost' = (lost \/ c = latest)
  /\ UNCHANGED <<wired, emulator, looping, inbox, outbox, mainVars>>

Next ==
  \/ \E c \in Call :
       \/ PickFile(c) \/ Unread(c) \/ StartEmulator(c) \/ StartSilent(c)
       \/ \E ok \in BOOLEAN : AudioSettled(c, ok)
       \/ Loaded(c) \/ LoadFails(c)
  \/ OnReady \/ StopEmulator \/ Receive
  \/ \E f \in frames : Paint(f)

Spec == Init /\ [][Next]_vars

-----------------------------------------------------------------------------
(* Properties.                                                             *)

\* The loop never ticks before both shared buffers have arrived, in whatever
\* order loads, starts and stops are settled: tick's fallback is unreachable
\* (emulator-worker.js:102-104).
WiredBeforeTick == looping => wired = Buffer

\* The worklet nodes of the open contexts.
RingReaders == UNION {{c} \X (1..nodes[c]) : c \in open}

\* If the user waits for every start and stop to settle, page and worker agree:
\* the worker runs the latest ROM, if it can be loaded, exactly while the canvas is
\* shown, with one paint loop, which Stop can cancel; no audio context outlives its
\* ROM, and the ring has one reader at most.  (Of an impatient user none of this
\* holds: a Stop overtakes a load, and overlapping starts put two readers on one
\* context.)  (index-phase-b.html:166-187, 280-315, emulator-worker.js:117-160)
Agreement ==
  Settled /\ patient =>
    /\ looping = (playing /\ ~lost)
    /\ looping => emulator = latest
    /\ frames = IF looping THEN {raf} ELSE {}
    /\ open = IF playing THEN {audioCtx} \ {0} ELSE {}
    /\ \A r, s \in RingReaders : r = s
=============================================================================
