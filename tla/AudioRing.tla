----------------------------- MODULE AudioRing -----------------------------
(***************************************************************************)
(* The audio path of the Phase B page: a ring of stereo frames in shared   *)
(* memory, written by the emulator worker (src/web/emulator-worker.js) and *)
(* read by the AudioWorklet on the audio thread                            *)
(* (src/web/audio-worklet-processor.js).  The two positions are atomics;   *)
(* the frames are plain memory.  The main thread                           *)
(* (src/web/index-phase-b.html) resets both positions when it resumes a    *)
(* suspended audio context.                                                *)
(*                                                                         *)
(* Positions count stereo frames here, not the i16 samples of the code:    *)
(* every position, batch and read there is even.  A frame is its number in *)
(* the order of acceptance; 0 is memory nobody wrote.                      *)
(*                                                                         *)
(* Definitions named Bad... are plausible faults, not part of the model.   *)
(***************************************************************************)
EXTENDS Integers, Sequences

CONSTANTS
  Slots,        \* stereo frames in the ring (8192)
  Batches,      \* frames one emulated frame may produce
  Quanta,       \* source frames one audio quantum may consume
  MaxAccepted   \* bound on the frames accepted

RingAssumption ==
  /\ Slots \in Nat \ {0, 1}
  /\ Batches \subseteq Nat \ {0} /\ Quanta \subseteq Nat \ {0}
  /\ MaxAccepted \in Nat

Slot == 0..Slots-1
NoFrame == 0

VARIABLES
  ring,     \* Slot -> frame
  wPos,     \* write_pos, advanced by the worker
  rPos,     \* read_pos, advanced by the worklet
  writer,   \* writeAudioToRing: [at, wp, left, next]
  reader,   \* process: [at, wp, rp, take, last, next]
  main,     \* the resume listener: "idle", "write", "read", "done"
  audio,    \* "suspended" or "running"
  \* history
  accepted, \* frames published by the worker
  popped,   \* frames the worklet has moved past
  since,    \* frames accepted when the ring was last upset
  stale     \* frames accepted when the context was resumed

vars == <<ring, wPos, rPos, writer, reader, main, audio, accepted, popped, since,
          stale>>

Init ==
  /\ ring = [s \in Slot |-> NoFrame] /\ wPos = 0 /\ rPos = 0
  /\ writer = [at |-> "idle", wp |-> 0, left |-> 0, next |-> 0]
  /\ reader = [at |-> "idle", wp |-> 0, rp |-> 0, take |-> 0, last |-> 0, next |-> 0]
  /\ main = "idle"
  /\ audio \in {"suspended", "running"}   \* the browser's choice
  /\ accepted = 0 /\ popped = 0 /\ since = 0 /\ stale = 0

mainVars   == <<main, audio, stale>>
readerVars == <<rPos, reader>>
writerVars == <<wPos, writer, accepted, ring>>

Moved(p, n) == (p + n) % Slots

Used(wp, rp) == (wp - rp) % Slots

\* No gap is left to tell a full ring from an empty one.
BadFree(wp, rp) == Slots - Used(wp, rp)

Free(wp, rp) == Slots - Used(wp, rp) - 1

-----------------------------------------------------------------------------
(* What may go wrong.  Nothing in the code keeps the audio thread from     *)
(* consuming more than there is (an underrun: read_pos overtakes write_pos *)
(* and old frames are in the ring again) or the resumption from meeting a  *)
(* worker or a worklet that has loaded the positions and will store new    *)
(* ones.  The ring is calm while the decisions of both sides, on positions *)
(* they loaded earlier, still fit the positions.                           *)

WriterFits ==
  /\ writer.at # "idle" => writer.wp = wPos
  /\ writer.at = "copy" => Used(wPos, rPos) + writer.left < Slots

ReaderFits ==
  /\ reader.at # "idle" => Used(reader.wp, rPos) <= Used(wPos, rPos)
  /\ reader.at = "play" => reader.rp = rPos

Calm == WriterFits /\ ReaderFits

\* The frames accepted so far no longer count, and what is between the positions
\* is taken for unread.
Upset == since' = accepted' /\ popped' = accepted' - Used(wPos', rPos')

\* The worklet moves past n frames.
Pass(n) == IF Calm THEN since' = since /\ popped' = popped + n ELSE Upset

-----------------------------------------------------------------------------
(* The worker: writeAudioToRing at the end of every tick.                  *)

\* write_pos is loaded before read_pos; the context may be reset in between.
LoadWritePos ==
  /\ writer.at = "idle" /\ accepted < MaxAccepted
  /\ \E n \in Batches :
       writer' = [at |-> "loaded", wp |-> wPos, left |-> n, next |-> 0]
  /\ UNCHANGED <<wPos, accepted, ring, readerVars, mainVars>> /\ Pass(0)

\* What does not fit is dropped: the batch is cut down to the free space.
LoadReadPos ==
  /\ writer.at = "loaded"
  /\ LET free == Free(writer.wp, rPos)
     IN  writer' = [writer EXCEPT !.at = "copy",
                      !.left = IF @ <= free THEN @ ELSE free]
  /\ UNCHANGED <<wPos, accepted, ring, readerVars, mainVars>> /\ Pass(0)

CopyFrame ==
  /\ writer.at = "copy" /\ writer.next < writer.left
  /\ ring' = [ring EXCEPT ![Moved(writer.wp, writer.next)] = accepted + writer.next + 1]
  /\ writer' = [writer EXCEPT !.next = @ + 1]
  /\ UNCHANGED <<wPos, accepted, readerVars, mainVars>> /\ Pass(0)

\* The batch is published before it is copied.
BadCopied == writer.at = "copy"

Copied == writer.at = "copy" /\ writer.next = writer.left

StoreWritePos ==
  /\ Copied
  /\ wPos' = Moved(writer.wp, writer.left)
  /\ accepted' = accepted + writer.left
  /\ writer' = [writer EXCEPT !.at = "idle"]
  /\ UNCHANGED <<ring, readerVars, mainVars>> /\ Pass(0)

-----------------------------------------------------------------------------
(* The worklet: process, once per quantum of the audio thread.             *)

LoadPositions ==
  /\ reader.at = "idle" /\ audio = "running"
  /\ reader' = [reader EXCEPT !.at = "loaded", !.wp = wPos]
  /\ UNCHANGED <<rPos, writerVars, mainVars>> /\ Pass(0)

Available(wp, rp) == Used(wp, rp)

\* take: how far resamplePos gets; last: the source index of the last output
\* frame.  Output frames are interpolated between a source frame and the next.
Plan ==
  /\ reader.at = "loaded"
  /\ \E take \in Quanta : \E last \in {take - 1, take} :
       reader' = [reader EXCEPT !.at = "play", !.rp = rPos, !.take = take,
                                !.last = last, !.next = 0]
  /\ UNCHANGED <<rPos, writerVars, mainVars>> /\ Pass(0)

\* A source frame is read if it and its successor are in the ring, silence is
\* output otherwise.
Reading ==
  /\ reader.at = "play" /\ reader.next <= reader.last + 1
  /\ reader.next < Available(reader.wp, reader.rp) /\ Available(reader.wp, reader.rp) > 1

PlayFrame ==
  /\ reader.at = "play" /\ reader.next <= reader.last + 1
  /\ reader' = [reader EXCEPT !.next = @ + 1]
  /\ UNCHANGED <<rPos, writerVars, mainVars>> /\ Pass(0)

\* read_pos is advanced by one frame less than was consumed.
BadConsumed == reader.take - 1

Consumed == reader.take

StoreReadPos ==
  /\ reader.at = "play" /\ reader.next > reader.last + 1
  /\ rPos' = Moved(reader.rp, Consumed)
  /\ reader' = [reader EXCEPT !.at = "idle"]
  /\ UNCHANGED <<writerVars, mainVars>>

\* read_pos moves by what the quantum should have consumed, available or not.
Advance  == StoreReadPos /\ reader.take <= Used(wPos, rPos) /\ Pass(reader.take)
Underrun == StoreReadPos /\ reader.take > Used(wPos, rPos) /\ Upset

-----------------------------------------------------------------------------
(* The main thread: the first key or click resumes a suspended context and *)
(* resets the positions, one after the other, whoever is at work.          *)
(* resume() returns at once; the audio thread starts when it likes.        *)

Resume ==
  /\ main = "idle" /\ audio = "suspended"
  /\ main' = "write"
  /\ stale' = accepted
  /\ UNCHANGED <<audio, writerVars, readerVars>> /\ Pass(0)

ResetWritePos ==
  /\ main = "write" /\ main' = "read"
  /\ wPos' = 0
  /\ UNCHANGED <<writer, accepted, ring, audio, stale, readerVars>> /\ Upset

ResetReadPos ==
  /\ main = "read" /\ main' = "done"
  /\ rPos' = 0
  /\ UNCHANGED <<reader, audio, stale, writerVars>> /\ Upset

AudioStarts ==
  /\ audio = "suspended" /\ main # "idle"
  /\ audio' = "running"
  /\ UNCHANGED <<main, stale, writerVars, readerVars>> /\ Pass(0)

Next ==
  \/ LoadWritePos \/ LoadReadPos \/ CopyFrame \/ StoreWritePos
  \/ LoadPositions \/ Plan \/ PlayFrame \/ Advance \/ Underrun
  \/ Resume \/ ResetWritePos \/ ResetReadPos \/ AudioStarts

Spec == Init /\ [][Next]_vars

-----------------------------------------------------------------------------
(* Properties.                                                             *)

\* Only an underrun (audio-worklet-processor.js:119-124) and the resumption
\* (index-phase-b.html:194-195) upset the ring: otherwise the room and the frames a
\* side found on the positions it loaded are still there when it stores its own.
CalmUntilUpset == [][Calm /\ ~Calm' => Underrun \/ ResetWritePos \/ ResetReadPos]_vars

\* Of the frames accepted since the ring was last upset, the worklet hears each in
\* its turn: none is skipped, repeated, or read while the worker is overwriting it
\* (emulator-worker.js:42-74, audio-worklet-processor.js:66-124).
HearsInOrder ==
  LET due == popped + reader.next + 1
  IN  Reading /\ Calm /\ due > since => ring[Moved(reader.rp, reader.next)] = due

\* What is between the positions, and was accepted since the ring was last upset.
Fresh ==
  LET used == Used(wPos, rPos)
  IN  IF accepted - since < used THEN accepted - since ELSE used

FreshFrames ==
  [i \in 1..Fresh |-> ring[Moved(rPos, Used(wPos, rPos) - Fresh + i - 1)]]

Queue == INSTANCE SampleQueue WITH Capacity <- Slots - 1, queue <- FreshFrames
\* The ring is a bounded queue, which loses what it holds when it is upset: what is
\* between the positions changes only when one of them is stored
\* (emulator-worker.js:42-74, audio-worklet-processor.js:66-124,
\* index-phase-b.html:189-196).
IsQueue == Queue!Spec

\* "Reset ring pointers to flush stale data" (index-phase-b.html:192): when the audio
\* starts, nothing accepted before the resumption is waiting to be heard.
StaleFlushed ==
  main = "done" /\ audio = "suspended" =>
    \A k \in 1..Used(wPos, rPos) : ring[Moved(rPos, k - 1)] \notin 1..stale
=============================================================================
