------------------------------ MODULE WebProofs -----------------------------
(***************************************************************************)
(* The parts of the browser side, alone and put together, each of them for *)
(* constants of any size: the page and the worker of Phase B, the          *)
(* framebuffer slot, the main page and the audio ring.                     *)
(*                                                                         *)
(* The page and the worker.  The worker's loop never ticks before both     *)
(* shared buffers have arrived: the queue to the worker keeps its order    *)
(* and every start sends the buffers before its ROM.  So each ROM in the   *)
(* queue comes after both buffers (QueueInv), a ROM that is being loaded,  *)
(* or has been, was received after them, and a loop has an emulator        *)
(* (WiredInv).  And a patient user's page and worker agree whenever they   *)
(* have settled.  Agreement speaks of settled states only; between them    *)
(* such a page goes through the stages of one start or one stop, each of   *)
(* which has its message or its call in flight (StageInv).                 *)
(*                                                                         *)
(* The slot.  No picture is older than its number.  Frames are numbered in *)
(* order, and every part of the slot holds at least the frame whose number *)
(* is in seq (CopiedInv).  The main thread notes that frame when it looks  *)
(* (due); what the slot holds only grows from then on, and so what has     *)
(* been read is at least as new (PictureInv).                              *)
(*                                                                         *)
(* The main page.  It never has two game loops, nor an audio context it    *)
(* has lost sight of.  OneGameLoop says of each requested animation frame  *)
(* that the page holds its handle.  It is not inductive: two requests      *)
(* could share the handle, and a start that ends could find a loop         *)
(* running.  The guard excludes both: while a start is under way there is  *)
(* only one, and no loop.                                                  *)
(*                                                                         *)
(* The ring.  What AudioRingProofs proves of the ring alone holds of the   *)
(* ring among the others.                                                  *)
(***************************************************************************)
EXTENDS MCWeb, SequenceTheorems, TLAPS

-----------------------------------------------------------------------------
(* The page and the worker of Phase B: the buffers come first.             *)

MsgType == Buffer \cup {"load", "start", "stop"}
Message == [type : MsgType, rom : {0} \cup Call]

\* Message i of q comes after message b.
After(q, b, i) == \E j \in 1..i-1 : q[j].type = b

\* A ROM in the queue comes after each buffer that has not been received.
QueueInv ==
  /\ inbox \in Seq(Message)
  /\ \A i \in 1..Len(inbox) : inbox[i].type = "load" =>
       \A b \in Buffer : b \in wired \/ After(inbox, b, i)

WiredInv ==
  /\ wired \subseteq Buffer
  /\ loading # {} \/ emulator # 0 \/ looping => Buffer \subseteq wired

WorkerIInv == QueueInv /\ WiredInv

USE DEF Buffer

\* The queue is empty and nothing has been loaded.
LEMMA InitWorker == Init => WorkerIInv
BY DEF Init, WorkerIInv, QueueInv, WiredInv

\* What the page sends.
LEMMA Messages ==
  /\ \A t \in MsgType : Msg(t) \in Message /\ Msg(t).type = t
  /\ \A c \in Call : Load(c) \in Message /\ Load(c).type = "load"
<1>1. ASSUME NEW t \in MsgType PROVE Msg(t) \in Message
  BY <1>1 DEF Msg, Message
<1>2. ASSUME NEW t \in MsgType PROVE Msg(t).type = t
  BY DEF Msg
<1>3. ASSUME NEW c \in Call PROVE Load(c) \in Message
  BY DEF Load, Message, MsgType
<1>4. ASSUME NEW c \in Call PROVE Load(c).type = "load"
  BY DEF Load
<1> QED
  BY <1>1, <1>2, <1>3, <1>4

\* A message that is not a ROM may be sent at any time.
LEMMA SendWorker ==
  ASSUME QueueInv, NEW m \in Message, m.type # "load", inbox' = Append(inbox, m), wired' = wired
  PROVE  QueueInv'
BY DEF QueueInv, After, Message

\* A start sends its ROM after both buffers.
LEMMA LoadWorker ==
  ASSUME QueueInv, NEW c \in Call, inbox' = inbox \o Wiring(c) \o <<Load(c)>>, wired' = wired
  PROVE  QueueInv'
<1> DEFINE n == Len(inbox)
<1>1. inbox \in Seq(Message) /\ n \in Nat
  BY DEF QueueInv
<1>2. /\ Msg("audio-ring") \in Message /\ Msg("fb-sab") \in Message /\ Load(c) \in Message
      /\ Msg("audio-ring").type = "audio-ring" /\ Msg("fb-sab").type = "fb-sab"
  BY Messages DEF MsgType
<1>3. inbox' \in Seq(Message)
  BY <1>1, <1>2 DEF Wiring
<1>4. /\ Len(inbox') = n + 3
      /\ \A i \in 1..n : inbox'[i] = inbox[i]
      /\ inbox'[n + 1] = Msg("audio-ring") /\ inbox'[n + 2] = Msg("fb-sab")
  BY <1>1, <1>2 DEF Wiring
<1>5. ASSUME NEW i \in 1..Len(inbox'), inbox'[i].type = "load", NEW b \in Buffer
      PROVE  b \in wired' \/ After(inbox', b, i)
  <2>1. CASE i \in 1..n
    <3>1. inbox[i].type = "load" /\ i \in 1..Len(inbox)
      BY <1>1, <1>4, <1>5, <2>1
    <3>2. After(inbox, b, i) => After(inbox', b, i)
      BY <1>1, <1>4, <2>1 DEF After
    <3> QED
      BY <3>1, <3>2 DEF QueueInv
  <2>2. CASE i = n + 1 \/ i = n + 2
    BY <1>2, <1>4, <1>5, <2>2
  <2>3. CASE i = n + 3
    <3>1. n + 1 \in 1..i-1 /\ n + 2 \in 1..i-1
      BY <1>1, <2>3
    <3>2. inbox'[n + 1].type = b \/ inbox'[n + 2].type = b
      BY <1>2, <1>4
    <3> QED
      BY <3>1, <3>2 DEF After
  <2> QED
    BY <1>1, <1>4, <2>1, <2>2, <2>3
<1> QED
  BY <1>3, <1>5 DEF QueueInv

\* Every event and message keeps the invariant.
LEMMA NextWorker == WorkerIInv /\ [Next]_vars => WorkerIInv'
<1> SUFFICES ASSUME WorkerIInv, [Next]_vars PROVE WorkerIInv'
  OBVIOUS
<1> USE DEF WorkerIInv, workerVars, mainVars
<1>1. ASSUME NEW c \in Call, PickFile(c) \/ Unread(c) \/ StartEmulator(c) PROVE WorkerIInv'
  <2>1. UNCHANGED <<inbox, workerVars>>
    BY <1>1 DEF PickFile, Unread, StartEmulator
  <2> QED
    BY <2>1 DEF QueueInv, WiredInv, After
<1>2. ASSUME NEW c \in Call, NEW ok \in BOOLEAN, StartSilent(c) \/ AudioSettled(c, ok)
      PROVE  WorkerIInv'
  <2>1. SendRom(c)
    BY <1>2 DEF StartSilent, AudioSettled
  <2> QED
    BY <2>1, LoadWorker DEF SendRom, WiredInv
<1>3. CASE OnReady
  BY <1>3, SendWorker, Messages DEF OnReady, MsgType, WiredInv
<1>4. CASE StopEmulator
  BY <1>4, SendWorker, Messages DEF StopEmulator, MsgType, WiredInv
\* The first message leaves the queue; if it is a buffer, the worker has it now.
<1>5. CASE Receive
  <2> DEFINE m == Head(inbox)
  <2>1. /\ inbox \in Seq(Message) /\ inbox # <<>> /\ inbox' = Tail(inbox)
        /\ m = inbox[1] /\ m \in Message
    BY <1>5 DEF Receive, QueueInv
  <2>2. wired \subseteq wired' /\ wired' \subseteq Buffer
    BY <1>5 DEF Receive, WiredInv
  <2>3. inbox' \in Seq(Message)
    BY <2>1
  <2>4. ASSUME NEW i \in 1..Len(inbox'), inbox'[i].type = "load", NEW b \in Buffer
        PROVE  b \in wired' \/ After(inbox', b, i)
    <3>1. i + 1 \in 1..Len(inbox) /\ inbox[i + 1] = inbox'[i]
      BY <2>1, <2>4
    <3>2. CASE b \in wired
      BY <2>2, <3>2
    <3>3. CASE After(inbox, b, i + 1)
      <4>1. PICK j \in 1..i : inbox[j].type = b
        BY <3>3 DEF After
      <4>2. CASE j = 1
        BY <1>5, <2>1, <4>1, <4>2 DEF Receive
      <4>3. CASE j # 1
        <5>1. j - 1 \in 1..i-1 /\ inbox'[j - 1] = inbox[j]
          BY <2>1, <3>1, <4>3
        <5> QED
          BY <4>1, <5>1 DEF After
      <4> QED
        BY <4>2, <4>3
    <3> QED
      BY <2>4, <3>1, <3>2, <3>3 DEF QueueInv
  <2>5. WiredInv'
    <3>1. CASE m.type = "load"
      <4>1. Buffer \subseteq wired
        BY <2>1, <3>1 DEF QueueInv, After
      <4> QED
        BY <2>2, <4>1 DEF WiredInv
    <3>2. CASE m.type # "load"
      BY <1>5, <2>2, <3>2 DEF Receive, WiredInv
    <3> QED
      BY <3>1, <3>2
  <2> QED
    BY <2>3, <2>4, <2>5 DEF QueueInv
<1>6. ASSUME NEW c \in Call, Loaded(c) \/ LoadFails(c) PROVE WorkerIInv'
  BY <1>6 DEF Loaded, LoadFails, QueueInv, WiredInv, After
<1>7. ASSUME NEW f \in frames, Paint(f) PROVE WorkerIInv'
  BY <1>7 DEF Paint, QueueInv, WiredInv, After
<1>8. CASE UNCHANGED vars
  BY <1>8 DEF vars, QueueInv, WiredInv, After
<1> QED
  BY <1>1, <1>2, <1>3, <1>4, <1>5, <1>6, <1>7, <1>8 DEF Next

\* The invariant holds of every behaviour.
THEOREM WorkerInvariant == Spec => []WorkerIInv
BY InitWorker, NextWorker, PTL DEF Spec

\* The loop never ticks before both shared buffers have arrived
\* (emulator-worker.js:102-104).
THEOREM WiredBeforeTickHolds == Spec => []WiredBeforeTick
<1>1. WorkerIInv => WiredBeforeTick
  BY DEF WorkerIInv, WiredInv, WiredBeforeTick
<1> QED
  BY WorkerInvariant, <1>1, PTL

-----------------------------------------------------------------------------
(* Agreement.                                                              *)

\* A call that has not come to initAudio has no context.
CallInv ==
  /\ call \in [Call -> {"new", "read", "await", "done"}] /\ nodes \in [Call -> Nat]
  /\ audioCtx \in {0} \cup Call /\ modules \subseteq Call
  /\ \A c \in Call : call[c] \in {"new", "read"} => nodes[c] = 0 /\ audioCtx # c

\* c is the only call under way.
Only(c) == \A d \in Call : call[d] \in {"read", "await"} => d = c

\* Nothing runs, nothing is shown.
Off == playing = FALSE /\ looping = FALSE /\ frames = {}

NoneOpen == open = {} /\ audioCtx = 0

Idle == Off /\ NoneOpen /\ Settled

\* A file, or the auto-load, is being read.
Reading ==
  /\ Off /\ NoneOpen /\ inbox = <<>> /\ outbox = <<>> /\ loading = {}
  /\ \E c \in Call : call[c] = "read" /\ Only(c)

Opening ==
  /\ Off /\ open = {audioCtx} /\ inbox = <<>> /\ outbox = <<>> /\ loading = {}
  /\ audioCtx \in Call /\ call[audioCtx] = "await" /\ nodes[audioCtx] = 0
  /\ Only(audioCtx)

\* The audio is there, with one node at most, or there is none, and the ROM is on
\* its way.
On ==
  /\ playing = TRUE /\ UnderWay = {} /\ latest \in Call
  /\ open = {audioCtx} \ {0}
  /\ audioCtx \in Call => nodes[audioCtx] <= 1

\* What is left of the messages of a start as the worker takes them.
Sending ==
  /\ On /\ looping = FALSE /\ frames = {} /\ outbox = <<>> /\ loading = {}
  /\ inbox \in {<<Msg("audio-ring"), Msg("fb-sab"), Load(latest)>>,
               <<Msg("fb-sab"), Load(latest)>>, <<Load(latest)>>}
  /\ lost = FALSE

Loading ==
  /\ On /\ looping = FALSE /\ frames = {} /\ inbox = <<>> /\ outbox = <<>> /\ loading = {latest}
  /\ lost = FALSE

Running == emulator = latest /\ lost = FALSE

Announced ==
  On /\ Running /\ looping = FALSE /\ frames = {} /\ inbox = <<>> /\ outbox = <<"ready">> /\ loading = {}

Starting ==
  /\ On /\ Running /\ looping = FALSE /\ frames = {raf}
  /\ inbox = <<Msg("start")>> /\ outbox = <<>> /\ loading = {}

Playing == On /\ Running /\ looping = TRUE /\ frames = {raf} /\ Settled

\* The worker could not load the ROM.
Failed == On /\ lost = TRUE /\ looping = FALSE /\ frames = {} /\ Settled

Stopping ==
  /\ playing = FALSE /\ frames = {} /\ NoneOpen /\ UnderWay = {}
  /\ inbox = <<Msg("stop")>> /\ outbox = <<>> /\ loading = {}

Stage == Idle \/ Reading \/ Opening \/ Sending \/ Loading \/ Announced \/ Starting \/ Playing
         \/ Failed \/ Stopping

StageInv == patient => Stage

\* The messages of a start, sent into an empty queue.
LEMMA SentIs ==
  ASSUME NEW c \in Call
  PROVE  <<>> \o Wiring(c) \o <<Load(c)>> = <<Msg("audio-ring"), Msg("fb-sab"), Load(c)>>
<1> DEFINE a == Msg("audio-ring")
           b == Msg("fb-sab")
           d == Load(c)
           S == {a, b, d}
<1> HIDE DEF a, b, d
<1>1. a \in S /\ b \in S /\ d \in S
  OBVIOUS
<1> HIDE DEF S
<1>2. <<>> \in Seq(S) /\ <<a, b>> \in Seq(S) /\ <<d>> \in Seq(S) /\ <<a, b, d>> \in Seq(S)
  BY <1>1
<1>3. <<>> \o <<a, b>> = <<a, b>>
  BY <1>2, ConcatEmptySeq
<1>4. <<a, b>> \o <<d>> \in Seq(S) /\ Len(<<a, b>> \o <<d>>) = 3
  BY <1>2, ConcatProperties
<1>5. \A i \in 1..3 : (<<a, b>> \o <<d>>)[i] = <<a, b, d>>[i]
  BY <1>2, ConcatProperties
<1>6. <<a, b>> \o <<d>> = <<a, b, d>>
  BY <1>2, <1>4, <1>5, SeqEqual
<1> QED
  BY <1>3, <1>6 DEF Wiring, a, b, d

\* Taking the first message of a short queue.
LEMMA Taken ==
  ASSUME NEW a, NEW b, NEW c
  PROVE  /\ Tail(<<a, b, c>>) = <<b, c>> /\ Tail(<<b, c>>) = <<c>> /\ Tail(<<c>>) = <<>>
         /\ Head(<<a, b, c>>) = a /\ Head(<<b, c>>) = b /\ Head(<<c>>) = c
         /\ <<a, b, c>> # <<>> /\ <<b, c>> # <<>> /\ <<c>> # <<>>
OBVIOUS

\* When nothing is under way, the page is off, playing, or has a ROM it cannot play.
LEMMA SettledStage == Stage /\ Settled => Idle \/ Playing \/ Failed
<1>1. Settled => ~Reading /\ ~Opening
  BY DEF Settled, UnderWay, Reading, Opening
<1> QED
  BY <1>1, Taken DEF Stage, Settled, Sending, On, Loading, Announced, Starting, Stopping

\* The stages in which a message waits for the worker.
LEMMA PostedStage == Stage /\ inbox # <<>> => Sending \/ Starting \/ Stopping
BY DEF Stage, Settled, Idle, Reading, Opening, Loading, Announced, Playing, Failed

\* Who is under way.
LEMMA UnderWayIs ==
  ASSUME Stage
  PROVE  /\ \A c \in Call : call[c] = "read" => Reading
         /\ \A c \in Call : call[c] = "await" => Opening
BY DEF UnderWay, Only, Stage, Settled, Idle, Reading, Opening, Sending, Loading, Announced,
       Starting, Playing, Failed, Stopping, On

\* The page is being read for the auto-load.
LEMMA InitStage == Init => CallInv /\ StageInv
<1> SUFFICES ASSUME Init PROVE CallInv /\ Reading
  BY DEF StageInv, Stage
<1>1. call \in [Call -> {"new", "read", "await", "done"}]
  BY DEF Init
<1>2. CallInv
  BY <1>1, PageAssumption DEF Init, CallInv
<1>3. call[1] = "read" /\ Only(1) /\ 1 \in Call
  BY PageAssumption DEF Init, Only
<1>4. Reading
  BY <1>3 DEF Init, Reading, Off, NoneOpen
<1> QED
  BY <1>2, <1>4

\* A call's context is made when it begins and gets its nodes later.
LEMMA NextCall == CallInv /\ [Next]_vars => CallInv'
<1> SUFFICES ASSUME CallInv, [Next]_vars PROVE CallInv'
  OBVIOUS
<1> USE PageAssumption DEF CallInv, workerVars, mainVars
<1>1. ASSUME NEW c \in Call, PickFile(c) \/ Unread(c) \/ StartEmulator(c) PROVE CallInv'
  BY <1>1 DEF PickFile, Unread, StartEmulator
<1>2. ASSUME NEW c \in Call, NEW ok \in BOOLEAN, StartSilent(c) \/ AudioSettled(c, ok) PROVE CallInv'
  <2>1. /\ call' = [call EXCEPT ![c] = "done"] /\ audioCtx' = audioCtx
        /\ modules' \subseteq Call
    BY <1>2 DEF StartSilent, AudioSettled, SendRom
  <2>2. \/ nodes' = nodes
        \/ audioCtx \in Call /\ nodes' = [nodes EXCEPT ![audioCtx] = @ + 1]
    BY <1>2, <2>1 DEF StartSilent, AudioSettled
  <2> QED
    BY <2>1, <2>2
<1>3. CASE OnReady \/ StopEmulator \/ Receive
  BY <1>3 DEF OnReady, StopEmulator, Receive
<1>4. ASSUME NEW c \in Call, Loaded(c) \/ LoadFails(c) PROVE CallInv'
  BY <1>4 DEF Loaded, LoadFails
<1>5. ASSUME NEW f \in frames, Paint(f) PROVE CallInv'
  BY <1>5 DEF Paint
<1>6. CASE UNCHANGED vars
  BY <1>6 DEF vars
<1> QED
  BY <1>1, <1>2, <1>3, <1>4, <1>5, <1>6 DEF Next

\* Every step of a patient user's page leads to the next stage, or stays in one.
LEMMA NextStage == CallInv /\ StageInv /\ [Next]_vars => StageInv'
<1> SUFFICES ASSUME CallInv, StageInv, [Next]_vars, patient' PROVE Stage'
  BY DEF StageInv
<1> USE DEF workerVars, mainVars
\* A file is picked when everything is quiet and the drop zone is shown: only Idle is so.
<1>1. ASSUME NEW c \in Call, PickFile(c) PROVE Stage'
  <2>1. Idle
    BY <1>1, SettledStage DEF PickFile, StageInv, Playing, Failed, On
  <2>2. Only(c)'
    BY <1>1, <2>1 DEF PickFile, Idle, Settled, UnderWay, Only, CallInv
  <2>3. call'[c] = "read"
    BY <1>1 DEF PickFile, CallInv
  <2>4. Reading'
    BY <1>1, <2>1, <2>2, <2>3 DEF PickFile, Reading, Idle, Off, NoneOpen, Settled
  <2> QED
    BY <2>4 DEF Stage
<1>9. ASSUME NEW c \in Call, call[c] = "read", patient PROVE Reading /\ Only(c)
  BY <1>9, UnderWayIs DEF StageInv, Reading, Only
<1>10. ASSUME NEW c \in Call, Unread(c) PROVE Stage'
  <2>1. Reading /\ Only(c)
    BY <1>9, <1>10 DEF Unread
  <2>2. UnderWay' = {}
    BY <1>10, <2>1 DEF Unread, Only, UnderWay, CallInv
  <2>3. Idle'
    BY <1>10, <2>1, <2>2 DEF Unread, Reading, Off, NoneOpen, Idle, Settled
  <2> QED
    BY <2>3 DEF Stage
<1>11. ASSUME NEW c \in Call, StartEmulator(c) PROVE Stage'
  <2>1. Reading /\ Only(c)
    BY <1>9, <1>11 DEF StartEmulator
  <2>2. Only(c)' /\ call'[c] = "await" /\ nodes[c] = 0
    BY <1>11, <2>1 DEF StartEmulator, Only, CallInv
  <2>3. Opening'
    BY <1>11, <2>1, <2>2 DEF StartEmulator, Opening, Reading, Off, NoneOpen
  <2> QED
    BY <2>3 DEF Stage
\* A ROM that the only call under way sends.
<1>12. ASSUME NEW c \in Call, SendRom(c), Only(c), Off, inbox = <<>>, outbox = <<>>, loading = {},
              open = {audioCtx} \ {0}, audioCtx \in Call => nodes'[audioCtx] <= 1
       PROVE  Stage'
  <2>1. inbox' = <<Msg("audio-ring"), Msg("fb-sab"), Load(latest')>>
    BY <1>12, SentIs DEF SendRom
  <2>2. UnderWay' = {}
    BY <1>12 DEF SendRom, Only, UnderWay, CallInv
  <2>3. On'
    BY <1>12, <2>2 DEF SendRom, On
  <2>4. Sending'
    BY <1>12, <2>1, <2>3 DEF SendRom, Off, Sending
  <2> QED
    BY <2>4 DEF Stage
<1>13. ASSUME NEW c \in Call, StartSilent(c) PROVE Stage'
  <2>1. Reading /\ Only(c)
    BY <1>9, <1>13 DEF StartSilent, SendRom
  <2>2. audioCtx \notin Call /\ open = {audioCtx} \ {0}
    BY <2>1, PageAssumption DEF Reading, NoneOpen
  <2> QED
    BY <1>12, <1>13, <2>1, <2>2 DEF StartSilent, Reading
\* The only call that awaits is the one whose context is open.
<1>2. ASSUME NEW c \in Call, NEW ok \in BOOLEAN, AudioSettled(c, ok) PROVE Stage'
  <2>1. Opening /\ c = audioCtx
    BY <1>2, UnderWayIs DEF AudioSettled, SendRom, StageInv, Opening, Only
  <2>2. nodes'[audioCtx] <= 1
    BY <1>2, <2>1 DEF AudioSettled, Opening, CallInv
  <2>3. open = {audioCtx} \ {0}
    BY <2>1, PageAssumption DEF Opening
  <2> QED
    BY <1>2, <1>12, <2>1, <2>2, <2>3 DEF AudioSettled, Opening
<1>3. CASE OnReady
  <2>1. Announced
    BY <1>3 DEF OnReady, StageInv, Stage, Settled, Idle, Reading, Opening, Sending, Loading, Announced,
                Starting, Playing, Failed, Stopping
  <2>2. On' /\ Running'
    BY <1>3, <2>1 DEF OnReady, Announced, On, UnderWay, Running
  <2>3. Starting'
    BY <1>3, <2>1, <2>2 DEF OnReady, Announced, Starting
  <2> QED
    BY <2>3 DEF Stage
\* A stop when everything is quiet and the canvas is shown: Playing or Failed.
<1>4. CASE StopEmulator
  <2>1. Playing \/ Failed
    BY <1>4, SettledStage DEF StopEmulator, StageInv, Idle, Off
  <2>2. inbox' = <<Msg("stop")>>
    <3>1. \A m : Append(<<>>, m) = <<m>>
      OBVIOUS
    <3> QED
      BY <1>4, <2>1, <3>1 DEF StopEmulator, Playing, Failed, Settled
  <2>3. frames' = {} /\ NoneOpen' /\ UnderWay' = {}
    BY <1>4, <2>1 DEF StopEmulator, Playing, Failed, On, UnderWay, NoneOpen, Closed
  <2>4. Stopping'
    BY <1>4, <2>1, <2>2, <2>3 DEF StopEmulator, Playing, Failed, Settled, Stopping
  <2> QED
    BY <2>4 DEF Stage
<1>5. CASE Receive
  <2>1. Sending \/ Starting \/ Stopping
    BY <1>5, PostedStage DEF Receive, StageInv
  <2>2. CASE Sending
    <3>1. On' /\ latest \in Call /\ latest' = latest
      BY <1>5, <2>2 DEF Receive, Sending, On, UnderWay
    <3>2. CASE inbox # <<Load(latest)>>
      <4>1. /\ Head(inbox) \in {Msg("audio-ring"), Msg("fb-sab")}
            /\ Tail(inbox) \in {<<Msg("fb-sab"), Load(latest)>>, <<Load(latest)>>}
        <5> DEFINE a == Msg("audio-ring")
                   b == Msg("fb-sab")
                   c == Load(latest)
        <5> HIDE DEF a, b, c
        <5>1. inbox = <<a, b, c>> \/ inbox = <<b, c>>
          BY <2>2, <3>2 DEF Sending, a, b, c
        <5>2. Head(inbox) \in {a, b} /\ Tail(inbox) \in {<<b, c>>, <<c>>}
          <6>1. /\ Head(<<a, b, c>>) = a /\ Tail(<<a, b, c>>) = <<b, c>>
                /\ Head(<<b, c>>) = b /\ Tail(<<b, c>>) = <<c>>
            BY Taken
          <6> QED
            BY <5>1, <6>1
        <5> QED
          BY <5>2 DEF a, b, c
      <4>2. looping' = looping /\ loading' = loading
        <5>1. Head(inbox).type \in Buffer
          BY <4>1 DEF Msg
        <5> QED
          BY <1>5, <5>1 DEF Receive
      <4>3. Sending'
        BY <1>5, <2>2, <3>1, <4>1, <4>2 DEF Sending, Receive
      <4> QED
        BY <4>3 DEF Stage
    <3>3. CASE inbox = <<Load(latest)>>
      <4>1. Head(inbox) = Load(latest) /\ Tail(inbox) = <<>>
        BY <3>3, Taken
      <4>2. looping' = looping /\ loading' = loading \cup {latest}
        <5>1. Head(inbox).type = "load" /\ Head(inbox).rom = latest
          BY <4>1 DEF Load
        <5> QED
          BY <1>5, <5>1 DEF Receive
      <4>3. Loading'
        BY <1>5, <2>2, <3>1, <4>1, <4>2 DEF Loading, Sending, Receive
      <4> QED
        BY <4>3 DEF Stage
    <3> QED
      BY <3>2, <3>3
  <2>3. CASE Starting
    <3>1. Head(inbox).type = "start" /\ Tail(inbox) = <<>>
      BY <2>3, Taken DEF Starting, Msg
    <3>2. inbox' = <<>> /\ looping' = TRUE /\ loading' = loading
      BY <1>5, <2>3, <3>1, PageAssumption DEF Receive, Running, Starting, On
    <3>3. Playing'
      BY <1>5, <2>3, <3>2 DEF Receive, Starting, Playing, On, UnderWay, Running, Settled
    <3> QED
      BY <3>3 DEF Stage
  <2>4. CASE Stopping
    <3>1. Head(inbox).type = "stop" /\ Tail(inbox) = <<>>
      BY <2>4, Taken DEF Stopping, Msg
    <3>2. inbox' = <<>> /\ looping' = FALSE /\ loading' = loading
      BY <1>5, <2>4, <3>1 DEF Receive, Stopping
    <3>3. Idle'
      BY <1>5, <2>4, <3>2 DEF Receive, Stopping, Idle, Off, NoneOpen, Settled, UnderWay
    <3> QED
      BY <3>3 DEF Stage
  <2> QED
    BY <2>1, <2>2, <2>3, <2>4
<1>14. ASSUME NEW c \in Call, c \in loading, patient PROVE Loading /\ c = latest
  BY <1>14 DEF StageInv, Stage, Settled, Idle, Reading, Opening, Sending, Loading, Announced,
               Starting, Playing, Failed, Stopping
<1>6. ASSUME NEW c \in Call, Loaded(c) PROVE Stage'
  <2>1. Loading /\ c = latest
    BY <1>6, <1>14 DEF Loaded
  <2>2. On'
    BY <1>6, <2>1 DEF Loaded, Loading, On, UnderWay
  <2>3. outbox' = <<"ready">>
    <3>1. \A m : Append(<<>>, m) = <<m>>
      OBVIOUS
    <3> QED
      BY <1>6, <2>1, <3>1 DEF Loaded, Loading
  <2>4. Announced'
    BY <1>6, <2>1, <2>2, <2>3 DEF Loaded, Loading, Announced, Running
  <2> QED
    BY <2>4 DEF Stage
<1>15. ASSUME NEW c \in Call, LoadFails(c) PROVE Stage'
  <2>1. Loading /\ c = latest
    BY <1>14, <1>15 DEF LoadFails
  <2>2. On' /\ lost' = TRUE
    BY <1>15, <2>1 DEF LoadFails, Loading, On, UnderWay
  <2>3. Failed'
    BY <1>15, <2>1, <2>2 DEF LoadFails, Loading, Failed, Settled, On, UnderWay
  <2> QED
    BY <2>3 DEF Stage
\* The one paint loop asks for its next frame.
<1>7. ASSUME NEW f \in frames, Paint(f) PROVE Stage'
  <2>1. (Starting \/ Playing) /\ frames = {raf}
    BY <1>7 DEF Paint, StageInv, Stage, Settled, Idle, Off, Reading, Opening, Sending, Loading, Announced,
                Starting, Playing, Failed, Stopping
  <2>2. frames' = {raf'}
    BY <1>7, <2>1 DEF Paint
  <2>3. CASE Starting
    <3>1. Starting'
      BY <1>7, <2>2, <2>3 DEF Paint, Starting, On, UnderWay, Running
    <3> QED
      BY <3>1 DEF Stage
  <2>4. CASE Playing
    <3>1. Playing'
      BY <1>7, <2>2, <2>4 DEF Paint, Playing, On, UnderWay, Running, Settled
    <3> QED
      BY <3>1 DEF Stage
  <2> QED
    BY <2>1, <2>3, <2>4
<1>8. CASE UNCHANGED vars
  BY <1>8 DEF vars, StageInv, Stage, Idle, Off, NoneOpen, Settled, Reading, Only, Opening, Sending,
              Loading, Announced, Starting, Playing, Failed, Stopping, On, UnderWay, Running
<1> QED
  BY <1>1, <1>2, <1>3, <1>4, <1>5, <1>6, <1>7, <1>8, <1>10, <1>11, <1>13, <1>15 DEF Next

\* If the user waits for every start and stop to settle, the worker runs the latest ROM,
\* if it can be loaded, exactly while the canvas is shown, with one paint loop; no context outlives its ROM
\* and the ring has one reader at most (index-phase-b.html:166-320,
\* emulator-worker.js:33-40, 117-160).
THEOREM AgreementHolds == Spec => []Agreement
<1>1. CallInv /\ StageInv => Agreement
  <2> SUFFICES ASSUME CallInv, Stage, Settled PROVE Agreement
    BY DEF StageInv, Agreement
  <2>1. Idle \/ Playing \/ Failed
    BY SettledStage
  <2>2. CASE Idle
    BY <2>2 DEF Idle, Off, NoneOpen, Agreement, RingReaders
  <2>3. CASE Playing \/ Failed
    <3>1. audioCtx = 0 => RingReaders = {}
      BY <2>3 DEF Playing, Failed, On, RingReaders
    <3>2. audioCtx # 0 =>
            RingReaders = {audioCtx} \X (1..nodes[audioCtx]) /\ nodes[audioCtx] \in 0..1
      BY <2>3 DEF Playing, Failed, On, RingReaders, CallInv
    <3>3. \A r, s \in RingReaders : r = s
      BY <3>1, <3>2
    <3> QED
      BY <2>3, <3>3 DEF Playing, Failed, On, Running, Agreement
  <2> QED
    BY <2>1, <2>2, <2>3
<1>2. Init => CallInv /\ StageInv
  BY InitStage
<1>3. CallInv /\ StageInv /\ [Next]_vars => (CallInv /\ StageInv)'
  BY NextCall, NextStage
<1> QED
  BY <1>1, <1>2, <1>3, PTL DEF Spec

-----------------------------------------------------------------------------
(* The framebuffer slot.                                                   *)

SlotTypes ==
  /\ made \in Nat /\ due \in Int
  /\ toWrite \in SUBSET Part /\ toRead \in SUBSET Part
  /\ pixels \in [Part -> Int] /\ picture \in [Part -> Int]

\* Parts yet to be written are of the frame before.
CopiedInv ==
  /\ published => toWrite = {}
  /\ \A p \in Part : pixels[p] = IF p \in toWrite THEN made - 1 ELSE made

PictureInv ==
  /\ due <= Slot!InSlot
  /\ toRead # {} => painting
  /\ painting => \A p \in Part \ toRead : picture[p] >= due

SlotIInv == SlotTypes /\ CopiedInv /\ PictureInv

USE DEF SlotTypes, CopiedInv, PictureInv, SlotIInv, Slot!InSlot

\* The slot holds nothing yet, and nothing is due.
LEMMA InitSlot == Slot!Init => SlotIInv
<1> SUFFICES ASSUME Slot!Init PROVE SlotIInv
  OBVIOUS
<1>1. SlotTypes
  BY DEF Slot!Init
<1>2. CopiedInv
  BY DEF Slot!Init
<1>3. PictureInv
  BY DEF Slot!Init
<1> QED
  BY <1>1, <1>2, <1>3

\* Every step of either thread keeps the invariant.
LEMMA NextSlot == SlotIInv /\ [Slot!Next]_(Slot!vars) => SlotIInv'
<1> SUFFICES ASSUME SlotIInv, [Slot!Next]_(Slot!vars) PROVE SlotIInv'
  OBVIOUS
<1> USE DEF Slot!workerVars, Slot!mainVars
<1>1. CASE Slot!Load
  BY <1>1 DEF Slot!Load
\* A new frame: every part is of the frame before it, which is the one in the slot.
<1>2. CASE Slot!EmulateFrame
  <2>1. SlotTypes'
    BY <1>2 DEF Slot!EmulateFrame
  <2>2. CopiedInv'
    BY <1>2 DEF Slot!EmulateFrame
  <2>3. PictureInv'
    BY <1>2 DEF Slot!EmulateFrame
  <2> QED
    BY <2>1, <2>2, <2>3
<1>3. ASSUME NEW q \in Part, Slot!CopyPart(q) PROVE SlotIInv'
  <2>1. SlotTypes'
    BY <1>3 DEF Slot!CopyPart
  <2>2. CopiedInv'
    BY <1>3 DEF Slot!CopyPart
  <2>3. PictureInv'
    BY <1>3 DEF Slot!CopyPart
  <2> QED
    BY <2>1, <2>2, <2>3
\* The number is stored when every part has been copied.
<1>4. CASE Slot!StoreSeq
  BY <1>4 DEF Slot!StoreSeq, Slot!Copied
<1>5. CASE Slot!OnReady
  BY <1>5 DEF Slot!OnReady
<1>6. CASE Slot!Look
  BY <1>6 DEF Slot!Look
\* What is read is as new as the slot, and the slot as new as what is due.
<1>7. ASSUME NEW q \in Part, Slot!ReadPart(q) PROVE SlotIInv'
  <2>1. SlotTypes' /\ CopiedInv'
    BY <1>7 DEF Slot!ReadPart
  <2>2. pixels[q] >= due
    BY <1>7
  <2>3. PictureInv'
    BY <1>7, <2>2 DEF Slot!ReadPart
  <2> QED
    BY <2>1, <2>3
<1>8. CASE Slot!PutImage
  BY <1>8 DEF Slot!PutImage
<1>9. CASE UNCHANGED Slot!vars
  BY <1>9 DEF Slot!vars
<1> QED
  BY <1>1, <1>2, <1>3, <1>4, <1>5, <1>6, <1>7, <1>8, <1>9 DEF Slot!Next

-----------------------------------------------------------------------------
(* The main page.                                                          *)

\* There is at most one loop, and the page holds its handle.
LoopInv ==
  /\ \A f \in framesA : f = [id |-> animFrameId, gen |-> f.gen]
  /\ \A f, g \in framesA : f = g

\* A start that awaits the module holds the guard, is alone, and has cancelled the loop.
GuardInv ==
  /\ awaiting # {} => startingEmulator /\ framesA = {}
  /\ \A c, d \in awaiting : c = d

PageAIInv == LoopInv /\ GuardInv /\ PageA!NoLeakedAudio

USE DEF LoopInv, GuardInv, PageAIInv, PageA!NoLeakedAudio

\* A cancelled loop leaves nothing behind.
LEMMA CancelledAll == ASSUME LoopInv PROVE PageA!Cancelled = {}
BY DEF PageA!Cancelled

\* Nothing has been asked for yet.
LEMMA InitPageA == PageA!Init => PageAIInv
BY DEF PageA!Init

\* Every event keeps the invariant.
LEMMA NextPageA == PageAIInv /\ [PageA!Next]_(PageA!vars) => PageAIInv'
<1> SUFFICES ASSUME PageAIInv, [PageA!Next]_(PageA!vars) PROVE PageAIInv'
  OBVIOUS
\* A start that finds the guard free is the only one, and ends the loop.
<1>1. ASSUME NEW rom \in Rom, PageA!StartEmulator(rom) PROVE PageAIInv'
  <2>1. CASE PageA!MayStart
    BY <1>1, <2>1, CancelledAll DEF PageA!StartEmulator, PageA!MayStart
  <2>2. CASE ~PageA!MayStart
    BY <1>1, <2>2 DEF PageA!StartEmulator
  <2> QED
    BY <2>1, <2>2
<1>2. ASSUME NEW c \in PageA!StartCall, PageA!InitFails(c) \/ PageA!Rejected(c) PROVE PageAIInv'
  BY <1>2 DEF PageA!InitFails, PageA!Rejected
\* The new loop is the only one, as none ran while the start was under way.
<1>3. ASSUME NEW c \in PageA!StartCall, NEW a \in BOOLEAN, PageA!Started(c, a) PROVE PageAIInv'
  <2>1. framesA = {} /\ awaiting' = {}
    BY <1>3 DEF PageA!Started
  <2>2. LoopInv'
    BY <1>3, <2>1 DEF PageA!Started
  <2>3. PageA!NoLeakedAudio'
    BY <1>3 DEF PageA!Started, PageA!Closed
  <2> QED
    BY <2>1, <2>2, <2>3
\* The loop asks for its next turn, or ends.
<1>4. ASSUME NEW f \in framesA, PageA!GameLoop(f) PROVE PageAIInv'
  <2>1. framesA \ {f} = {}
    OBVIOUS
  <2>2. awaiting = {}
    OBVIOUS
  <2>3. [f EXCEPT !.id = PageA!Handle] = [id |-> PageA!Handle, gen |-> f.gen]
    OBVIOUS
  <2> QED
    BY <1>4, <2>1, <2>2, <2>3 DEF PageA!GameLoop
<1>5. CASE PageA!StopEmulator
  BY <1>5, CancelledAll DEF PageA!StopEmulator
<1>6. CASE UNCHANGED PageA!vars
  BY <1>6 DEF PageA!vars
<1> QED
  BY <1>1, <1>2, <1>3, <1>4, <1>5, <1>6 DEF PageA!Next

-----------------------------------------------------------------------------
(* The parts together: every step is one of the part in focus, and leaves   *)
(* the others alone.                                                       *)

LEMMA InitSlotPage == WebInit => SlotIInv /\ PageAIInv
BY InitSlot, InitPageA DEF WebInit

LEMMA NextSlotPage ==
  SlotIInv /\ PageAIInv /\ [WebNext]_webVars => SlotIInv' /\ PageAIInv'
<1> SUFFICES ASSUME SlotIInv, PageAIInv, [WebNext]_webVars PROVE SlotIInv' /\ PageAIInv'
  OBVIOUS
<1>1. [Slot!Next]_(Slot!vars)
  BY DEF WebNext, webVars, slotVars, notSlot, SlotDoes, Slot!vars
<1>2. [PageA!Next]_(PageA!vars)
  BY DEF WebNext, webVars, pageAVars, notSlot, SlotDoes, PageA!vars
<1> QED
  BY <1>1, <1>2, NextSlot, NextPageA

THEOREM WebInvariant == WebSpec => [](SlotIInv /\ PageAIInv)
BY InitSlotPage, NextSlotPage, PTL DEF WebSpec

\* What is painted for a number is the frame of that number or, in part, a later
\* one (emulator-worker.js:96-106).
THEOREM NeverOlderHolds == WebSpec => []NeverOlder
<1>1. SlotIInv => NeverOlder
  BY DEF NeverOlder, Slot!NeverOlder, SlotIInv, PictureInv
<1> QED
  BY WebInvariant, <1>1, PTL

\* Never more than one game loop, whose handle the page holds (index.html:298-304,
\* 387-391, 453-457).
THEOREM OneGameLoopHolds == WebSpec => []OneGameLoop
<1>1. PageAIInv => OneGameLoop
  BY DEF OneGameLoop, PageA!OneGameLoop, PageAIInv, LoopInv
<1> QED
  BY WebInvariant, <1>1, PTL

\* No audio context is left running behind the page's back (index.html:338-345, 464).
THEOREM NoLeakedAudioHolds == WebSpec => []NoLeakedAudio
<1>1. PageAIInv => NoLeakedAudio
  BY DEF NoLeakedAudio, PageAIInv
<1> QED
  BY WebInvariant, <1>1, PTL

-----------------------------------------------------------------------------
(* The audio ring among the others.                                        *)

Alone == INSTANCE AudioRingProofs

LEMMA SameAssumption == Alone!RingAssumption
BY WebAssumption DEF Ring!RingAssumption, Alone!RingAssumption

LEMMA SameInit == WebInit => Alone!Init
BY DEF WebInit, Ring!Init, Alone!Init, Ring!Slot, Alone!Slot, Ring!NoFrame, Alone!NoFrame

\* A step of the ring is one of the ring alone, and so is a step of another part.
LEMMA SameNext == [WebNext]_webVars => [Alone!Next]_(Alone!vars)
<1> SUFFICES ASSUME [WebNext]_webVars PROVE [Alone!Next]_(Alone!vars)
  OBVIOUS
<1> USE DEF Ring!writerVars, Ring!readerVars, Ring!mainVars, Alone!writerVars,
            Alone!readerVars, Alone!mainVars, Ring!Moved, Alone!Moved, Ring!Used, Alone!Used,
            Ring!Upset, Alone!Upset
<1>1. CASE UNCHANGED ringVars
  BY <1>1 DEF ringVars, Alone!vars
<1>5. Ring!Calm <=> Alone!Calm
  BY DEF Ring!Calm, Alone!Calm, Ring!WriterFits, Alone!WriterFits, Ring!ReaderFits, Alone!ReaderFits
<1>6. ASSUME NEW n PROVE Ring!Pass(n) <=> Alone!Pass(n)
  BY <1>5 DEF Ring!Pass, Alone!Pass
<1>2. CASE Ring!LoadWritePos \/ Ring!LoadReadPos \/ Ring!CopyFrame \/ Ring!StoreWritePos
  <2>1. Alone!LoadWritePos \/ Alone!LoadReadPos \/ Alone!CopyFrame \/ Alone!StoreWritePos
    BY <1>2, <1>6 DEF Ring!LoadWritePos, Ring!LoadReadPos, Ring!CopyFrame, Ring!StoreWritePos,
                Ring!Free, Ring!Copied, Alone!LoadWritePos, Alone!LoadReadPos, Alone!CopyFrame,
                Alone!StoreWritePos, Alone!Free, Alone!Copied
  <2> QED
    BY <2>1 DEF Alone!Next
<1>3. CASE Ring!LoadPositions \/ Ring!Plan \/ Ring!PlayFrame \/ Ring!Advance \/ Ring!Underrun
  <2>1. Alone!LoadPositions \/ Alone!Plan \/ Alone!PlayFrame \/ Alone!Advance \/ Alone!Underrun
    BY <1>3, <1>6 DEF Ring!LoadPositions, Ring!Plan, Ring!PlayFrame, Ring!Advance, Ring!Underrun,
                Ring!StoreReadPos, Ring!Consumed, Alone!LoadPositions, Alone!Plan, Alone!PlayFrame,
                Alone!Advance, Alone!Underrun, Alone!StoreReadPos, Alone!Consumed
  <2> QED
    BY <2>1 DEF Alone!Next
<1>4. CASE Ring!Resume \/ Ring!ResetWritePos \/ Ring!ResetReadPos \/ Ring!AudioStarts
  <2>1. Alone!Resume \/ Alone!ResetWritePos \/ Alone!ResetReadPos \/ Alone!AudioStarts
    BY <1>4, <1>6 DEF Ring!Resume, Ring!ResetWritePos, Ring!ResetReadPos, Ring!AudioStarts,
                Alone!Resume, Alone!ResetWritePos, Alone!ResetReadPos, Alone!AudioStarts
  <2> QED
    BY <2>1 DEF Alone!Next
<1> QED
  BY <1>1, <1>2, <1>3, <1>4 DEF WebNext, webVars, notSlot, SlotDoes, Ring!Next

\* The ring among the others is the ring.
LEMMA RingAlone == WebSpec => Alone!Spec
BY SameInit, SameNext, PTL DEF WebSpec, Alone!Spec

LEMMA SameCalm == Ring!Calm <=> Alone!Calm
BY DEF Ring!Calm, Alone!Calm, Ring!WriterFits, Alone!WriterFits, Ring!ReaderFits, Alone!ReaderFits,
       Ring!Used, Alone!Used

\* Only an underrun and the resumption upset the ring
\* (audio-worklet-processor.js:119-124, index-phase-b.html:194-195).
THEOREM CalmUntilUpsetHolds == WebSpec => CalmUntilUpset
<1>1. [Alone!Calm /\ ~Alone!Calm' => Alone!Underrun \/ Alone!ResetWritePos \/ Alone!ResetReadPos]_(Alone!vars)
        => [Ring!Calm /\ ~Ring!Calm' => Ring!Underrun \/ Ring!ResetWritePos \/ Ring!ResetReadPos]_(Ring!vars)
  <2>1. (Ring!Calm <=> Alone!Calm) /\ (Ring!Calm' <=> Alone!Calm') /\ Alone!vars = Ring!vars
        /\ Alone!vars' = Ring!vars'
    <3>1. (Ring!Calm <=> Alone!Calm)'
      BY SameCalm, PTL
    <3> QED
      BY <3>1, SameCalm DEF Alone!vars, Ring!vars
  <2>2. Alone!Underrun \/ Alone!ResetWritePos \/ Alone!ResetReadPos
          => Ring!Underrun \/ Ring!ResetWritePos \/ Ring!ResetReadPos
    BY DEF Ring!writerVars, Ring!readerVars, Ring!mainVars, Alone!writerVars,
           Alone!readerVars, Alone!mainVars, Ring!Moved, Alone!Moved, Ring!Used, Alone!Used,
           Ring!Upset, Alone!Upset, Ring!Underrun, Ring!StoreReadPos, Ring!Consumed,
           Alone!Underrun, Alone!StoreReadPos, Alone!Consumed, Ring!ResetWritePos,
           Ring!ResetReadPos, Alone!ResetWritePos, Alone!ResetReadPos
  <2> QED
    BY <2>1, <2>2
<1> QED
  BY <1>1, SameAssumption, RingAlone, Alone!CalmUntilUpsetHolds, PTL
     DEF Alone!CalmUntilUpset, CalmUntilUpset, Ring!CalmUntilUpset

\* The worklet hears the frames accepted since then, each in its turn
\* (audio-worklet-processor.js:66-124).
THEOREM HearsInOrderHolds == WebSpec => []HearsInOrder
<1>1. Alone!HearsInOrder => HearsInOrder
  BY SameCalm DEF Alone!HearsInOrder, HearsInOrder, Ring!HearsInOrder, Alone!Reading, Ring!Reading,
     Alone!Available, Ring!Available, Alone!Used, Ring!Used, Alone!Moved, Ring!Moved
<1> QED
  BY <1>1, SameAssumption, RingAlone, Alone!HearsInOrderHolds, PTL

\* The ring is a bounded queue, which loses what it holds when it is upset
\* (emulator-worker.js:42-74, audio-worklet-processor.js:66-124,
\* index-phase-b.html:189-196).
THEOREM IsQueueHolds == WebSpec => IsQueue
<1>0. (Alone!FreshFrames = Ring!FreshFrames) /\ (Alone!FreshFrames = Ring!FreshFrames)'
  BY DEF Alone!FreshFrames, Ring!FreshFrames, Alone!Fresh, Ring!Fresh, Alone!Used, Ring!Used,
         Alone!Moved, Ring!Moved
<1>1. Alone!Queue!Init => Ring!Queue!Init
  BY <1>0 DEF Alone!Queue!Init, Ring!Queue!Init
<1>2. [Alone!Queue!Push \/ Alone!Queue!Pop \/ Alone!Queue!Lose]_(Alone!Queue!queueVars)
        => [Ring!Queue!Push \/ Ring!Queue!Pop \/ Ring!Queue!Lose]_(Ring!Queue!queueVars)
  <2>1. Alone!FreshFrames' = Ring!FreshFrames'
    BY <1>0
  <2> QED
    BY <1>0, <2>1 DEF Alone!Queue!Push, Alone!Queue!Pop, Alone!Queue!Lose, Alone!Queue!queueVars,
         Ring!Queue!Push, Ring!Queue!Pop, Ring!Queue!Lose, Ring!Queue!queueVars
<1> QED
  BY <1>1, <1>2, SameAssumption, RingAlone, Alone!IsQueueHolds, PTL
     DEF Alone!IsQueue, Alone!Queue!Spec, IsQueue, Ring!IsQueue, Ring!Queue!Spec
=============================================================================
