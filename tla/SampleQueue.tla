---------------------------- MODULE SampleQueue ----------------------------
(***************************************************************************)
(* What the audio ring promises: a bounded first-in first-out queue of     *)
(* stereo frames between one producer and one consumer, which may lose     *)
(* what it holds.  Frames are named by the order in which they were        *)
(* accepted; what does not fit is dropped by the producer and never named. *)
(***************************************************************************)
EXTENDS Integers, Sequences

CONSTANT Capacity   \* frames the queue can hold

VARIABLES
  queue, accepted,
  since   \* frames accepted when the queue last lost what it held

queueVars == <<queue, accepted, since>>

Init == queue = <<>> /\ accepted = 0 /\ since = 0

\* The producer appends the frames that follow the latest accepted one.
Push ==
  /\ accepted' \in accepted..accepted + Capacity - Len(queue)
  /\ queue' = queue \o [i \in 1..accepted' - accepted |-> accepted + i]
  /\ UNCHANGED since

\* The consumer removes frames from the front.
Pop ==
  /\ \E k \in 0..Len(queue) : queue' = SubSeq(queue, k + 1, Len(queue))
  /\ UNCHANGED <<accepted, since>>

\* Everything accepted so far is lost, with what is accepted at the moment.
Lose == accepted' >= accepted /\ since' = accepted' /\ queue' = <<>>

Spec == Init /\ [][Push \/ Pop \/ Lose]_queueVars
=============================================================================
