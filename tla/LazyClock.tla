----------------------------- MODULE LazyClock -----------------------------
(***************************************************************************)
(* What a just-in-time synchronised processor promises the processor that  *)
(* drives it.  now is the driver's time; the follower has executed          *)
(* instructions that cover the time up to done, the latest of which began  *)
(* at last.  The driver moves on only when the follower is not behind; the *)
(* follower starts an instruction only when it is.                         *)
(***************************************************************************)
EXTENDS Integers

VARIABLES now, done, last

lazyVars == <<now, done, last>>

Init == now = 0 /\ done = 0 /\ last = -1

Advance ==
  /\ done >= now
  /\ now' \in Nat /\ now' > now
  /\ UNCHANGED <<done, last>>

Execute ==
  /\ done < now
  /\ done' \in Nat /\ done' > done
  /\ last' = done
  /\ UNCHANGED now

Next == Advance \/ Execute

Spec == Init /\ [][Next]_lazyVars

\* The driver never sees a future the follower has already lived through, and
\* never a past it has not: see Apu!Causality.
Causality == done >= now => last < now
=============================================================================
