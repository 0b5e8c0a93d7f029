---------------------------- MODULE ApuChunking ----------------------------
(***************************************************************************)
(* The distributive law of catch_up (spc700/mod.rs:275-291, 486-494):      *)
(*     catch_up(a); catch_up(b)  ==  catch_up(a + b)                       *)
(* Two APUs, A and B, run the same program and are driven through the same *)
(* stretch of main-CPU time, each cut into catch_up calls in its own way.  *)
(* The main CPU writes its ports at the same master cycle on both.  When   *)
(* both have been credited the same time and are idle, they must be in the *)
(* same state: timers, counters, ports, sample clock and all.              *)
(*                                                                         *)
(* The program is deterministic, as the SPC700's is: which instruction     *)
(* starts at a cycle depends on the cycle and on what the ports show, so   *)
(* a port value seen one instruction too early or too late sends the two   *)
(* APUs apart.                                                             *)
(***************************************************************************)
EXTENDS Integers, Sequences

CONSTANTS
  MasterPerSpc, SlowTimerPeriod, FastTimerPeriod, DspPeriod, CounterSize,
  InstCycles, Timer, TimerTargets, PowerOnTarget, Port, Byte, PortBoot,
  MasterDeltas, MaxMaster,
  Programs,       \* sequences of [len, op]: the loops the SPC700 may run
  PolledPort,     \* the port whose value the program branches on
  WriteTimes      \* master cycles at which the main CPU may write its port

VARIABLES
  program,
  totalA, targetA, cyclesA, leftA, haltedA, dspA, samplesA, timersA, fromA, toA, startA,
  totalB, targetB, cyclesB, leftB, haltedB, dspB, samplesB, timersB, fromB, toB, startB

A == INSTANCE Apu WITH total <- totalA, target <- targetA, cycles <- cyclesA,
       left <- leftA, halted <- haltedA, dspCounter <- dspA, samples <- samplesA,
       timers <- timersA, fromMain <- fromA, toMain <- toA, lastStart <- startA

B == INSTANCE Apu WITH total <- totalB, target <- targetB, cycles <- cyclesB,
       left <- leftB, halted <- haltedB, dspCounter <- dspB, samples <- samplesB,
       timers <- timersB, fromMain <- fromB, toMain <- toB, lastStart <- startB

varsA == <<totalA, targetA, cyclesA, leftA, haltedA, dspA, samplesA, timersA,
           fromA, toA, startA>>
varsB == <<totalB, targetB, cyclesB, leftB, haltedB, dspB, samplesB, timersB,
           fromB, toB, startB>>
vars  == <<program, varsA, varsB>>

ProgramAssumption ==
  /\ Programs \subseteq Seq([len : InstCycles, op : A!Op]) \ {<<>>}
  /\ PolledPort \in Port /\ Byte \subseteq Nat

\* The instruction the program executes at SPC cycle c when it polls value v.
Fetch(c, v) == program[1 + ((c + v) % Len(program))]

Init ==
  /\ A!Init /\ B!Init
  /\ program \in Programs

\* Neither APU is credited time past a port access the other has yet to reach.
NextWrite == {w \in WriteTimes : w > totalA \/ w > totalB}
MayReach(t) == \A w \in NextWrite : t <= w

SpcA ==
  LET inst == Fetch(cyclesA, fromA[PolledPort])
  IN  A!Instruction(inst.len, inst.op)

SpcB ==
  LET inst == Fetch(cyclesB, fromB[PolledPort])
  IN  B!Instruction(inst.len, inst.op)

StepA == SpcA \/ A!HaltedCycle \/ A!TickCycle
StepB == SpcB \/ B!HaltedCycle \/ B!TickCycle

CatchUpA == \E m \in MasterDeltas : A!CatchUp(m) /\ MayReach(totalA + m)
CatchUpB == \E m \in MasterDeltas : B!CatchUp(m) /\ MayReach(totalB + m)

\* The main CPU stores to a port at a master cycle both APUs have reached.
CpuWrite(p, v) ==
  /\ totalA = totalB /\ totalA \in WriteTimes
  /\ A!CpuWrite(p, v) /\ B!CpuWrite(p, v)

Next ==
  \/ (CatchUpA \/ StepA) /\ UNCHANGED <<program, varsB>>
  \/ (CatchUpB \/ StepB) /\ UNCHANGED <<program, varsA>>
  \/ \E p \in Port, v \in Byte : CpuWrite(p, v) /\ UNCHANGED program

Spec == Init /\ [][Next]_vars

\* Two APUs credited the same time are in the same state, however that time was
\* cut into calls (tests/async_contracts/catch_up_algebra.rs:73-135).
Distributivity ==
  ~A!Busy /\ ~B!Busy /\ totalA = totalB => varsA = varsB
=============================================================================
