------------------------------- MODULE MCApu -------------------------------
(* A small APU, 3 master clocks per SPC cycle and one sample per 4 of them: *)
(* one running any program, or two that run the same program and are driven *)
(* through the same time in different calls (focus, chosen at the start).   *)
EXTENDS Apu, Sequences

CONSTANTS
  Programs, PolledPort, WriteTimes,            \* ApuChunking
  PairLengths, PairTimer, PairTargets, PairPowerOn, PairDeltas, PairMaster

VARIABLES
  focus, program,
  totalA, targetA, cyclesA, leftA, haltedA, dspA, samplesA, timersA, fromA, toA, startA,
  totalB, targetB, cyclesB, leftB, haltedB, dspB, samplesB, timersB, fromB, toB, startB

pairVars == <<program,
  totalA, targetA, cyclesA, leftA, haltedA, dspA, samplesA, timersA, fromA, toA, startA,
  totalB, targetB, cyclesB, leftB, haltedB, dspB, samplesB, timersB, fromB, toB, startB>>

MCPowerOnTarget == [i \in Timer |-> 3]
MCPortBoot == [p \in Port |-> 1]
MCPairPowerOn == [i \in PairTimer |-> 2]

\* Two instructions per program, one of them of every kind: a program switches
\* the timers on and then loops over two instructions.
MCOps == {[kind |-> "counter", timer |-> 2],
          [kind |-> "target", timer |-> 2, to |-> 1],
          [kind |-> "control", on |-> {0, 2}, clear |-> {0}],
          [kind |-> "port", port |-> 0, val |-> 0],
          [kind |-> "stop"]}
MCPrograms == {<<[len |-> 3, op |-> [kind |-> "control", on |-> {0, 2}, clear |-> {}]],
                 [len |-> n, op |-> o]>> : n \in {2, 5}, o \in MCOps}

Pair == INSTANCE ApuChunking WITH
  InstCycles <- PairLengths, Timer <- PairTimer, TimerTargets <- PairTargets,
  PowerOnTarget <- PairPowerOn, MasterDeltas <- PairDeltas, MaxMaster <- PairMaster

ASSUME PairAssumption == Pair!A!ApuAssumption /\ Pair!ProgramAssumption

MCInit ==
  /\ focus \in {"one", "pair"} /\ Init /\ Pair!Init
  /\ focus = "one" => program = CHOOSE p \in Programs : TRUE

One(A) == focus = "one" /\ A /\ UNCHANGED <<focus, pairVars>>

MCNext ==
  \/ One(Next)
  \/ focus = "pair" /\ Pair!Next /\ UNCHANGED <<focus, vars>>

MCVars == <<focus, vars, pairVars>>

\* Apu's fairness, of the steps that MCNext lets happen.
MCSpec ==
  /\ MCInit /\ [][MCNext]_MCVars
  /\ WF_MCVars(One(SpcInstruction)) /\ WF_MCVars(One(HaltedCycle)) /\ WF_MCVars(One(TickCycle))

\* Two APUs credited the same time are in the same state, however that time was
\* cut into calls (spc700/mod.rs:478-494).
Distributivity == Pair!Distributivity
=============================================================================
