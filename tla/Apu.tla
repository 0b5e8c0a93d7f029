-------------------------------- MODULE Apu --------------------------------
(***************************************************************************)
(* The audio processing unit of src/src/spc700: an SPC700 CPU, three       *)
(* timers, the DSP's sample clock and the four mailbox ports it shares     *)
(* with the main CPU.                                                      *)
(*                                                                         *)
(* The main CPU does not run the APU cycle by cycle.  It calls catch_up    *)
(* with the master cycles elapsed since the last call, and the APU then    *)
(* executes whole SPC700 instructions until it has reached the present.    *)
(* One catch_up call is many steps here: CatchUp publishes the new target, *)
(* SpcInstruction executes one instruction, TickCycle is one turn of the   *)
(* inner per-cycle loop.  The caller is blocked (Busy) until the loop ends.*)
(*                                                                         *)
(* The SPC700 program is arbitrary: the next instruction has any length    *)
(* and performs any one of the bus accesses that matter to the ports and   *)
(* the timers.                                                             *)
(*                                                                         *)
(* Definitions named Bad... are plausible faults in the definition after   *)
(* them; they are not part of the model, and show that a property would    *)
(* notice the fault.                                                       *)
(***************************************************************************)
EXTENDS Integers, FiniteSets

CONSTANTS
  MasterPerSpc,     \* master clocks per SPC700 cycle (21)
  SlowTimerPeriod,  \* SPC cycles per tick of T0 and T1 (128)
  FastTimerPeriod,  \* SPC cycles per tick of T2 (16)
  DspPeriod,        \* SPC cycles per stereo sample (32)
  CounterSize,      \* values of a timer's output counter (16)
  InstCycles,       \* lengths of SPC700 instructions, in SPC cycles
  Timer,            \* the timers, 0..2
  TimerTargets,     \* targets a timer can have (1..256)
  PowerOnTarget,    \* targets at power-on (256, 256, 32)
  Port,             \* the mailbox ports, 0..3
  Byte,             \* values exchanged through the ports
  PortBoot,         \* ports_to_main at power-on
  MasterDeltas,     \* arguments of catch_up
  MaxMaster         \* bound on the master cycles ever credited

ASSUME ApuAssumption ==
  /\ MasterPerSpc \in Nat \ {0} /\ SlowTimerPeriod \in Nat \ {0}
  /\ FastTimerPeriod \in Nat \ {0} /\ DspPeriod \in Nat \ {0}
  /\ CounterSize \in Nat \ {0}
  /\ InstCycles \subseteq Nat \ {0}
  /\ TimerTargets \subseteq Nat \ {0}
  /\ PowerOnTarget \in [Timer -> TimerTargets]
  /\ 0 \in Byte
  /\ PortBoot \in [Port -> Byte]
  /\ MasterDeltas \subseteq Nat

VARIABLES
  total,       \* master_cycles_total
  target,      \* cycle_target
  cycles,      \* SPC cycles executed so far
  left,        \* turns left in the inner loop of the current instruction
  halted,      \* the SPC700 executed SLEEP or STOP
  dspCounter,  \* dsp_counter
  samples,     \* stereo samples pushed since power-on
  timers,      \* Timer -> [target, divider, counter, enabled]
  fromMain,    \* ports_from_main
  toMain,      \* ports_to_main
  lastStart    \* history: SPC cycle at which the latest instruction began

vars == <<total, target, cycles, left, halted, dspCounter, samples, timers,
          fromMain, toMain, lastStart>>

loopVars == <<total, target>>
busVars  == <<timers, fromMain, toMain, halted>>

TimerState == [target  : TimerTargets,
               divider : Nat,
               counter : 0..CounterSize-1,
               enabled : BOOLEAN]

TypeOK ==
  /\ total \in Nat /\ target \in Nat /\ cycles \in Nat /\ left \in Nat
  /\ halted \in BOOLEAN
  /\ dspCounter \in 0..DspPeriod-1
  /\ samples \in Nat
  /\ timers \in [Timer -> TimerState]
  /\ fromMain \in [Port -> Byte]
  /\ toMain \in [Port -> Byte]
  /\ lastStart \in Nat \cup {-1}

NewTimer(t) == [target |-> t, divider |-> 0, counter |-> 0, enabled |-> FALSE]

Init ==
  /\ total = 0 /\ target = 0 /\ cycles = 0 /\ left = 0
  /\ halted = FALSE
  /\ dspCounter = 0 /\ samples = 0
  /\ timers = [i \in Timer |-> NewTimer(PowerOnTarget[i])]
  /\ fromMain = [p \in Port |-> 0]
  /\ toMain = PortBoot
  /\ lastStart = -1

-----------------------------------------------------------------------------
(* The timers.                                                             *)

\* The output counter is not masked to its four bits.
BadTicked(t) ==
  IF t.enabled /\ t.divider + 1 >= t.target
  THEN [t EXCEPT !.divider = 0, !.counter = @ + 1]
  ELSE t

Ticked(t) ==
  IF ~t.enabled THEN t
  ELSE IF t.divider + 1 >= t.target
  THEN [t EXCEPT !.divider = 0, !.counter = (@ + 1) % CounterSize]
  ELSE [t EXCEPT !.divider = @ + 1]

PeriodOf(i) == IF i = 2 THEN FastTimerPeriod ELSE SlowTimerPeriod

-----------------------------------------------------------------------------
(* The catch-up loop.                                                      *)

\* The present, in SPC cycles, of the main CPU that credits master cycles.
Now == total \div MasterPerSpc

\* catch_up has not returned: its caller cannot do anything else.
Busy == cycles < target \/ left > 0

\* Every call rounds its own argument down, and the remainders are lost.
BadCatchUpRounds(m) ==
  /\ ~Busy /\ total + m <= MaxMaster
  /\ total' = total + m
  /\ target' = target + m \div MasterPerSpc
  /\ UNCHANGED <<cycles, left, dspCounter, samples, busVars, lastStart>>

\* run_cycles is given the absolute time instead of the difference.
BadCatchUpAbsolute(m) ==
  /\ ~Busy /\ total + m <= MaxMaster
  /\ total' = total + m
  /\ target' = target + (total + m) \div MasterPerSpc
  /\ UNCHANGED <<cycles, left, dspCounter, samples, busVars, lastStart>>

\* catch_up(m) up to the call of run_cycles, which raises cycle_target by the
\* difference it is given.
CatchUp(m) ==
  LET absolute == (total + m) \div MasterPerSpc
  IN  /\ ~Busy
      /\ total + m <= MaxMaster
      /\ total' = total + m
      /\ target' = IF absolute > target THEN target + (absolute - target) ELSE target
      /\ UNCHANGED <<cycles, left, dspCounter, samples, busVars, lastStart>>

\* The bus accesses of an SPC700 instruction, by the address they hit.
NoAccess == UNCHANGED busVars

ReadCounter(i) ==
  /\ timers' = [timers EXCEPT ![i].counter = 0]
  /\ UNCHANGED <<fromMain, toMain, halted>>

WriteTarget(i, t) ==
  /\ timers' = [timers EXCEPT ![i].target = t]
  /\ UNCHANGED <<fromMain, toMain, halted>>

\* on: the timers whose enable bit is set; clear: the port pairs cleared.
WriteControl(on, clear) ==
  /\ timers' = [i \in Timer |-> [timers[i] EXCEPT !.enabled = (i \in on)]]
  /\ fromMain' = [p \in Port |-> IF p \div 2 \in clear THEN 0 ELSE fromMain[p]]
  /\ UNCHANGED <<toMain, halted>>

WritePort(p, v) ==
  /\ toMain' = [toMain EXCEPT ![p] = v]
  /\ UNCHANGED <<timers, fromMain, halted>>

Stop ==
  /\ halted' = TRUE
  /\ UNCHANGED <<timers, fromMain, toMain>>

\* What one instruction may do to the bus.
Op == [kind : {"none", "stop"}]
      \cup [kind : {"counter"}, timer : Timer]
      \cup [kind : {"target"}, timer : Timer, to : TimerTargets]
      \cup [kind : {"control"}, on : SUBSET Timer, clear : SUBSET {0, 1}]
      \cup [kind : {"port"}, port : Port, val : Byte]

Perform(op) ==
  \/ op.kind = "none" /\ NoAccess
  \/ op.kind = "stop" /\ Stop
  \/ op.kind = "counter" /\ ReadCounter(op.timer)
  \/ op.kind = "target" /\ WriteTarget(op.timer, op.to)
  \/ op.kind = "control" /\ WriteControl(op.on, op.clear)
  \/ op.kind = "port" /\ WritePort(op.port, op.val)

\* The loop runs while cycles <= target.
BadStartInstruction(n) ==
  /\ left = 0 /\ cycles <= target
  /\ left' = n
  /\ lastStart' = cycles
  /\ UNCHANGED <<loopVars, cycles, dspCounter, samples>>

\* The head of the while loop: one instruction, executed at once; its cycles
\* are then ticked one by one.
StartInstruction(n) ==
  /\ left = 0 /\ cycles < target
  /\ left' = n
  /\ lastStart' = cycles
  /\ UNCHANGED <<loopVars, cycles, dspCounter, samples>>

Instruction(n, op) == ~halted /\ StartInstruction(n) /\ Perform(op)

SpcInstruction == \E n \in InstCycles, op \in Op : Instruction(n, op)

\* A stopped SPC700 consumes no time.
BadHaltedCycle == halted /\ StartInstruction(0) /\ NoAccess

HaltedCycle == halted /\ StartInstruction(1) /\ NoAccess

\* A sample every DspPeriod + 1 cycles.
BadSampleDue == dspCounter >= DspPeriod

SampleDue == dspCounter + 1 >= DspPeriod

\* One turn of the inner for loop.
TickCycle ==
  /\ left > 0
  /\ timers' = [i \in Timer |->
                  IF cycles % PeriodOf(i) = 0 THEN Ticked(timers[i]) ELSE timers[i]]
  /\ IF SampleDue
       THEN dspCounter' = 0 /\ samples' = samples + 1
       ELSE dspCounter' = dspCounter + 1 /\ UNCHANGED samples
  /\ cycles' = cycles + 1
  /\ left' = left - 1
  /\ UNCHANGED <<loopVars, fromMain, toMain, halted, lastStart>>

\* $2140-$2143 written by the main CPU, between two calls of catch_up.
CpuWrite(p, v) ==
  /\ ~Busy
  /\ fromMain' = [fromMain EXCEPT ![p] = v]
  /\ UNCHANGED <<loopVars, cycles, left, halted, dspCounter, samples, timers,
                 toMain, lastStart>>

Next ==
  \/ \E m \in MasterDeltas : CatchUp(m)
  \/ SpcInstruction
  \/ HaltedCycle
  \/ TickCycle
  \/ \E p \in Port, v \in Byte : CpuWrite(p, v)

\* The loop of run_cycles is straight-line code: once entered it keeps going.
Fairness == WF_vars(SpcInstruction) /\ WF_vars(HaltedCycle) /\ WF_vars(TickCycle)

Spec == Init /\ [][Next]_vars /\ Fairness

-----------------------------------------------------------------------------
(* Properties.                                                             *)

\* Whenever the main CPU can touch a port, every instruction executed so far
\* began strictly before the main CPU's present and the next one begins at or
\* after it: a port write is seen by exactly the instructions it should be
\* seen by, however the elapsed time was cut into catch_up calls
\* (spc700/mod.rs:478-494).
Causality == ~Busy => lastStart < Now /\ Now <= cycles

\* The DSP's sample clock never drifts from the CPU's: every SPC cycle counts
\* for exactly one DspPeriod-th of a sample (spc700/mod.rs:447-471).
SampleClock == samples * DspPeriod + dspCounter = cycles

\* The time base stays exact: the target dispatched to run_cycles is the
\* absolute floor(total / 21), never a sum of rounded differences.
ExactTarget == target = Now

\* catch_up always returns to the main CPU (spc700/mod.rs:396-475).
CatchUpReturns == Busy ~> ~Busy

\* The follower of LazyClock has "done" an instruction when it has executed it,
\* although its cycles are still being ticked.
Lazy == INSTANCE LazyClock WITH now <- Now, done <- cycles + left, last <- lastStart
\* The APU implements the lazily synchronised clock (spc700/mod.rs:393-520).
IsLazyClock == Lazy!Spec
=============================================================================
