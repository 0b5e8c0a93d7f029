----------------------------- MODULE ApuProofs -----------------------------
(***************************************************************************)
(* Proofs about Apu, for every clock ratio, timer period, instruction      *)
(* length, port value and chunking of the main CPU's time; and about the   *)
(* two APUs of MCApu, for every program.                                   *)
(***************************************************************************)
EXTENDS MCApu, TLAPS

\* The quotient of a growing total by a fixed ratio is a natural that grows.
LEMMA DivMonotone ==
  ASSUME NEW r \in Nat \ {0}, NEW a \in Nat, NEW m \in Nat
  PROVE  a \div r \in Nat /\ a \div r <= (a + m) \div r
<1>1. a \div r \in Nat /\ (a + m) \div r \in Nat
  OBVIOUS
<1>2. a = r * (a \div r) + (a % r) /\ a % r \in 0..r-1
  OBVIOUS
<1>3. a + m = r * ((a + m) \div r) + ((a + m) % r) /\ (a + m) % r \in 0..r-1
  OBVIOUS
<1>4. SUFFICES ASSUME (a + m) \div r < a \div r
               PROVE  FALSE
  BY <1>1
<1>5. r * ((a + m) \div r) + r <= r * (a \div r)
  BY <1>1, <1>4
<1>. QED
  BY <1>1, <1>2, <1>3, <1>5

-----------------------------------------------------------------------------
(* Type correctness.                                                       *)

LEMMA TickedType ==
  ASSUME NEW t \in TimerState
  PROVE  Ticked(t) \in TimerState
<1>1. CASE ~t.enabled
  BY <1>1 DEF Ticked
<1>2. CASE t.enabled /\ t.divider + 1 >= t.target
  <2>1. (t.counter + 1) % CounterSize \in 0..CounterSize-1
    BY ApuAssumption DEF TimerState
  <2>. QED
    BY <1>2, <2>1 DEF Ticked, TimerState
<1>3. CASE t.enabled /\ ~(t.divider + 1 >= t.target)
  BY <1>3 DEF Ticked, TimerState
<1>. QED
  BY <1>1, <1>2, <1>3 DEF TimerState

\* Every access of the program leaves the bus well typed.
LEMMA PerformType ==
  ASSUME TypeOK, NEW op \in Op, Perform(op)
  PROVE  /\ timers' \in [Timer -> TimerState]
         /\ fromMain' \in [Port -> Byte]
         /\ toMain' \in [Port -> Byte]
         /\ halted' \in BOOLEAN
<1>. USE ApuAssumption DEF TypeOK
<1>1. CASE op.kind = "none" /\ NoAccess
  BY <1>1 DEF NoAccess, busVars
<1>2. CASE op.kind = "stop" /\ Stop
  BY <1>2 DEF Stop
<1>3. CASE op.kind = "counter" /\ ReadCounter(op.timer)
  <2>1. 0 \in 0..CounterSize-1
    OBVIOUS
  <2>2. ASSUME NEW i \in Timer
        PROVE  [timers[i] EXCEPT !.counter = 0] \in TimerState
    <3>1. timers[i] \in TimerState
      OBVIOUS
    <3>. QED
      BY <2>1, <3>1 DEF TimerState
  <2>. QED
    BY <1>3, <2>2 DEF ReadCounter
<1>4. CASE op.kind = "target" /\ WriteTarget(op.timer, op.to)
  <2>1. op.to \in TimerTargets
    BY <1>4 DEF Op
  <2>2. ASSUME NEW i \in Timer
        PROVE  [timers[i] EXCEPT !.target = op.to] \in TimerState
    BY <2>1 DEF TimerState
  <2>. QED
    BY <1>4, <2>2 DEF WriteTarget
<1>5. CASE op.kind = "control" /\ WriteControl(op.on, op.clear)
  <2>1. ASSUME NEW i \in Timer
        PROVE  [timers[i] EXCEPT !.enabled = (i \in op.on)] \in TimerState
    <3>1. timers[i] \in TimerState /\ (i \in op.on) \in BOOLEAN
      OBVIOUS
    <3>. QED
      BY <3>1 DEF TimerState
  <2>. QED
    BY <1>5, <2>1 DEF WriteControl
<1>6. CASE op.kind = "port" /\ WritePort(op.port, op.val)
  <2>1. op.val \in Byte
    BY <1>6 DEF Op
  <2>. QED
    BY <1>6, <2>1 DEF WritePort
<1>. QED
  BY <1>1, <1>2, <1>3, <1>4, <1>5, <1>6 DEF Perform

-----------------------------------------------------------------------------
(* The inductive invariant: the target is the absolute quotient, and the   *)
(* latest instruction began before it.  The second conjunct is what makes  *)
(* Causality inductive: while the loop runs, Causality itself says nothing.*)

IInv ==
  /\ TypeOK
  /\ ExactTarget
  /\ lastStart < target
  /\ SampleClock

LEMMA InitIInv == Init => IInv
<1>1. ASSUME Init PROVE TypeOK
  <2>1. ASSUME NEW i \in Timer
        PROVE  NewTimer(PowerOnTarget[i]) \in TimerState
    <3>1. PowerOnTarget[i] \in TimerTargets /\ 0 \in 0..CounterSize-1
      BY ApuAssumption
    <3>. QED
      BY <3>1 DEF NewTimer, TimerState
  <2>2. timers \in [Timer -> TimerState]
    BY <1>1, <2>1 DEF Init
  <2>3. 0 \in 0..DspPeriod-1
    BY ApuAssumption
  <2>. QED
    BY <1>1, <2>2, <2>3, ApuAssumption DEF Init, TypeOK
<1>2. 0 \div MasterPerSpc = 0
  BY ApuAssumption
<1>3. 0 * DspPeriod + 0 = 0
  BY ApuAssumption
<1>4. Init => ExactTarget /\ lastStart < target
  BY <1>2 DEF Init, ExactTarget, Now
<1>5. Init => SampleClock
  BY <1>3 DEF Init, SampleClock
<1>. QED
  BY <1>1, <1>4, <1>5 DEF IInv

LEMMA CatchUpIInv ==
  ASSUME IInv, NEW m \in MasterDeltas, CatchUp(m)
  PROVE  IInv'
<1>. USE ApuAssumption
<1>1. total \in Nat /\ m \in Nat /\ total' = total + m /\ total' \in Nat
  BY DEF IInv, TypeOK, CatchUp
<1>2. Now \in Nat /\ Now <= (total + m) \div MasterPerSpc
  BY <1>1, DivMonotone DEF Now
<1>3. (total + m) \div MasterPerSpc \in Nat
  BY <1>1
<1>4. target' = (total + m) \div MasterPerSpc /\ target' >= target
  BY <1>2, <1>3 DEF IInv, TypeOK, CatchUp, ExactTarget
<1>5. ExactTarget'
  BY <1>1, <1>4 DEF ExactTarget, Now
<1>6. TypeOK'
  BY <1>1, <1>3, <1>4 DEF IInv, TypeOK, CatchUp, busVars
<1>7. lastStart' < target'
  BY <1>3, <1>4 DEF IInv, TypeOK, CatchUp
<1>8. SampleClock'
  BY DEF IInv, SampleClock, CatchUp
<1>. QED
  BY <1>5, <1>6, <1>7, <1>8 DEF IInv

\* Starting an instruction, whatever it does to the bus.
LEMMA StartIInv ==
  ASSUME IInv, NEW n \in Nat, StartInstruction(n),
         timers' \in [Timer -> TimerState], fromMain' \in [Port -> Byte],
         toMain' \in [Port -> Byte], halted' \in BOOLEAN
  PROVE  IInv'
<1>1. TypeOK'
  BY DEF IInv, TypeOK, StartInstruction, loopVars
<1>2. ExactTarget'
  BY DEF IInv, ExactTarget, Now, StartInstruction, loopVars
<1>3. lastStart' < target'
  BY DEF IInv, TypeOK, StartInstruction, loopVars
<1>4. SampleClock'
  BY DEF IInv, SampleClock, StartInstruction
<1>. QED
  BY <1>1, <1>2, <1>3, <1>4 DEF IInv

LEMMA TickIInv ==
  ASSUME IInv, TickCycle
  PROVE  IInv'
<1>. USE ApuAssumption
<1>1. timers' \in [Timer -> TimerState]
  BY TickedType DEF IInv, TypeOK, TickCycle
<1>2. dspCounter' \in 0..DspPeriod-1 /\ samples' \in Nat
  BY DEF IInv, TypeOK, TickCycle, SampleDue
<1>3. TypeOK'
  BY <1>1, <1>2 DEF IInv, TypeOK, TickCycle, loopVars
<1>4. ExactTarget' /\ lastStart' < target'
  BY DEF IInv, ExactTarget, Now, TickCycle, loopVars
<1>5. SampleClock'
  <2>1. CASE SampleDue
    <3>1. dspCounter' = 0 /\ samples' = samples + 1 /\ dspCounter + 1 = DspPeriod
      BY <2>1 DEF IInv, TypeOK, TickCycle, SampleDue
    <3>2. (samples + 1) * DspPeriod = samples * DspPeriod + DspPeriod
      BY DEF IInv, TypeOK
    <3>. QED
      BY <3>1, <3>2 DEF IInv, TypeOK, TickCycle, SampleClock
  <2>2. CASE ~SampleDue
    BY <2>2 DEF IInv, TypeOK, TickCycle, SampleClock
  <2>. QED
    BY <2>1, <2>2
<1>. QED
  BY <1>3, <1>4, <1>5 DEF IInv

LEMMA NextIInv == IInv /\ [Next]_vars => IInv'
<1>. SUFFICES ASSUME IInv, [Next]_vars
              PROVE  IInv'
  OBVIOUS
<1>1. CASE \E m \in MasterDeltas : CatchUp(m)
  BY <1>1, CatchUpIInv
<1>2. CASE SpcInstruction
  <2>1. PICK n \in InstCycles, op \in Op : Instruction(n, op)
    BY <1>2 DEF SpcInstruction
  <2>2. n \in Nat
    BY ApuAssumption
  <2>. QED
    BY <2>1, <2>2, PerformType, StartIInv DEF Instruction, IInv
<1>3. CASE HaltedCycle
  <2>1. UNCHANGED busVars /\ StartInstruction(1)
    BY <1>3 DEF HaltedCycle, NoAccess
  <2>. QED
    BY <2>1, StartIInv DEF busVars, IInv, TypeOK
<1>4. CASE TickCycle
  BY <1>4, TickIInv
<1>5. CASE \E p \in Port, v \in Byte : CpuWrite(p, v)
  BY <1>5 DEF IInv, TypeOK, ExactTarget, Now, SampleClock, CpuWrite, loopVars
<1>6. CASE UNCHANGED vars
  BY <1>6 DEF vars, IInv, TypeOK, ExactTarget, Now, SampleClock
<1>. QED
  BY <1>1, <1>2, <1>3, <1>4, <1>5, <1>6 DEF Next

THEOREM Invariance == Spec => []IInv
BY InitIInv, NextIInv, PTL DEF Spec

\* The APU's state stays well typed, whatever the program does.
THEOREM TypeCorrect == Spec => []TypeOK
<1>1. IInv => TypeOK
  BY DEF IInv
<1>. QED
  BY <1>1, Invariance, PTL

\* However the main CPU's time is cut into catch_up calls, an instruction has
\* run before a port access if and only if it began before it.
THEOREM CausalityHolds == Spec => []Causality
<1>1. IInv => Causality
  BY DEF IInv, TypeOK, ExactTarget, Causality, Busy
<1>. QED
  BY <1>1, Invariance, PTL

\* The DSP has produced exactly one sample per DspPeriod SPC cycles.
THEOREM SampleClockHolds == Spec => []SampleClock
<1>1. IInv => SampleClock
  BY DEF IInv
<1>. QED
  BY <1>1, Invariance, PTL

\* The time base never accumulates a rounding error.
THEOREM ExactTargetHolds == Spec => []ExactTarget
<1>1. IInv => ExactTarget
  BY DEF IInv
<1>. QED
  BY <1>1, Invariance, PTL

-----------------------------------------------------------------------------
(* The APU implements the lazily synchronised clock.                       *)

LEMMA InitRefines == Init => Lazy!Init
BY ApuAssumption DEF Init, Lazy!Init, Now

LEMMA NextRefines == IInv /\ [Next]_vars => [Lazy!Next]_(Lazy!lazyVars)
<1>. SUFFICES ASSUME IInv, [Next]_vars
              PROVE  [Lazy!Next]_(Lazy!lazyVars)
  OBVIOUS
<1>. USE ApuAssumption
<1>1. ASSUME NEW m \in MasterDeltas, CatchUp(m)
      PROVE  Lazy!Advance \/ UNCHANGED Lazy!lazyVars
  <2>1. total \in Nat /\ m \in Nat /\ total' = total + m
    BY <1>1 DEF IInv, TypeOK, CatchUp
  <2>2. Now \in Nat /\ Now' \in Nat /\ Now <= Now'
    BY <2>1, DivMonotone DEF Now
  <2>3. cycles + left >= Now
    BY <1>1 DEF IInv, TypeOK, ExactTarget, CatchUp, Busy
  <2>4. UNCHANGED <<cycles + left, lastStart>>
    BY <1>1 DEF CatchUp
  <2>. QED
    BY <2>2, <2>3, <2>4 DEF Lazy!Advance, Lazy!lazyVars
<1>2. ASSUME NEW n \in Nat \ {0}, StartInstruction(n)
      PROVE  Lazy!Execute
  BY <1>2 DEF IInv, TypeOK, ExactTarget, Now, StartInstruction, loopVars, Lazy!Execute
<1>3. CASE SpcInstruction
  BY <1>2, <1>3 DEF SpcInstruction, Instruction, Lazy!Next
<1>4. CASE HaltedCycle
  BY <1>2, <1>4 DEF HaltedCycle, Lazy!Next
<1>5. CASE TickCycle
  BY <1>5 DEF IInv, TypeOK, TickCycle, loopVars, Now, Lazy!lazyVars
<1>6. CASE \E p \in Port, v \in Byte : CpuWrite(p, v)
  BY <1>6 DEF CpuWrite, loopVars, Now, Lazy!lazyVars
<1>7. CASE UNCHANGED vars
  BY <1>7 DEF vars, Now, Lazy!lazyVars
<1>. QED
  BY <1>1, <1>3, <1>4, <1>5, <1>6, <1>7 DEF Next, Lazy!Next

\* Every behaviour of the APU is, seen through total, cycles and lastStart, a
\* behaviour of the abstract lazily synchronised clock.
THEOREM Refinement == Spec => IsLazyClock
<1>1. Init => Lazy!Init
  BY InitRefines
<1>2. IInv /\ [Next]_vars => [Lazy!Next]_(Lazy!lazyVars)
  BY NextRefines
<1>. QED
  BY <1>1, <1>2, Invariance, PTL DEF Spec, IsLazyClock, Lazy!Spec

-----------------------------------------------------------------------------
(* Distributivity.  What an SPC700 does next is a function of its state     *)
(* (After), in which the credit does not occur: two APUs that were in the   *)
(* same state when the main CPU last wrote a port are at two places of one  *)
(* and the same trace.                                                      *)

CoreOf(cy, le, ha, ds, sa, ti, fr, to, st) ==
  [cycles |-> cy, left |-> le, halted |-> ha, dsp |-> ds, samples |-> sa, timers |-> ti,
   from |-> fr, to |-> to, start |-> st]

CoreA == CoreOf(cyclesA, leftA, haltedA, dspA, samplesA, timersA, fromA, toA, startA)
CoreB == CoreOf(cyclesB, leftB, haltedB, dspB, samplesB, timersB, fromB, toB, startB)

\* The inner loop.
TickTimers(cy, ti) ==
  [i \in PairTimer |-> IF cy % Pair!A!PeriodOf(i) = 0 THEN Pair!A!Ticked(ti[i]) ELSE ti[i]]

AfterTick(x) ==
  LET due == x.dsp + 1 >= DspPeriod
  IN  CoreOf(x.cycles + 1, x.left - 1, x.halted, IF due THEN 0 ELSE x.dsp + 1,
             IF due THEN x.samples + 1 ELSE x.samples, TickTimers(x.cycles, x.timers),
             x.from, x.to, x.start)

\* What an instruction does to the bus.
TimersAfter(ti, op) ==
  CASE op.kind = "counter" -> [ti EXCEPT ![op.timer].counter = 0]
    [] op.kind = "target" -> [ti EXCEPT ![op.timer].target = op.to]
    [] op.kind = "control" -> [i \in PairTimer |-> [ti[i] EXCEPT !.enabled = (i \in op.on)]]
    [] OTHER -> ti
FromAfter(fr, op) ==
  IF op.kind = "control" THEN [q \in Port |-> IF q \div 2 \in op.clear THEN 0 ELSE fr[q]]
  ELSE fr
ToAfter(to, op) == IF op.kind = "port" THEN [to EXCEPT ![op.port] = op.val] ELSE to
HaltedAfter(ha, op) == IF op.kind = "stop" THEN TRUE ELSE ha

AfterInstruction(x, len, op) ==
  CoreOf(x.cycles, len, HaltedAfter(x.halted, op), x.dsp, x.samples, TimersAfter(x.timers, op),
         FromAfter(x.from, op), ToAfter(x.to, op), x.cycles)

AfterHalt(x) ==
  CoreOf(x.cycles, 1, x.halted, x.dsp, x.samples, x.timers, x.from, x.to, x.cycles)

Inst(p, x) == p[1 + ((x.cycles + x.from[PolledPort]) % Len(p))]

After(p, x) ==
  IF x.left > 0 THEN AfterTick(x)
  ELSE IF x.halted THEN AfterHalt(x)
  ELSE AfterInstruction(x, Inst(p, x).len, Inst(p, x).op)

\* What is known of a state at any time.
CoreType(x) ==
  /\ x.cycles \in Nat /\ x.left \in Nat /\ x.halted \in BOOLEAN
  /\ x.start \in Int /\ x.start <= x.cycles
  /\ x.from \in [Port -> Byte]

\* The states of one run, from one port write to the next.
Trace(p, h, n) ==
  /\ n \in Nat
  /\ \A i \in 0..n : CoreType(h[i])
  /\ \A i \in 0..n-1 : h[i + 1] = After(p, h[i])
  /\ \A i, j \in 0..n : i < j /\ h[i].left = 0 => h[i].cycles <= h[j].start

Together(p, x, y) ==
  \E h, n, a, b : Trace(p, h, n) /\ a \in 0..n /\ b \in 0..n /\ h[a] = x /\ h[b] = y

\* The target is the quotient of the total, and the latest instruction began before it.
SideInv(to, ta, x) ==
  /\ to \in Nat /\ ta = to \div MasterPerSpc /\ ta \in Nat
  /\ x.start < ta

PairInv ==
  /\ program \in Programs
  /\ SideInv(totalA, targetA, CoreA) /\ SideInv(totalB, targetB, CoreB)
  /\ Together(program, CoreA, CoreB)

\* The assumptions in the form the proofs use.
LEMMA PairConstants ==
  /\ MasterPerSpc \in Nat \ {0} /\ PairLengths \subseteq Nat \ {0} /\ PairDeltas \subseteq Nat
  /\ 0 \in Byte /\ Byte \subseteq Nat /\ PolledPort \in Port
  /\ \A p \in Programs : p \in Seq([len : PairLengths, op : Pair!A!Op]) /\ p # <<>>
BY PairAssumption DEF Pair!A!ApuAssumption, Pair!ProgramAssumption

\* The fields of a state are what it was made of.
LEMMA CoreFields ==
  ASSUME NEW cy, NEW le, NEW ha, NEW ds, NEW sa, NEW ti, NEW fr, NEW to, NEW st
  PROVE  LET x == CoreOf(cy, le, ha, ds, sa, ti, fr, to, st)
         IN  /\ x.cycles = cy /\ x.left = le /\ x.halted = ha /\ x.dsp = ds /\ x.samples = sa
             /\ x.timers = ti /\ x.from = fr /\ x.to = to /\ x.start = st
BY DEF CoreOf

\* The program has an instruction at every place it may be at.
LEMMA InstIs ==
  ASSUME NEW p \in Programs, NEW x, CoreType(x)
  PROVE  Inst(p, x).len \in Nat \ {0} /\ Inst(p, x).op \in Pair!A!Op
         /\ Inst(p, x) \in [len : PairLengths, op : Pair!A!Op]
<1> DEFINE n == Len(p)
           y == x.cycles + x.from[PolledPort]
<1>1. p \in Seq([len : PairLengths, op : Pair!A!Op]) /\ p # <<>>
  BY PairConstants
<1>2. n \in Nat \ {0}
  BY <1>1
<1>3. x.from[PolledPort] \in Nat
  BY PairConstants DEF CoreType
<1>4. y \in Nat
  BY <1>3 DEF CoreType
<1> HIDE DEF n, y
<1>5. y % n \in 0..n-1
  BY <1>2, <1>4
<1>6. 1 + (y % n) \in 1..n
  BY <1>2, <1>5
<1> DEFINE k == 1 + (y % n)
<1>7. p[k] \in [len : PairLengths, op : Pair!A!Op]
  <2>1. k \in 1..n
    BY <1>6
  <2> DEFINE S == [len : PairLengths, op : Pair!A!Op]
  <2>2. p \in Seq(S)
    BY <1>1
  <2> HIDE DEF k, S
  <2>3. p[k] \in S
    BY ONLY <2>1, <2>2 DEF n
  <2> QED
    BY <2>3 DEF S
<1>8. Inst(p, x) = p[1 + (y % n)]
  BY DEF Inst, n, y
<1> QED
  BY <1>7, <1>8, PairConstants

\* A step keeps what is known; from a loop's head it begins an instruction, and no
\* step moves the beginning of the latest one back.
LEMMA AfterIs ==
  ASSUME NEW p \in Programs, NEW x, CoreType(x)
  PROVE  LET y == After(p, x)
         IN  /\ CoreType(y) /\ x.start <= y.start
             /\ x.left = 0 => x.cycles <= y.start
<1> DEFINE y == After(p, x)
<1>1. CASE x.left > 0
  <2>1. y = AfterTick(x)
    BY <1>1 DEF After
  <2>2. /\ y.cycles = x.cycles + 1 /\ y.left = x.left - 1 /\ y.halted = x.halted
        /\ y.from = x.from /\ y.start = x.start
    BY <2>1, CoreFields DEF AfterTick
  <2> HIDE DEF y
  <2>3. CoreType(y) /\ x.start <= y.start /\ (x.left = 0 => x.cycles <= y.start)
    BY <1>1, <2>2 DEF CoreType
  <2> QED
    BY <2>3 DEF y
<1>2. CASE ~(x.left > 0) /\ x.halted
  <2>1. y = AfterHalt(x)
    BY <1>2 DEF After
  <2>2. /\ y.cycles = x.cycles /\ y.left = 1 /\ y.halted = x.halted
        /\ y.from = x.from /\ y.start = x.cycles
    BY <2>1, CoreFields DEF AfterHalt
  <2> HIDE DEF y
  <2>3. CoreType(y) /\ x.start <= y.start /\ (x.left = 0 => x.cycles <= y.start)
    BY <2>2 DEF CoreType
  <2> QED
    BY <2>3 DEF y
<1>3. CASE ~(x.left > 0) /\ ~x.halted
  <2> DEFINE len == Inst(p, x).len
             op == Inst(p, x).op
  <2>1. y = AfterInstruction(x, len, op)
    BY <1>3 DEF After
  <2>2. len \in Nat /\ op \in Pair!A!Op
    BY InstIs
  <2> HIDE DEF len, op
  <2>3. FromAfter(x.from, op) \in [Port -> Byte]
    BY PairConstants DEF FromAfter, CoreType
  <2>4. HaltedAfter(x.halted, op) \in BOOLEAN
    BY DEF HaltedAfter, CoreType
  <2>5. /\ y.cycles = x.cycles /\ y.left = len /\ y.halted = HaltedAfter(x.halted, op)
        /\ y.from = FromAfter(x.from, op) /\ y.start = x.cycles
    BY <2>1, CoreFields DEF AfterInstruction
  <2> HIDE DEF y
  <2>6. CoreType(y) /\ x.start <= y.start /\ (x.left = 0 => x.cycles <= y.start)
    BY <2>2, <2>3, <2>4, <2>5 DEF CoreType
  <2> QED
    BY <2>6 DEF y
<1> QED
  BY <1>1, <1>2, <1>3
\* One side takes a step and the other does not: the trace has the state it reaches,
\* or is continued with it.
LEMMA Follow ==
  ASSUME NEW p \in Programs, NEW x, NEW y, Together(p, x, y)
  PROVE  Together(p, After(p, x), y)
<1>1. PICK h, n, a, b : Trace(p, h, n) /\ a \in 0..n /\ b \in 0..n /\ h[a] = x /\ h[b] = y
  BY DEF Together
<1>2. n \in Nat
  BY <1>1 DEF Trace
<1>3. CASE a < n
  <2>1. h[a + 1] = After(p, x) /\ a + 1 \in 0..n
    BY <1>1, <1>2, <1>3 DEF Trace
  <2> QED
    BY <1>1, <2>1 DEF Together
<1>4. CASE a = n
  <2> DEFINE z == After(p, x)
             g == [i \in 0..n+1 |-> IF i = n + 1 THEN z ELSE h[i]]
  <2>1. /\ CoreType(x)
        /\ \A i \in 0..n : CoreType(h[i])
        /\ \A i \in 0..n-1 : h[i + 1] = After(p, h[i])
        /\ \A i, j \in 0..n : i < j /\ h[i].left = 0 => h[i].cycles <= h[j].start
    BY <1>1 DEF Trace
  <2>2. CoreType(z) /\ x.start <= z.start /\ (x.left = 0 => x.cycles <= z.start)
    BY <2>1, AfterIs
  <2>3. g[n + 1] = z /\ \A i \in 0..n : g[i] = h[i]
    BY <1>2
  <2>4. h[n] = x
    BY <1>1, <1>4
  <2>5. z = After(p, x)
    OBVIOUS
  <2> HIDE DEF g, z
  <2>6. \A i \in 0..n+1 : CoreType(g[i])
    <3> SUFFICES ASSUME NEW i \in 0..n+1 PROVE CoreType(g[i])
      OBVIOUS
    <3>1. i = n + 1 \/ i \in 0..n
      BY <1>2
    <3> QED
      BY <3>1, <2>1, <2>2, <2>3
  <2>7. \A i \in 0..(n + 1) - 1 : g[i + 1] = After(p, g[i])
    <3> SUFFICES ASSUME NEW i \in 0..(n + 1) - 1 PROVE g[i + 1] = After(p, g[i])
      OBVIOUS
    <3>1. i = n \/ (i \in 0..n-1 /\ i + 1 \in 0..n)
      BY <1>2
    <3>2. i \in 0..n
      BY <1>2
    <3> QED
      BY <3>1, <3>2, <2>1, <2>3, <2>4, <2>5
  <2>8. \A i, j \in 0..n+1 : i < j /\ g[i].left = 0 => g[i].cycles <= g[j].start
    <3> SUFFICES ASSUME NEW i \in 0..n+1, NEW j \in 0..n+1, i < j, g[i].left = 0
                 PROVE  g[i].cycles <= g[j].start
      OBVIOUS
    <3>1. i \in 0..n /\ g[i] = h[i] /\ CoreType(h[i])
      BY <1>2, <2>1, <2>3
    <3>2. CASE j \in 0..n
      BY <3>1, <3>2, <2>1, <2>3
    <3>3. CASE j = n + 1 /\ i = n
      BY <3>1, <3>3, <2>2, <2>3, <2>4
    <3>4. CASE j = n + 1 /\ i < n
      <4>1. h[i].cycles <= x.start
        BY <3>1, <3>4, <2>1, <2>4, <1>2
      <4>2. h[i].cycles \in Nat /\ x.start \in Int /\ z.start \in Int
        BY <3>1, <2>1, <2>2 DEF CoreType
      <4> QED
        BY <4>1, <4>2, <3>1, <3>4, <2>2, <2>3
    <3> QED
      BY <3>1, <3>2, <3>3, <3>4, <1>2
  <2>9. Trace(p, g, n + 1)
    BY <1>2, <2>6, <2>7, <2>8 DEF Trace
  <2>10. n + 1 \in 0..n+1 /\ b \in 0..n+1 /\ g[n + 1] = z /\ g[b] = y
    BY <1>1, <1>2, <2>3
  <2> QED
    BY <2>5, <2>9, <2>10 DEF Together
<1> QED
  BY <1>1, <1>2, <1>3, <1>4

\* Neither side is the first.
LEMMA TogetherSymmetric ==
  ASSUME NEW p, NEW x, NEW y, Together(p, x, y)
  PROVE  Together(p, y, x)
BY DEF Together

\* A state alone is a trace.
LEMMA TogetherAlone ==
  ASSUME NEW p, NEW x, CoreType(x)
  PROVE  Together(p, x, x)
<1> DEFINE h == [i \in 0..0 |-> x]
<1>1. \A i \in 0..0 : h[i] = x
  OBVIOUS
<1> HIDE DEF h
<1>2. Trace(p, h, 0)
  BY <1>1 DEF Trace
<1>3. 0 \in 0..0 /\ h[0] = x
  BY <1>1
<1> QED
  BY <1>2, <1>3 DEF Together

\* Two idle sides with the same target are at the same place.
LEMMA Meet ==
  ASSUME NEW p, NEW x, NEW y, Together(p, x, y), NEW t \in Nat,
         x.left = 0, t <= x.cycles, x.start < t,
         y.left = 0, t <= y.cycles, y.start < t
  PROVE  x = y
<1>1. PICK h, n, a, b : Trace(p, h, n) /\ a \in 0..n /\ b \in 0..n /\ h[a] = x /\ h[b] = y
  BY DEF Together
<1>2. n \in Nat
  BY <1>1 DEF Trace
<1>3. CoreType(x) /\ CoreType(y)
  BY <1>1 DEF Trace
<1>4. /\ x.cycles \in Nat /\ x.start \in Int
      /\ y.cycles \in Nat /\ y.start \in Int
  BY <1>3 DEF CoreType
<1>5. ~(a < b)
  <2>1. a < b => x.cycles <= y.start
    BY <1>1 DEF Trace
  <2> QED
    BY <2>1, <1>4
<1>6. ~(b < a)
  <2>1. b < a => y.cycles <= x.start
    BY <1>1 DEF Trace
  <2> QED
    BY <2>1, <1>4
<1>7. a = b
  BY <1>1, <1>2, <1>5, <1>6
<1> QED
  BY <1>1, <1>7
\* Both sides are states of a trace.
LEMMA TogetherTyped ==
  ASSUME NEW p, NEW x, NEW y, Together(p, x, y)
  PROVE  CoreType(x) /\ CoreType(y)
BY DEF Together, Trace

\* An access of an instruction is what its op determines.
LEMMA PerformAIs ==
  ASSUME NEW op, Pair!A!Perform(op)
  PROVE  /\ haltedA' = HaltedAfter(haltedA, op) /\ timersA' = TimersAfter(timersA, op)
         /\ fromA' = FromAfter(fromA, op) /\ toA' = ToAfter(toA, op)
<1>1. CASE op.kind = "none" /\ Pair!A!NoAccess
  BY <1>1 DEF Pair!A!NoAccess, Pair!A!busVars, HaltedAfter, TimersAfter, FromAfter, ToAfter
<1>2. CASE op.kind = "stop" /\ Pair!A!Stop
  BY <1>2 DEF Pair!A!Stop, HaltedAfter, TimersAfter, FromAfter, ToAfter
<1>3. CASE op.kind = "counter" /\ Pair!A!ReadCounter(op.timer)
  BY <1>3, Zenon DEF Pair!A!ReadCounter, HaltedAfter, TimersAfter, FromAfter, ToAfter
<1>4. CASE op.kind = "target" /\ Pair!A!WriteTarget(op.timer, op.to)
  BY <1>4, Zenon DEF Pair!A!WriteTarget, HaltedAfter, TimersAfter, FromAfter, ToAfter
<1>5. CASE op.kind = "control" /\ Pair!A!WriteControl(op.on, op.clear)
  BY <1>5 DEF Pair!A!WriteControl, HaltedAfter, TimersAfter, FromAfter, ToAfter
<1>6. CASE op.kind = "port" /\ Pair!A!WritePort(op.port, op.val)
  BY <1>6 DEF Pair!A!WritePort, HaltedAfter, TimersAfter, FromAfter, ToAfter
<1> QED
  BY <1>1, <1>2, <1>3, <1>4, <1>5, <1>6 DEF Pair!A!Perform

\* The same of the other side, which is another instance of the module.
LEMMA PerformBIs ==
  ASSUME NEW op, Pair!B!Perform(op)
  PROVE  /\ haltedB' = HaltedAfter(haltedB, op) /\ timersB' = TimersAfter(timersB, op)
         /\ fromB' = FromAfter(fromB, op) /\ toB' = ToAfter(toB, op)
<1>1. CASE op.kind = "none" /\ Pair!B!NoAccess
  BY <1>1 DEF Pair!B!NoAccess, Pair!B!busVars, HaltedAfter, TimersAfter, FromAfter, ToAfter
<1>2. CASE op.kind = "stop" /\ Pair!B!Stop
  BY <1>2 DEF Pair!B!Stop, HaltedAfter, TimersAfter, FromAfter, ToAfter
<1>3. CASE op.kind = "counter" /\ Pair!B!ReadCounter(op.timer)
  BY <1>3, Zenon DEF Pair!B!ReadCounter, HaltedAfter, TimersAfter, FromAfter, ToAfter
<1>4. CASE op.kind = "target" /\ Pair!B!WriteTarget(op.timer, op.to)
  BY <1>4, Zenon DEF Pair!B!WriteTarget, HaltedAfter, TimersAfter, FromAfter, ToAfter
<1>5. CASE op.kind = "control" /\ Pair!B!WriteControl(op.on, op.clear)
  BY <1>5 DEF Pair!B!WriteControl, HaltedAfter, TimersAfter, FromAfter, ToAfter
<1>6. CASE op.kind = "port" /\ Pair!B!WritePort(op.port, op.val)
  BY <1>6 DEF Pair!B!WritePort, HaltedAfter, TimersAfter, FromAfter, ToAfter
<1> QED
  BY <1>1, <1>2, <1>3, <1>4, <1>5, <1>6 DEF Pair!B!Perform

\* A call raises the target to the quotient of the new total and touches nothing else.
LEMMA CatchUpAIs ==
  ASSUME PairInv, NEW m \in PairDeltas, Pair!A!CatchUp(m)
  PROVE  SideInv(totalA', targetA', CoreA') /\ CoreA' = CoreA
<1>1. /\ totalA \in Nat /\ targetA = totalA \div MasterPerSpc /\ targetA \in Nat
      /\ CoreA.start < targetA
  BY DEF PairInv, SideInv
<1>2. m \in Nat /\ MasterPerSpc \in Nat \ {0}
  BY PairConstants
<1>3. /\ totalA' = totalA + m
      /\ targetA' = LET absolute == (totalA + m) \div MasterPerSpc
                    IN  IF absolute > targetA THEN targetA + (absolute - targetA) ELSE targetA
  BY DEF Pair!A!CatchUp
<1>4. CoreA' = CoreA
  BY DEF Pair!A!CatchUp, Pair!A!busVars, CoreA
<1> DEFINE absolute == (totalA + m) \div MasterPerSpc
<1>5. absolute \in Nat /\ targetA <= absolute
  <2>1. absolute \in Nat
    BY <1>1, <1>2
  <2>2. targetA <= absolute
    BY <1>1, <1>2, DivMonotone
  <2> QED
    BY <2>1, <2>2
<1> HIDE DEF absolute
<1>6. targetA' = absolute
  BY <1>1, <1>3, <1>5 DEF absolute
<1>7. totalA' \in Nat
  BY <1>1, <1>2, <1>3
<1>8. CoreA.start \in Int
  BY TogetherTyped DEF PairInv, CoreType
<1>9. CoreA'.start < targetA'
  BY <1>1, <1>4, <1>5, <1>6, <1>8
<1>10. targetA' = totalA' \div MasterPerSpc
  BY <1>3, <1>6 DEF absolute
<1> QED
  BY <1>4, <1>5, <1>6, <1>7, <1>9, <1>10 DEF SideInv

\* A step of one side is the step its state determines, and it begins before the target.
LEMMA StepAIs ==
  ASSUME PairInv, Pair!StepA
  PROVE  /\ CoreA' = After(program, CoreA) /\ SideInv(totalA', targetA', CoreA')
         /\ UNCHANGED <<totalA, targetA>>
<1>1. /\ CoreA.cycles = cyclesA /\ CoreA.left = leftA /\ CoreA.halted = haltedA
      /\ CoreA.dsp = dspA /\ CoreA.samples = samplesA /\ CoreA.timers = timersA
      /\ CoreA.from = fromA /\ CoreA.to = toA /\ CoreA.start = startA
  BY CoreFields DEF CoreA
<1>2. cyclesA \in Nat /\ leftA \in Nat /\ haltedA \in BOOLEAN
  BY <1>1, TogetherTyped DEF PairInv, CoreType
<1>3. SideInv(totalA, targetA, CoreA)
  BY DEF PairInv
<1>4. CASE Pair!A!TickCycle
  <2>1. leftA > 0
    BY <1>4 DEF Pair!A!TickCycle
  <2>2. /\ cyclesA' = cyclesA + 1 /\ leftA' = leftA - 1 /\ haltedA' = haltedA
        /\ fromA' = fromA /\ toA' = toA /\ startA' = startA
        /\ UNCHANGED <<totalA, targetA>>
    BY <1>4 DEF Pair!A!TickCycle, Pair!A!loopVars
  <2>3. timersA' = TickTimers(cyclesA, timersA)
    BY <1>4 DEF Pair!A!TickCycle, TickTimers, Pair!A!PeriodOf, Pair!A!PeriodOf, Pair!A!Ticked, Pair!A!Ticked
  <2>4. /\ dspA' = (IF dspA + 1 >= DspPeriod THEN 0 ELSE dspA + 1)
        /\ samplesA' = (IF dspA + 1 >= DspPeriod THEN samplesA + 1 ELSE samplesA)
    BY <1>4 DEF Pair!A!TickCycle, Pair!A!SampleDue
  <2>5. CoreA' = AfterTick(CoreA)
    BY ONLY <1>1, <2>2, <2>3, <2>4 DEF CoreA, AfterTick
  <2>6. CoreA'.start = CoreA.start
    BY <1>1, <2>2, CoreFields DEF CoreA
  <2>7. CoreA' = After(program, CoreA)
    BY <1>1, <2>1, <2>5 DEF After
  <2> QED
    BY <1>3, <2>2, <2>6, <2>7 DEF SideInv
<1>5. CASE Pair!A!HaltedCycle
  <2>1. /\ haltedA /\ leftA = 0 /\ cyclesA < targetA
        /\ cyclesA' = cyclesA /\ leftA' = 1 /\ haltedA' = haltedA /\ dspA' = dspA
        /\ samplesA' = samplesA /\ timersA' = timersA /\ fromA' = fromA /\ toA' = toA
        /\ startA' = cyclesA /\ UNCHANGED <<totalA, targetA>>
    BY <1>5 DEF Pair!A!HaltedCycle, Pair!A!StartInstruction, Pair!A!NoAccess, Pair!A!busVars,
                Pair!A!loopVars
  <2>2. CoreA' = AfterHalt(CoreA)
    BY ONLY <1>1, <2>1 DEF CoreA, AfterHalt
  <2>3. CoreA'.start = cyclesA
    BY <1>1, <2>2, CoreFields DEF AfterHalt
  <2>4. CoreA' = After(program, CoreA)
    BY <1>1, <2>1, <2>2 DEF After
  <2> QED
    BY <1>3, <2>1, <2>3, <2>4 DEF SideInv
<1>6. CASE Pair!SpcA
  <2> DEFINE len == Inst(program, CoreA).len
             op == Inst(program, CoreA).op
  <2>1. Pair!A!Instruction(len, op)
    BY <1>1, <1>6 DEF Pair!SpcA, Pair!Fetch, Inst
  <2>2. op \in Pair!A!Op
    BY InstIs, TogetherTyped DEF PairInv
  <2> HIDE DEF len, op
  <2>3. /\ ~haltedA /\ leftA = 0 /\ cyclesA < targetA
        /\ cyclesA' = cyclesA /\ leftA' = len /\ dspA' = dspA
        /\ samplesA' = samplesA /\ startA' = cyclesA /\ UNCHANGED <<totalA, targetA>>
        /\ Pair!A!Perform(op)
    BY <2>1 DEF Pair!A!Instruction, Pair!A!StartInstruction, Pair!A!loopVars
  <2>4. /\ haltedA' = HaltedAfter(haltedA, op) /\ timersA' = TimersAfter(timersA, op)
        /\ fromA' = FromAfter(fromA, op) /\ toA' = ToAfter(toA, op)
    BY <2>3, PerformAIs
  <2>5. CoreA' = AfterInstruction(CoreA, len, op)
    BY ONLY <1>1, <2>3, <2>4 DEF CoreA, AfterInstruction
  <2>6. CoreA'.start = cyclesA
    BY <2>3, CoreFields DEF CoreA
  <2>7. CoreA' = After(program, CoreA)
    BY <1>1, <2>3, <2>5 DEF After, len, op
  <2> QED
    BY <1>3, <2>3, <2>6, <2>7 DEF SideInv
<1> QED
  BY <1>4, <1>5, <1>6 DEF Pair!StepA

\* A call raises the target to the quotient of the new total and touches nothing else.
LEMMA CatchUpBIs ==
  ASSUME PairInv, NEW m \in PairDeltas, Pair!B!CatchUp(m)
  PROVE  SideInv(totalB', targetB', CoreB') /\ CoreB' = CoreB
<1>1. /\ totalB \in Nat /\ targetB = totalB \div MasterPerSpc /\ targetB \in Nat
      /\ CoreB.start < targetB
  BY DEF PairInv, SideInv
<1>2. m \in Nat /\ MasterPerSpc \in Nat \ {0}
  BY PairConstants
<1>3. /\ totalB' = totalB + m
      /\ targetB' = LET absolute == (totalB + m) \div MasterPerSpc
                    IN  IF absolute > targetB THEN targetB + (absolute - targetB) ELSE targetB
  BY DEF Pair!B!CatchUp
<1>4. CoreB' = CoreB
  BY DEF Pair!B!CatchUp, Pair!B!busVars, CoreB
<1> DEFINE absolute == (totalB + m) \div MasterPerSpc
<1>5. absolute \in Nat /\ targetB <= absolute
  <2>1. absolute \in Nat
    BY <1>1, <1>2
  <2>2. targetB <= absolute
    BY <1>1, <1>2, DivMonotone
  <2> QED
    BY <2>1, <2>2
<1> HIDE DEF absolute
<1>6. targetB' = absolute
  BY <1>1, <1>3, <1>5 DEF absolute
<1>7. totalB' \in Nat
  BY <1>1, <1>2, <1>3
<1>8. CoreB.start \in Int
  BY TogetherTyped DEF PairInv, CoreType
<1>9. CoreB'.start < targetB'
  BY <1>1, <1>4, <1>5, <1>6, <1>8
<1>10. targetB' = totalB' \div MasterPerSpc
  BY <1>3, <1>6 DEF absolute
<1> QED
  BY <1>4, <1>5, <1>6, <1>7, <1>9, <1>10 DEF SideInv

\* A step of one side is the step its state determines, and it begins before the target.
LEMMA StepBIs ==
  ASSUME PairInv, Pair!StepB
  PROVE  /\ CoreB' = After(program, CoreB) /\ SideInv(totalB', targetB', CoreB')
         /\ UNCHANGED <<totalB, targetB>>
<1>1. /\ CoreB.cycles = cyclesB /\ CoreB.left = leftB /\ CoreB.halted = haltedB
      /\ CoreB.dsp = dspB /\ CoreB.samples = samplesB /\ CoreB.timers = timersB
      /\ CoreB.from = fromB /\ CoreB.to = toB /\ CoreB.start = startB
  BY CoreFields DEF CoreB
<1>2. cyclesB \in Nat /\ leftB \in Nat /\ haltedB \in BOOLEAN
  BY <1>1, TogetherTyped DEF PairInv, CoreType
<1>3. SideInv(totalB, targetB, CoreB)
  BY DEF PairInv
<1>4. CASE Pair!B!TickCycle
  <2>1. leftB > 0
    BY <1>4 DEF Pair!B!TickCycle
  <2>2. /\ cyclesB' = cyclesB + 1 /\ leftB' = leftB - 1 /\ haltedB' = haltedB
        /\ fromB' = fromB /\ toB' = toB /\ startB' = startB
        /\ UNCHANGED <<totalB, targetB>>
    BY <1>4 DEF Pair!B!TickCycle, Pair!B!loopVars
  <2>3. timersB' = TickTimers(cyclesB, timersB)
    BY <1>4 DEF Pair!B!TickCycle, TickTimers, Pair!B!PeriodOf, Pair!A!PeriodOf, Pair!B!Ticked, Pair!A!Ticked
  <2>4. /\ dspB' = (IF dspB + 1 >= DspPeriod THEN 0 ELSE dspB + 1)
        /\ samplesB' = (IF dspB + 1 >= DspPeriod THEN samplesB + 1 ELSE samplesB)
    BY <1>4 DEF Pair!B!TickCycle, Pair!B!SampleDue
  <2>5. CoreB' = AfterTick(CoreB)
    BY ONLY <1>1, <2>2, <2>3, <2>4 DEF CoreB, AfterTick
  <2>6. CoreB'.start = CoreB.start
    BY <1>1, <2>2, CoreFields DEF CoreB
  <2>7. CoreB' = After(program, CoreB)
    BY <1>1, <2>1, <2>5 DEF After
  <2> QED
    BY <1>3, <2>2, <2>6, <2>7 DEF SideInv
<1>5. CASE Pair!B!HaltedCycle
  <2>1. /\ haltedB /\ leftB = 0 /\ cyclesB < targetB
        /\ cyclesB' = cyclesB /\ leftB' = 1 /\ haltedB' = haltedB /\ dspB' = dspB
        /\ samplesB' = samplesB /\ timersB' = timersB /\ fromB' = fromB /\ toB' = toB
        /\ startB' = cyclesB /\ UNCHANGED <<totalB, targetB>>
    BY <1>5 DEF Pair!B!HaltedCycle, Pair!B!StartInstruction, Pair!B!NoAccess, Pair!B!busVars,
                Pair!B!loopVars
  <2>2. CoreB' = AfterHalt(CoreB)
    BY ONLY <1>1, <2>1 DEF CoreB, AfterHalt
  <2>3. CoreB'.start = cyclesB
    BY <1>1, <2>2, CoreFields DEF AfterHalt
  <2>4. CoreB' = After(program, CoreB)
    BY <1>1, <2>1, <2>2 DEF After
  <2> QED
    BY <1>3, <2>1, <2>3, <2>4 DEF SideInv
<1>6. CASE Pair!SpcB
  <2> DEFINE len == Inst(program, CoreB).len
             op == Inst(program, CoreB).op
  <2>1. Pair!B!Instruction(len, op)
    BY <1>1, <1>6 DEF Pair!SpcB, Pair!Fetch, Inst
  <2>2. op \in Pair!A!Op
    BY InstIs, TogetherTyped DEF PairInv
  <2> HIDE DEF len, op
  <2>3. /\ ~haltedB /\ leftB = 0 /\ cyclesB < targetB
        /\ cyclesB' = cyclesB /\ leftB' = len /\ dspB' = dspB
        /\ samplesB' = samplesB /\ startB' = cyclesB /\ UNCHANGED <<totalB, targetB>>
        /\ Pair!B!Perform(op)
    BY <2>1 DEF Pair!B!Instruction, Pair!B!StartInstruction, Pair!B!loopVars
  <2>4. /\ haltedB' = HaltedAfter(haltedB, op) /\ timersB' = TimersAfter(timersB, op)
        /\ fromB' = FromAfter(fromB, op) /\ toB' = ToAfter(toB, op)
    BY <2>3, PerformBIs
  <2>5. CoreB' = AfterInstruction(CoreB, len, op)
    BY ONLY <1>1, <2>3, <2>4 DEF CoreB, AfterInstruction
  <2>6. CoreB'.start = cyclesB
    BY <2>3, CoreFields DEF CoreB
  <2>7. CoreB' = After(program, CoreB)
    BY <1>1, <2>3, <2>5 DEF After, len, op
  <2> QED
    BY <1>3, <2>3, <2>6, <2>7 DEF SideInv
<1> QED
  BY <1>4, <1>5, <1>6 DEF Pair!StepB

\* At power-on both sides are the same state.
LEMMA PairInit == Pair!Init => PairInv
<1> SUFFICES ASSUME Pair!Init PROVE PairInv
  OBVIOUS
<1>1. program \in Programs /\ Pair!A!Init /\ Pair!B!Init
  BY DEF Pair!Init
<1>2. CoreA = CoreB
  BY <1>1 DEF Pair!A!Init, Pair!B!Init, CoreA, CoreB, Pair!A!NewTimer, Pair!B!NewTimer
<1>3. /\ CoreA.cycles = 0 /\ CoreA.left = 0 /\ CoreA.halted = FALSE
      /\ CoreA.start = -1 /\ CoreA.from = [p \in Port |-> 0]
  BY <1>1, CoreFields DEF Pair!A!Init, CoreA
<1>4. CoreType(CoreA)
  <2>1. [p \in Port |-> 0] \in [Port -> Byte]
    BY PairConstants
  <2>2. CoreA.halted \in BOOLEAN
    BY ONLY <1>3
  <2>3. CoreA.cycles \in Nat /\ CoreA.left \in Nat
    BY ONLY <1>3
  <2>4. CoreA.start \in Int /\ CoreA.start <= CoreA.cycles
    BY ONLY <1>3
  <2>5. CoreA.from \in [Port -> Byte]
    BY ONLY <1>3, <2>1
  <2> QED
    BY ONLY <2>2, <2>3, <2>4, <2>5 DEF CoreType
<1>5. Together(program, CoreA, CoreB)
  BY <1>2, <1>4, TogetherAlone
<1>6. 0 = 0 \div MasterPerSpc
  BY PairConstants
<1>7. SideInv(totalA, targetA, CoreA) /\ SideInv(totalB, targetB, CoreB)
  BY <1>1, <1>2, <1>3, <1>6 DEF Pair!A!Init, Pair!B!Init, SideInv
<1> QED
  BY <1>1, <1>5, <1>7 DEF PairInv

\* Idle at the same time, the two sides are in the same state.
LEMMA IdleEqual ==
  ASSUME PairInv, ~Pair!A!Busy, ~Pair!B!Busy, totalA = totalB
  PROVE  CoreA = CoreB /\ targetA = targetB
<1>1. /\ CoreA.cycles = cyclesA /\ CoreA.left = leftA
      /\ CoreB.cycles = cyclesB /\ CoreB.left = leftB
  BY CoreFields DEF CoreA, CoreB
<1>2. cyclesA \in Nat /\ leftA \in Nat /\ cyclesB \in Nat /\ leftB \in Nat
  BY <1>1, TogetherTyped DEF PairInv, CoreType
<1>3. targetA \in Nat /\ targetA = targetB /\ CoreA.start < targetA /\ CoreB.start < targetA
  BY DEF PairInv, SideInv
<1>4. /\ CoreA.left = 0 /\ targetA <= CoreA.cycles
      /\ CoreB.left = 0 /\ targetA <= CoreB.cycles
  BY <1>1, <1>2, <1>3 DEF Pair!A!Busy, Pair!B!Busy
<1>5. Together(program, CoreA, CoreB)
  BY DEF PairInv
<1> HIDE DEF CoreA, CoreB
<1> QED
  BY <1>3, <1>4, <1>5, Meet

\* A port write finds the sides equal and leaves them equal: a new trace begins.
LEMMA CpuWriteKeeps ==
  ASSUME PairInv, NEW p \in Port, NEW v \in Byte, Pair!CpuWrite(p, v), UNCHANGED program
  PROVE  PairInv'
<1>1. CoreA = CoreB /\ targetA = targetB
  BY IdleEqual DEF Pair!CpuWrite, Pair!A!CpuWrite, Pair!B!CpuWrite
<1>2. /\ CoreA.cycles = cyclesA /\ CoreA.left = leftA /\ CoreA.halted = haltedA
      /\ CoreA.dsp = dspA /\ CoreA.samples = samplesA /\ CoreA.timers = timersA
      /\ CoreA.from = fromA /\ CoreA.to = toA /\ CoreA.start = startA
  BY CoreFields DEF CoreA
<1>3. /\ CoreB.cycles = cyclesB /\ CoreB.left = leftB /\ CoreB.halted = haltedB
      /\ CoreB.dsp = dspB /\ CoreB.samples = samplesB /\ CoreB.timers = timersB
      /\ CoreB.from = fromB /\ CoreB.to = toB /\ CoreB.start = startB
  BY CoreFields DEF CoreB
<1>4. /\ fromA' = [fromA EXCEPT ![p] = v]
      /\ UNCHANGED <<totalA, targetA, cyclesA, leftA, haltedA, dspA, samplesA, timersA, toA,
                     startA>>
  BY DEF Pair!CpuWrite, Pair!A!CpuWrite, Pair!A!loopVars
<1>5. /\ fromB' = [fromB EXCEPT ![p] = v]
      /\ UNCHANGED <<totalB, targetB, cyclesB, leftB, haltedB, dspB, samplesB, timersB, toB,
                     startB>>
  BY DEF Pair!CpuWrite, Pair!B!CpuWrite, Pair!B!loopVars
<1>6. CoreA' = CoreB'
  BY <1>1, <1>2, <1>3, <1>4, <1>5 DEF CoreA, CoreB
<1>7. /\ CoreA'.cycles = cyclesA /\ CoreA'.left = leftA /\ CoreA'.halted = haltedA
      /\ CoreA'.from = fromA' /\ CoreA'.start = startA
  BY <1>4, CoreFields DEF CoreA
<1>8. CoreType(CoreA)
  BY TogetherTyped DEF PairInv
<1>9. fromA' \in [Port -> Byte]
  BY <1>2, <1>4, <1>8 DEF CoreType
<1>10. CoreType(CoreA)'
  BY <1>2, <1>7, <1>8, <1>9 DEF CoreType
<1>11. Together(program, CoreA, CoreB)'
  BY <1>6, <1>10, TogetherAlone
<1>12. SideInv(totalA, targetA, CoreA)' /\ SideInv(totalB, targetB, CoreB)'
  <2>1. SideInv(totalA, targetA, CoreA) /\ SideInv(totalB, targetB, CoreB)
    BY DEF PairInv
  <2>2. CoreA'.start = CoreA.start /\ CoreB'.start = CoreB.start
    BY <1>1, <1>2, <1>6, <1>7
  <2> QED
    BY <2>1, <2>2, <1>4, <1>5 DEF SideInv
<1> QED
  BY <1>11, <1>12 DEF PairInv

\* Every step of either side and every port write preserves the invariant.
LEMMA PairNext == PairInv /\ [Pair!Next]_(Pair!vars) => PairInv'
<1> SUFFICES ASSUME PairInv, [Pair!Next]_(Pair!vars) PROVE PairInv'
  OBVIOUS
<1>1. /\ program \in Programs /\ Together(program, CoreA, CoreB)
      /\ SideInv(totalA, targetA, CoreA) /\ SideInv(totalB, targetB, CoreB)
  BY DEF PairInv
<1>2. UNCHANGED Pair!varsA => UNCHANGED <<CoreA, totalA, targetA>>
  BY DEF Pair!varsA, CoreA
<1>3. UNCHANGED Pair!varsB => UNCHANGED <<CoreB, totalB, targetB>>
  BY DEF Pair!varsB, CoreB
<1>4. ASSUME Pair!CatchUpA, UNCHANGED <<program, Pair!varsB>>
      PROVE  PairInv'
  <2>1. SideInv(totalA', targetA', CoreA') /\ CoreA' = CoreA
    BY <1>4, CatchUpAIs DEF Pair!CatchUpA
  <2> QED
    BY <1>1, <1>3, <1>4, <2>1 DEF PairInv
<1>5. ASSUME Pair!StepA, UNCHANGED <<program, Pair!varsB>>
      PROVE  PairInv'
  <2>1. CoreA' = After(program, CoreA) /\ SideInv(totalA', targetA', CoreA')
    BY <1>5, StepAIs
  <2>2. Together(program, CoreA', CoreB)
    BY <1>1, <2>1, Follow
  <2> QED
    BY <1>1, <1>3, <1>5, <2>1, <2>2 DEF PairInv
<1>6. ASSUME Pair!CatchUpB, UNCHANGED <<program, Pair!varsA>>
      PROVE  PairInv'
  <2>1. SideInv(totalB', targetB', CoreB') /\ CoreB' = CoreB
    BY <1>6, CatchUpBIs DEF Pair!CatchUpB
  <2> QED
    BY <1>1, <1>2, <1>6, <2>1 DEF PairInv
<1>7. ASSUME Pair!StepB, UNCHANGED <<program, Pair!varsA>>
      PROVE  PairInv'
  <2>1. CoreB' = After(program, CoreB) /\ SideInv(totalB', targetB', CoreB')
    BY <1>7, StepBIs
  <2>2. Together(program, CoreA, CoreB')
    BY <1>1, <2>1, Follow, TogetherSymmetric
  <2> QED
    BY <1>1, <1>2, <1>7, <2>1, <2>2 DEF PairInv
<1>8. ASSUME NEW p \in Port, NEW v \in Byte, Pair!CpuWrite(p, v), UNCHANGED program
      PROVE  PairInv'
  BY <1>8, CpuWriteKeeps
<1>9. CASE UNCHANGED Pair!vars
  BY <1>1, <1>2, <1>3, <1>9 DEF Pair!vars, PairInv
<1> QED
  BY <1>4, <1>5, <1>6, <1>7, <1>8, <1>9 DEF Pair!Next

\* Two APUs that run the same program through the same time are in the same state
\* whenever both are idle, however the time was cut into calls of catch_up and
\* whatever ports were written in it (spc700/mod.rs:478-494).
THEOREM DistributivityHolds == MCSpec => []Distributivity
<1>1. MCInit => PairInv
  BY PairInit DEF MCInit
<1>2. PairInv /\ [MCNext]_MCVars => PairInv'
  <2> SUFFICES ASSUME PairInv, [MCNext]_MCVars PROVE PairInv'
    OBVIOUS
  <2>1. [Pair!Next]_(Pair!vars)
    BY DEF MCNext, MCVars, One, pairVars, Pair!vars, Pair!varsA, Pair!varsB
  <2> QED
    BY <2>1, PairNext
<1>3. PairInv => Distributivity
  <2> SUFFICES ASSUME PairInv, ~Pair!A!Busy, ~Pair!B!Busy, totalA = totalB
               PROVE  Pair!varsA = Pair!varsB
    BY DEF Distributivity, Pair!Distributivity
  <2>1. CoreA = CoreB /\ targetA = targetB
    BY IdleEqual
  <2> QED
    BY <2>1, CoreFields DEF CoreA, CoreB, Pair!varsA, Pair!varsB
<1> QED
  BY <1>1, <1>2, <1>3, PTL DEF MCSpec
=============================================================================
