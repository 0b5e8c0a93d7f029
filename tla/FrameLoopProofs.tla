-------------------------- MODULE FrameLoopProofs --------------------------
(***************************************************************************)
(* Proofs about FrameLoop, for every scanline length, DMA length and cost, *)
(* HDMA cost, instruction length, program and number of frames.            *)
(***************************************************************************)
EXTENDS FrameLoop, TLAPS

-----------------------------------------------------------------------------
(* Type correctness.                                                       *)

LEMMA InitType == Init => TypeOK
<1>. SUFFICES ASSUME Init
              PROVE  TypeOK
  OBVIOUS
<1>1. TimeTypes
  BY DEF Init, TimeTypes
<1>2. FlagTypes
  BY Zenon DEF Init, FlagTypes
<1>3. RangeTypes
  <2>1. Scanlines \in Nat \ {0} /\ JoyBusyCycles \in Nat \ {0} /\ NoMatch \in Nat
    BY FrameAssumption
  <2>2. [nmi |-> FALSE, irq |-> 0, joy |-> FALSE] \in Nmitimen
    BY DEF Nmitimen
  <2>3. program \subseteq Effects
    BY Zenon DEF Init, Effects
  <2>. QED
    BY <2>1, <2>2, <2>3 DEF Init, RangeTypes
<1>. QED
  BY <1>1, <1>2, <1>3 DEF TypeOK

-----------------------------------------------------------------------------
(* The clocks.  The APU has been credited with everything up to            *)
(* lastApuSync; the bus clock is never behind it, and never ahead of the   *)
(* CPU clock, the debt and the bytes not yet booked together.  TypeOK is   *)
(* not inductive by itself, for a sync to an earlier time would take credit *)
(* away.                                                                   *)

ClockInv ==
  /\ apuTotal = lastApuSync
  /\ lastApuSync <= masterClock
  /\ masterClock + (IF pc = "dma" THEN sinceSync ELSE 0) <= cycles + pendingDma + dmaMoved
  /\ pc # "dma" => dmaMoved = 0
  /\ pc \notin {"dma", "post"} => masterClock = cycles
  /\ pc \in {"idle", "line", "hdma"} => lastApuSync = cycles
  /\ pc \in {"idle", "line"} => pendingDma = 0
  /\ pc = "cpu" => pendingDma = 0 \/ cycles < deadline

\* A sync to a time that is not past brings the APU to exactly that time.
LEMMA SyncForward ==
  ASSUME TimeTypes, ClockInv, NEW mc \in Nat, lastApuSync <= mc, SyncApu(mc)
  PROVE  apuTotal' = mc /\ lastApuSync' = mc
BY DEF TimeTypes, ClockInv, SyncApu

\* No step runs the clocks backwards.
LEMMA StepClock ==
  ASSUME TimeTypes, ClockInv, RangeTypes, [Next]_vars
  PROVE  TimeTypes' /\ ClockInv' /\ apuTotal' >= apuTotal
<1>. USE FrameAssumption DEF TimeTypes, ClockInv, RangeTypes,
       clockVars, dmaVars, regVars, cpuVars, joyVars, histVars
<1>1. CASE RunFrame
  BY <1>1 DEF RunFrame
<1>2. CASE StartScanline
  BY <1>2 DEF StartScanline, EnterVBlank, LeaveVBlank
<1>3. CASE EndScanline
  <2>1. apuTotal' = cycles /\ lastApuSync' = cycles
    BY <1>3, SyncForward DEF EndScanline
  <2>. QED
    BY <1>3, <2>1 DEF EndScanline, NextScanline
<1>4. CASE HdmaLine
  BY <1>4 DEF HdmaLine, NextScanline, SyncApu
<1>5. CASE Stall
  BY <1>5 DEF Stall, BeforeStep, StallElapsed
<1>6. CASE TakeNmi
  BY <1>6 DEF TakeNmi, BeforeStep, EnterHandler
<1>7. CASE TakeIrq
  BY <1>7 DEF TakeIrq, BeforeStep, EnterHandler
<1>8. ASSUME NEW e \in program, Execute(e)
      PROVE  TimeTypes' /\ ClockInv' /\ apuTotal' >= apuTotal
  <2>1. /\ lastApuSync' \in Nat /\ lastApuSync' <= masterClock
        /\ apuTotal' = lastApuSync' /\ apuTotal' >= apuTotal
    BY <1>8 DEF Execute, BeforeStep, SyncApu
  <2>. QED
    BY <1>8, <2>1 DEF Execute, BeforeStep
<1>9. ASSUME NEW e \in program, StartDma(e)
      PROVE  TimeTypes' /\ ClockInv' /\ apuTotal' >= apuTotal
  BY <1>9 DEF StartDma, BeforeStep
<1>10. ASSUME NEW toPort \in BOOLEAN, DmaByte(toPort)
       PROVE  TimeTypes' /\ ClockInv' /\ apuTotal' >= apuTotal
  BY <1>10 DEF DmaByte, SyncApu
<1>11. CASE EndDma
  BY <1>11 DEF EndDma, SyncApu
<1>12. CASE AfterStep
  BY <1>12 DEF AfterStep, Spend, SyncApu
<1>13. CASE UNCHANGED vars
  BY <1>13 DEF vars
<1>. QED
  BY <1>1, <1>2, <1>3, <1>4, <1>5, <1>6, <1>7, <1>8, <1>9, <1>10, <1>11, <1>12,
     <1>13 DEF Next

\* The flags that the head of the instruction loop may touch.
LEMMA BeforeStepFlags ==
  ASSUME FlagTypes, BeforeStep
  PROVE  /\ hblank' \in BOOLEAN /\ vblank' \in BOOLEAN /\ joyBusy' \in BOOLEAN
         /\ (irqFlag \/ IrqFires) \in BOOLEAN
         /\ IrqAsserted \in BOOLEAN
<1>1. hblank' \in BOOLEAN
  BY Zenon DEF BeforeStep
<1>2. vblank' \in BOOLEAN /\ joyBusy' \in BOOLEAN
  BY Zenon DEF FlagTypes, BeforeStep, joyVars
<1>3. (irqFlag \/ IrqFires) \in BOOLEAN /\ IrqAsserted \in BOOLEAN
  BY Zenon DEF IrqAsserted
<1>. QED
  BY Zenon, <1>1, <1>2, <1>3

LEMMA StepFlagTypes ==
  ASSUME FlagTypes, RangeTypes, [Next]_vars
  PROVE  FlagTypes'
<1>1. CASE RunFrame
  BY Zenon, <1>1 DEF RunFrame, FlagTypes, regVars, cpuVars, joyVars
<1>2. CASE StartScanline
  <2>1. nmitimen.joy \in BOOLEAN
    BY DEF RangeTypes, Nmitimen
  <2>2. vblank' \in BOOLEAN /\ nmiFlag' \in BOOLEAN
    BY Zenon, <1>2 DEF StartScanline, EnterVBlank, LeaveVBlank, FlagTypes
  <2>3. nmiPending' \in BOOLEAN
    BY Zenon, <1>2 DEF StartScanline, EnterVBlank, LeaveVBlank, FlagTypes
  <2>4. joyBusy' \in BOOLEAN
    BY Zenon, <1>2, <2>1 DEF StartScanline, EnterVBlank, LeaveVBlank, FlagTypes, joyVars
  <2>5. hblank' \in BOOLEAN
    BY Zenon, <1>2 DEF StartScanline
  <2>6. UNCHANGED <<irqFlag, hdmaen, irqPending, iFlag>>
    BY <1>2 DEF StartScanline, regVars
  <2>. QED
    BY Zenon, <2>2, <2>3, <2>4, <2>5, <2>6 DEF FlagTypes
<1>3. CASE EndScanline
  BY Zenon, <1>3 DEF EndScanline, FlagTypes, regVars, cpuVars, joyVars
<1>4. CASE HdmaLine
  BY Zenon, <1>4 DEF HdmaLine, FlagTypes, regVars, cpuVars, joyVars
<1>5. CASE Stall
  <2>1. BeforeStep
    BY Zenon, <1>5 DEF Stall
  <2>2. irqFlag' \in BOOLEAN /\ irqPending' \in BOOLEAN
    BY Zenon, <1>5, <2>1, BeforeStepFlags DEF Stall
  <2>3. UNCHANGED <<nmiFlag, hdmaen, nmiPending, iFlag>>
    BY <1>5 DEF Stall, regVars
  <2>. QED
    BY Zenon, <2>1, <2>2, <2>3, BeforeStepFlags DEF FlagTypes
<1>6. CASE TakeNmi
  <2>1. BeforeStep
    BY Zenon, <1>6 DEF TakeNmi
  <2>2. irqFlag' \in BOOLEAN /\ irqPending' \in BOOLEAN /\ nmiPending' \in BOOLEAN
    BY Zenon, <1>6, <2>1, BeforeStepFlags DEF TakeNmi, EnterHandler
  <2>3. iFlag' \in BOOLEAN /\ UNCHANGED <<nmiFlag, hdmaen>>
    BY <1>6 DEF TakeNmi, EnterHandler, regVars
  <2>. QED
    BY Zenon, <2>1, <2>2, <2>3, BeforeStepFlags DEF FlagTypes
<1>7. CASE TakeIrq
  <2>1. BeforeStep
    BY Zenon, <1>7 DEF TakeIrq
  <2>2. irqFlag' \in BOOLEAN /\ irqPending' \in BOOLEAN
    BY Zenon, <1>7, <2>1, BeforeStepFlags DEF TakeIrq, EnterHandler
  <2>3. iFlag' \in BOOLEAN /\ UNCHANGED <<nmiFlag, nmiPending, hdmaen>>
    BY <1>7 DEF TakeIrq, EnterHandler, regVars
  <2>. QED
    BY Zenon, <2>1, <2>2, <2>3, BeforeStepFlags DEF FlagTypes
<1>8. ASSUME NEW e \in program, Execute(e)
      PROVE  FlagTypes'
  <2>1. BeforeStep
    BY Zenon, <1>8 DEF Execute
  <2>2. irqFlag' \in BOOLEAN /\ irqPending' \in BOOLEAN /\ nmiFlag' \in BOOLEAN
    BY Zenon, <1>8, <2>1, BeforeStepFlags DEF Execute
  <2>3. e.kind = "hdmaen" => e.val \in BOOLEAN
    <3>1. e \in Effects
      BY DEF RangeTypes
    <3>. QED
      BY <3>1, FrameAssumption
  <2>4. hdmaen' \in BOOLEAN
    BY Zenon, <1>8, <2>3 DEF Execute, FlagTypes
  <2>5. iFlag' \in BOOLEAN
    BY Zenon, <1>8 DEF Execute, FlagTypes
  <2>6. UNCHANGED nmiPending
    BY <1>8 DEF Execute
  <2>. QED
    BY Zenon, <2>1, <2>2, <2>4, <2>5, <2>6, BeforeStepFlags DEF FlagTypes
<1>9. ASSUME NEW e \in program, StartDma(e)
      PROVE  FlagTypes'
  <2>1. BeforeStep
    BY Zenon, <1>9 DEF StartDma
  <2>2. irqFlag' \in BOOLEAN /\ irqPending' \in BOOLEAN
    BY Zenon, <1>9, <2>1, BeforeStepFlags DEF StartDma
  <2>3. UNCHANGED <<nmiFlag, hdmaen, nmiPending, iFlag>>
    BY <1>9 DEF StartDma, regVars
  <2>. QED
    BY Zenon, <2>1, <2>2, <2>3, BeforeStepFlags DEF FlagTypes
<1>10. ASSUME NEW toPort \in BOOLEAN, DmaByte(toPort)
       PROVE  FlagTypes'
  BY Zenon, <1>10 DEF DmaByte, FlagTypes, regVars, cpuVars, joyVars
<1>11. CASE EndDma
  BY Zenon, <1>11 DEF EndDma, FlagTypes, regVars, cpuVars, joyVars
<1>12. CASE AfterStep
  <2>1. joyBusy' \in BOOLEAN
    <3>1. JoyCountdown
      BY <1>12 DEF AfterStep
    <3>2. CASE joyBusy
      <4>1. joyBusy' = (elapsed < joyTimer)
        BY <3>1, <3>2 DEF JoyCountdown
      <4>2. CASE elapsed < joyTimer
        BY <4>1, <4>2
      <4>3. CASE ~(elapsed < joyTimer)
        BY <4>1, <4>3
      <4>. QED
        BY <4>2, <4>3
    <3>3. CASE ~joyBusy
      BY Zenon, <3>1, <3>3 DEF JoyCountdown, FlagTypes
    <3>. QED
      BY Zenon, <3>2, <3>3
  <2>. QED
    BY Zenon, <1>12, <2>1 DEF AfterStep, FlagTypes, regVars, cpuVars
<1>13. CASE UNCHANGED vars
  BY Zenon, <1>13 DEF vars, FlagTypes, regVars, cpuVars, joyVars
<1>. QED
  BY <1>1, <1>2, <1>3, <1>4, <1>5, <1>6, <1>7, <1>8, <1>9, <1>10, <1>11, <1>12,
     <1>13 DEF Next

LEMMA StepRangeTypes ==
  ASSUME TimeTypes, RangeTypes, [Next]_vars
  PROVE  RangeTypes'
<1>0. program' = program
  BY DEF Next, vars
<1>. USE FrameAssumption, <1>0 DEF RangeTypes,
       clockVars, dmaVars, regVars, cpuVars, joyVars, histVars
<1>1. CASE RunFrame
  BY <1>1 DEF RunFrame
<1>2. CASE StartScanline
  <2>1. irqMode' \in 0..3
    BY <1>2 DEF StartScanline, Nmitimen
  <2>2. joyTimer' \in 0..JoyBusyCycles
    BY <1>2 DEF StartScanline, EnterVBlank, LeaveVBlank
  <2>. QED
    BY <1>2, <2>1, <2>2 DEF StartScanline
<1>3. CASE EndScanline
  BY <1>3 DEF EndScanline, NextScanline
<1>4. CASE HdmaLine
  BY <1>4 DEF HdmaLine, NextScanline
<1>5. CASE Stall
  BY <1>5 DEF Stall, BeforeStep
<1>6. CASE TakeNmi
  BY <1>6 DEF TakeNmi, BeforeStep, EnterHandler
<1>7. CASE TakeIrq
  BY <1>7 DEF TakeIrq, BeforeStep, EnterHandler
<1>8. ASSUME NEW e \in program, Execute(e)
      PROVE  RangeTypes'
  BY <1>8 DEF Execute, BeforeStep
<1>9. ASSUME NEW e \in program, StartDma(e)
      PROVE  RangeTypes'
  BY <1>9 DEF StartDma, BeforeStep
<1>10. ASSUME NEW toPort \in BOOLEAN, DmaByte(toPort)
       PROVE  RangeTypes'
  BY <1>10 DEF DmaByte
<1>11. CASE EndDma
  BY <1>11 DEF EndDma
<1>12. CASE AfterStep
  <2>1. joyTimer' \in 0..JoyBusyCycles
    BY <1>12 DEF AfterStep, JoyCountdown, TimeTypes
  <2>. QED
    BY <1>12, <2>1 DEF AfterStep
<1>13. CASE UNCHANGED vars
  BY <1>13 DEF vars
<1>. QED
  BY <1>1, <1>2, <1>3, <1>4, <1>5, <1>6, <1>7, <1>8, <1>9, <1>10, <1>11, <1>12,
     <1>13 DEF Next

-----------------------------------------------------------------------------
(* The NMI.  A CPU that is not stopped has a request pending only between  *)
(* the head of the V-blank scanline and its first step on it, and that     *)
(* step takes it; until then none has been taken in the frame.             *)

NmiInv ==
  /\ nmiPending /\ cpuMode # "stp" =>
       pc = "cpu" /\ scanline = VBlankStart /\ cycles < deadline /\ nmisTaken = 0
  /\ nmisTaken <= 1
  /\ pc # "idle" /\ scanline < VBlankStart => nmisTaken = 0
  /\ pc = "line" /\ scanline = VBlankStart => nmisTaken = 0

\* Going on to the next scanline, or to the next frame, keeps the invariant once
\* the NMI has been taken.
LEMMA NextScanlineNmi ==
  ASSUME RangeTypes, NmiInv, pc \in {"cpu", "hdma"}, NextScanline,
         nmiPending => cpuMode = "stp",
         UNCHANGED <<nmiPending, cpuMode, nmisTaken>>
  PROVE  NmiInv'
<1>1. VBlankStart \in Int /\ scanline \in Int
  BY FrameAssumption DEF RangeTypes
<1>2. (nmiPending /\ cpuMode # "stp")' = FALSE
  OBVIOUS
<1>3. nmisTaken' <= 1
  BY DEF NmiInv
<1>4. CASE scanline = Scanlines - 1
  <2>1. pc' = "idle"
    BY <1>4 DEF NextScanline
  <2>. QED
    BY <1>3, <2>1 DEF NmiInv
<1>5. CASE scanline # Scanlines - 1
  <2>1. pc' = "line" /\ scanline' = scanline + 1
    BY <1>5 DEF NextScanline
  <2>2. scanline < VBlankStart => nmisTaken = 0
    <3>1. pc # "idle"
      OBVIOUS
    <3>2. pc # "idle" /\ scanline < VBlankStart => nmisTaken = 0
      BY Zenon DEF NmiInv
    <3>. QED
      BY Zenon, <3>1, <3>2
  <2>. QED
    BY <1>1, <1>3, <2>1, <2>2 DEF NmiInv
<1>. QED
  BY <1>4, <1>5

LEMMA StepNmi ==
  ASSUME TimeTypes, RangeTypes, NmiInv, [Next]_vars
  PROVE  NmiInv'
<1>. USE FrameAssumption DEF TimeTypes, RangeTypes, NmiInv, cpuVars, clockVars
<1>1. CASE RunFrame
  BY <1>1 DEF RunFrame
<1>2. CASE StartScanline
  <2>1. CASE VBlankBegins
    BY <1>2, <2>1 DEF StartScanline, EnterVBlank, VBlankBegins
  <2>2. CASE ~VBlankBegins
    BY <1>2, <2>2 DEF StartScanline, LeaveVBlank, VBlankBegins
  <2>. QED
    BY <2>1, <2>2
<1>3. CASE EndScanline
  <2>1. nmiPending => cpuMode = "stp"
    BY <1>3 DEF EndScanline
  <2>2. pc = "cpu" /\ UNCHANGED <<nmiPending, cpuMode, nmisTaken>>
    BY <1>3 DEF EndScanline, histVars
  <2>3. CASE scanline \in 1..VisibleScanlines
    BY <1>3, <2>1, <2>2, <2>3 DEF EndScanline
  <2>4. CASE scanline \notin 1..VisibleScanlines
    BY <1>3, <2>1, <2>2, <2>4, NextScanlineNmi DEF EndScanline
  <2>. QED
    BY <2>3, <2>4
<1>4. CASE HdmaLine
  <2>1. pc = "hdma" /\ NextScanline
    BY <1>4 DEF HdmaLine
  <2>2. (nmiPending => cpuMode = "stp") /\ UNCHANGED <<nmiPending, cpuMode, nmisTaken>>
    BY <1>4, <2>1 DEF HdmaLine, histVars
  <2>. QED
    BY <2>1, <2>2, NextScanlineNmi
<1>5. CASE Stall
  BY <1>5 DEF Stall, MustStall, BeforeStep
<1>6. CASE TakeNmi
  BY <1>6 DEF TakeNmi, BeforeStep, EnterHandler
<1>7. CASE TakeIrq
  BY <1>7 DEF TakeIrq, BeforeStep, EnterHandler
<1>8. ASSUME NEW e \in program, Execute(e)
      PROVE  NmiInv'
  BY <1>8 DEF Execute, BeforeStep
<1>9. ASSUME NEW e \in program, StartDma(e)
      PROVE  NmiInv'
  BY <1>9 DEF StartDma, BeforeStep
<1>10. ASSUME NEW toPort \in BOOLEAN, DmaByte(toPort)
       PROVE  NmiInv'
  BY <1>10 DEF DmaByte, histVars
<1>11. CASE EndDma
  BY <1>11 DEF EndDma, histVars
<1>12. CASE AfterStep
  BY <1>12 DEF AfterStep, histVars
<1>13. CASE UNCHANGED vars
  BY <1>13 DEF vars, histVars
<1>. QED
  BY <1>1, <1>2, <1>3, <1>4, <1>5, <1>6, <1>7, <1>8, <1>9, <1>10, <1>11, <1>12,
     <1>13 DEF Next

-----------------------------------------------------------------------------
(* The auto-joypad read.  What the timer has left and what has passed since *)
(* the read began make up at least its length: the timer lags, it never     *)
(* runs ahead.                                                              *)

JoyInv == joyBusy => cycles + joyTimer >= joyStart + JoyBusyCycles

\* The arithmetic of a countdown by the time that has passed.
LEMMA Countdown ==
  ASSUME NEW now \in Nat, NEW next \in Nat, NEW step \in Nat, NEW left \in Nat,
         NEW start \in Nat, NEW length \in Nat,
         now + left >= start + length, next >= now + step
  PROVE  /\ step < left => next + (left - step) >= start + length
         /\ ~(step < left) => next - start >= length
OBVIOUS

LEMMA StepJoy ==
  ASSUME TimeTypes, RangeTypes, JoyInv, [Next]_vars
  PROVE  JoyInv'
<1>. USE FrameAssumption DEF TimeTypes, RangeTypes, JoyInv, joyVars, clockVars
<1>1. CASE RunFrame
  BY <1>1 DEF RunFrame
<1>2. CASE StartScanline
  <2>1. CASE VBlankBegins
    <3>1. EnterVBlank /\ cycles' = cycles
      BY <1>2, <2>1 DEF StartScanline
    <3>2. CASE nmitimen.joy
      BY <3>1, <3>2 DEF EnterVBlank
    <3>3. CASE ~nmitimen.joy
      BY <3>1, <3>3 DEF EnterVBlank
    <3>. QED
      BY <3>2, <3>3
  <2>2. CASE ~VBlankBegins
    BY <1>2, <2>2 DEF StartScanline, LeaveVBlank
  <2>. QED
    BY <2>1, <2>2
<1>3. CASE EndScanline
  BY <1>3 DEF EndScanline
<1>4. CASE HdmaLine
  BY <1>4 DEF HdmaLine
<1>5. CASE Stall
  BY <1>5 DEF Stall, BeforeStep
<1>6. CASE TakeNmi
  BY <1>6 DEF TakeNmi, BeforeStep
<1>7. CASE TakeIrq
  BY <1>7 DEF TakeIrq, BeforeStep
<1>8. ASSUME NEW e \in program, Execute(e)
      PROVE  JoyInv'
  BY <1>8 DEF Execute, BeforeStep
<1>9. ASSUME NEW e \in program, StartDma(e)
      PROVE  JoyInv'
  BY <1>9 DEF StartDma, BeforeStep
<1>10. ASSUME NEW toPort \in BOOLEAN, DmaByte(toPort)
       PROVE  JoyInv'
  BY <1>10 DEF DmaByte
<1>11. CASE EndDma
  BY <1>11 DEF EndDma
<1>12. CASE AfterStep
  <2>1. cycles' >= cycles + elapsed /\ cycles' \in Nat /\ joyStart' = joyStart
    BY <1>12 DEF AfterStep, Spend
  <2>2. CASE joyBusy /\ elapsed < joyTimer
    <3>1. joyTimer' = joyTimer - elapsed /\ joyTimer \in Nat
      BY <1>12, <2>2 DEF AfterStep, JoyCountdown
    <3>2. cycles + joyTimer >= joyStart + JoyBusyCycles
      BY Zenon, <2>2
    <3>3. cycles' + joyTimer' >= joyStart' + JoyBusyCycles
      <4>1. cycles' + (joyTimer - elapsed) >= joyStart + JoyBusyCycles
        BY Countdown, <2>1, <2>2, <3>1, <3>2
      <4>. QED
        BY <2>1, <3>1, <4>1
    <3>. QED
      BY Zenon, <3>3
  <2>3. CASE joyBusy /\ ~(elapsed < joyTimer)
    <3>1. joyBusy' = (elapsed < joyTimer)
      BY <1>12, <2>3 DEF AfterStep, JoyCountdown
    <3>. QED
      BY <2>3, <3>1
  <2>4. CASE ~joyBusy
    BY <1>12, <2>4 DEF AfterStep, JoyCountdown
  <2>. QED
    BY <2>2, <2>3, <2>4
<1>13. CASE UNCHANGED vars
  BY <1>13 DEF vars
<1>. QED
  BY <1>1, <1>2, <1>3, <1>4, <1>5, <1>6, <1>7, <1>8, <1>9, <1>10, <1>11, <1>12,
     <1>13 DEF Next

\* The step that clears the busy flag is the end of an instruction longer than
\* what the timer has left.
LEMMA ClearedInTime ==
  ASSUME TimeTypes, RangeTypes, JoyInv, Next, joyBusy, ~joyBusy', pc = "post"
  PROVE  cycles' - joyStart >= JoyBusyCycles
<1>1. AfterStep
  BY DEF Next, RunFrame, StartScanline, EndScanline, HdmaLine, Stall, TakeNmi, TakeIrq,
         Execute, StartDma, DmaByte, EndDma, BeforeStep
<1>2. cycles' >= cycles + elapsed /\ cycles' \in Nat
  BY <1>1 DEF AfterStep, Spend, TimeTypes
<1>3. ~(elapsed < joyTimer)
  BY <1>1 DEF AfterStep, JoyCountdown
<1>4. joyTimer \in Nat /\ JoyBusyCycles \in Nat
  BY FrameAssumption DEF RangeTypes
<1>5. cycles + joyTimer >= joyStart + JoyBusyCycles
  BY Zenon DEF JoyInv
<1>6. cycles \in Nat /\ elapsed \in Nat /\ joyStart \in Nat
  BY DEF TimeTypes
<1>. QED
  BY Countdown, <1>2, <1>3, <1>4, <1>5, <1>6

-----------------------------------------------------------------------------
(* The inductive invariant and what follows from it.                       *)

IInv == TypeOK /\ ClockInv /\ NmiInv /\ JoyInv

LEMMA InitInv == Init => IInv
<1>. SUFFICES ASSUME Init
              PROVE  IInv
  OBVIOUS
<1>1. TypeOK
  BY InitType
<1>2. ClockInv /\ JoyInv
  BY DEF Init, ClockInv, JoyInv
<1>3. NmiInv
  BY DEF Init, NmiInv
<1>. QED
  BY <1>1, <1>2, <1>3 DEF IInv

LEMMA StepInv == IInv /\ [Next]_vars => IInv'
<1>. SUFFICES ASSUME IInv, [Next]_vars
              PROVE  IInv'
  OBVIOUS
<1>1. TimeTypes /\ FlagTypes /\ RangeTypes /\ ClockInv /\ NmiInv /\ JoyInv
  BY DEF IInv, TypeOK
<1>2. TimeTypes' /\ ClockInv'
  BY <1>1, StepClock
<1>3. FlagTypes' /\ RangeTypes'
  BY <1>1, StepFlagTypes, StepRangeTypes
<1>4. NmiInv' /\ JoyInv'
  BY <1>1, StepNmi, StepJoy
<1>. QED
  BY <1>2, <1>3, <1>4 DEF IInv, TypeOK

\* The invariant holds in every reachable state of the frame loop.
THEOREM Invariance == Spec => []IInv
BY InitInv, StepInv, PTL DEF Spec

\* Every variable of the frame loop keeps its type; that the APU's credit is a
\* natural number already needs every sync to be to a later time.
THEOREM TypeCorrect == Spec => []TypeOK
<1>1. IInv => TypeOK
  BY DEF IInv
<1>. QED
  BY <1>1, Invariance, PTL

\* Every cycle spent by instructions, DMA and HDMA has been credited to the APU
\* exactly once whenever a scanline or a frame begins.
THEOREM CreditExactHolds == Spec => []CreditExact
<1>1. IInv => CreditExact
  BY DEF IInv, ClockInv, CreditExact
<1>. QED
  BY <1>1, Invariance, PTL

\* The APU is ahead of the CPU's clock by no more than DMA has booked and not yet
\* spent and, in mid-transfer, has moved and not yet booked.
THEOREM ApuNotAheadHolds == Spec => []ApuNotAhead
<1>1. IInv => ApuNotAhead
  BY DEF IInv, TypeOK, TimeTypes, RangeTypes, ClockInv, ApuNotAhead
<1>. QED
  BY <1>1, Invariance, PTL

\* No sync of the APU goes back in time: sync_apu's debug assertion never fails.
THEOREM NoClockInversionHolds == Spec => NoClockInversion
<1>1. IInv /\ [Next]_vars => [apuTotal' >= apuTotal]_vars
  BY StepClock DEF IInv, TypeOK
<1>. QED
  BY <1>1, Invariance, PTL DEF Spec, NoClockInversion

\* A pending NMI of a CPU that has not stopped belongs to this V-blank's scanline.
THEOREM NmiPromptHolds == Spec => []NmiPrompt
<1>1. IInv => NmiPrompt
  BY DEF IInv, NmiInv, NmiPrompt
<1>. QED
  BY <1>1, Invariance, PTL

\* At most one NMI is entered per frame, whatever the program writes and when.
THEOREM OneNmiPerFrameHolds == Spec => []OneNmiPerFrame
<1>1. IInv => OneNmiPerFrame
  BY DEF IInv, NmiInv, OneNmiPerFrame
<1>. QED
  BY <1>1, Invariance, PTL

\* When the busy flag of the auto-joypad read clears, its time has passed.
THEOREM JoyNotEarlyHolds == Spec => JoyNotEarly
<1>. DEFINE A == joyBusy /\ ~joyBusy' /\ pc = "post" => cycles' - joyStart >= JoyBusyCycles
<1>1. IInv /\ [Next]_vars => [A]_vars
  BY ClearedInTime DEF IInv, TypeOK
<1>. QED
  BY <1>1, Invariance, PTL DEF Spec, JoyNotEarly
=============================================================================
