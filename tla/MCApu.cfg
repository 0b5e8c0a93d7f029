SPECIFICATION MCSpec
CONSTANTS
  MasterPerSpc = 3
  SlowTimerPeriod = 4
  FastTimerPeriod = 2
  DspPeriod = 4
  CounterSize = 2
  InstCycles = {2, 3}
  Timer = {2}
  TimerTargets = {1, 3}
  PowerOnTarget <- MCPowerOnTarget
  Port = {0}
  Byte = {0, 1}
  PortBoot <- MCPortBoot
  MasterDeltas = {0, 1, 2, 7}
  MaxMaster = 20
  Programs <- MCPrograms
  PolledPort = 0
  WriteTimes = {7, 12, 30}
  PairLengths = {2, 3, 5}
  PairTimer = {0, 2}
  PairTargets = {1, 2}
  PairPowerOn <- MCPairPowerOn
  PairDeltas = {1, 2, 8}
  PairMaster = 30
INVARIANTS TypeOK Causality SampleClock ExactTarget Distributivity
PROPERTIES CatchUpReturns IsLazyClock
