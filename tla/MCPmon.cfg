SPECIFICATION SoundSpec
CONSTANTS
  Voice = {0, 1}
  Layouts <- MCLayouts
  RamSize = 64
  Outputs = {0, 16384}
  CounterWrap = 2
  Unknown = 7
  EchoUnit = 4
  EsaUnit = 4
  Songs <- MCDuet
  MaxWrites = 6
PROPERTIES ModulatedByPredecessor
