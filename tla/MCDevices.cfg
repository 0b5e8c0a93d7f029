SPECIFICATION DevicesSpec
CONSTANTS
  Programs <- MCPrograms
  Datum <- MCDatum
  Buttons <- MCButtons
  MaxAccesses = 6
  MaxReads = 18
  Voice = {0}
  Layouts <- MCLayouts
  RamSize = 64
  Outputs = {0}
  CounterWrap = 2
  Unknown = 7
  EchoUnit = 4
  EsaUnit = 4
  Songs <- MCSongs
  MaxWrites = 4
INVARIANTS BlockLands ReadsBack PairExact GroupsInOrder EchoDelay
PROPERTIES KeyOffEnds
CHECK_DEADLOCK FALSE
