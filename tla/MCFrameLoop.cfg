SPECIFICATION Spec
CONSTANTS
  ScanlineCycles = 7
  HblankCycles = 2
  Scanlines = 4
  VisibleScanlines = 1
  VBlankStart = 2
  Dots = 4
  JoyBusyCycles = 7
  StallCycles = 2
  InstCycles = {3}
  DmaByteCycles = 1
  DmaChunk = 2
  DmaLengths = {5}
  HdmaCosts = {0, 3}
  Programs <- BothPrograms
  NoMatch = 9
  MaxFrames = 2
INVARIANTS TypeOK CreditExact NmiPrompt OneNmiPerFrame
PROPERTIES NoClockInversion JoyNotEarly FrameEnds
CHECK_DEADLOCK FALSE
