SPECIFICATION Spec
CONSTANTS
  ScanlineCycles = 8
  HblankCycles = 2
  Scanlines = 4
  VisibleScanlines = 1
  VBlankStart = 2
  Dots = 4
  JoyBusyCycles = 5
  StallCycles = 2
  InstCycles = {3}
  DmaByteCycles = 1
  DmaChunk = 2
  DmaLengths = {9}
  HdmaCosts = {0, 3}
  Programs <- InterruptProgram
  NoMatch = 9
  MaxFrames = 2
CHECK_DEADLOCK FALSE
INVARIANTS IrqFiresOnce
