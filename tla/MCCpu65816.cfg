SPECIFICATION MCSpec
CONSTANTS
  Names <- MCNames
  Program <- MCProgram
  OpSpeed = 8
  DataSpeed = 8
  Internal = 6
  Line = 1364
  Dots = 340
  Margin = 100
  Starts = {0, 1, 500, 1230, 1363}
  HTimes = {100, 316, 330, 340}
  Bytes = {0, 1}
  JoyTimes = {0, 30, 600, 4224}
  MaxLines = 3
INVARIANTS TypeOK EmulationConfined BlockMoveExact SkipAligned
PROPERTIES InterruptTransparent ArithmeticExact
CHECK_DEADLOCK FALSE
