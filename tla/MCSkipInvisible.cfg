SPECIFICATION Spec
CONSTANTS
  OpSpeed = 8
  DataSpeed = 8
  Internal = 6
  Line = 1364
  Dots = 340
  Margin = 100
  Starts = {0, 500}
  HTimes = {100, 340}
  Bytes = {0}
  JoyTimes = {0}
  MaxLines = 2
INVARIANTS SkipInvisible
CHECK_DEADLOCK FALSE
