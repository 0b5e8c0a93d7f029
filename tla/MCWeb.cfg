SPECIFICATION WebSpec
CONSTANTS
  Slots = 4
  Batches = {1, 4}
  Quanta = {1, 2}
  MaxAccepted = 4
  Part = {p1, p2}
  MaxFrames = 4
  MaxLoads = 2
  Rom = {"good", "other", "bad"}
  BadFile = {"bad"}
  MaxStarts = 4
  Call = {1, 2}
  MaxStops = 2
INVARIANTS HearsInOrder NeverOlder OneGameLoop NoLeakedAudio WiredBeforeTick Agreement
PROPERTIES CalmUntilUpset IsQueue Converges
CHECK_DEADLOCK FALSE
