SPECIFICATION Spec
CONSTANTS
  Rom = {"good", "other", "bad"}
  BadRom = {"bad"}
  MaxStarts = 4
INVARIANTS GuardMeansStarting
CHECK_DEADLOCK FALSE
