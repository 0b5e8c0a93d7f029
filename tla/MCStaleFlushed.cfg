SPECIFICATION Spec
CONSTANTS
  Slots = 4
  Batches = {1, 4}
  Quanta = {1, 2}
  MaxAccepted = 4
INVARIANTS StaleFlushed
CHECK_DEADLOCK FALSE
