SPECIFICATION TransfersSpec
CONSTANTS
  Channel = {0, 1}
  MaxSize = 6
  AddrSize = 8
  ByteCycles = 1
  Chunk = 4
  Mdmaen = 3
  SizeReg = 6
  Configs <- MCConfigs
  MaxTransfers = 2
  Indirect = {1}
  UnitSize <- MCUnitSize
  Repeat = 4
  Base = 8
  Memory <- MCMemory
  Lines = 8
  Tables <- MCTables
  FirstTable <- MCFirstTable
  DmaEnds = {5}
  MaxWrites = 3
  Cursors <- MCCursors
INVARIANTS FollowsTable LateChannelSilent TransferExact RegistersAfter BookedOnce
CHECK_DEADLOCK FALSE
