SPECIFICATION Spec
CONSTANTS
  t1 = t1
  t2 = t2
  card = card
  badge = badge
  x = x
  y = y
  zero = zero
  None = None
  Tasks <- MCTasks
  Dumps <- MCDumps
  files <- MCFiles
  Bytes <- MCBytes
  Zero <- zero
  BLOCK = 2
  chunk_size = 2
  MAX_WRITE = 2
  MAX_BYTE = 2
  BLOCK_COUNT = 3
  SLOT_COUNT = 2
  MaxOps = 3
  MaxFaults = 2
  MaxEvents = 4
CHECK_DEADLOCK FALSE
SYMMETRY Symmetry
INVARIANT TypeOK
INVARIANT QuietMeansSaved
INVARIANT SensingNeedsUnlock
INVARIANT NicknamesAligned
INVARIANT WritesAreSendable
PROPERTY UndisturbedLoadIsSaved
PROPERTY UndisturbedPollIsTrue
PROPERTY CardDataStayInTheirSlot
