SPECIFICATION Spec
CONSTANTS
  t1 = t1
  t2 = t2
  card = card
  badge = badge
  x = x
  y = y
  zero = zero
  None = None
  Tasks <- MCTasks
  Dumps <- MCDumps
  files <- MCFiles
  Bytes <- MCBytes
  Zero <- zero
  BLOCK = 2
  chunk_size = 2
  MAX_WRITE = 2
  MAX_BYTE = 2
  BLOCK_COUNT = 3
  SLOT_COUNT = 2
  MaxOps = 2
  MaxFaults = 0
  MaxEvents = 4
CHECK_DEADLOCK FALSE
PROPERTY LoadLandsInSlot
