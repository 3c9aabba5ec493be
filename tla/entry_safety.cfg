SPECIFICATION Spec
CONSTANTS
  a1 = a1
  a2 = a2
  t1 = t1
  t2 = t2
  blank = blank
  typed = typed
  default = default
  None = None
  Addresses <- MCAddresses
  Inputs <- BlankOnly
  Blank <- blank
  DEFAULT_PIN <- default
  Tasks <- MCTasks
  MaxEntries = 2
  MaxCoordinators = 2
  MaxAgents = 3
CHECK_DEADLOCK FALSE
SYMMETRY Symmetry
INVARIANT TypeOK
INVARIANT OneEntryPerDevice
INVARIANT TableIsAccounted
INVARIANT ServiceFindsItsEntry
INVARIANT EntitiesHaveData
INVARIANT AgentsAreAccounted
INVARIANT OneLinkPerDevice
INVARIANT PairingHasOwnAgent
INVARIANT ListenersAreLive
