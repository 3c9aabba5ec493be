SPECIFICATION Spec
CONSTANTS
  poll = poll
  button = button
  None = None
  Callers <- TwoCallers
  MaxClients = 3
  MaxBuses = 3
CHECK_DEADLOCK FALSE
SYMMETRY Symmetry
INVARIANT TypeOK
INVARIANT ClientDeviceAgree
INVARIANT NeverReturnsNone
INVARIANT HandedOutReady
INVARIANT SerialLosesNothing
INVARIANT PairingHasAgent
INVARIANT ShutdownCleans
