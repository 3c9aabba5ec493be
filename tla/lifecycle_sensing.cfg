SPECIFICATION Spec
CONSTANTS
  poll = poll
  button = button
  None = None
  Callers <- OneCaller
  MaxClients = 2
  MaxBuses = 2
CHECK_DEADLOCK FALSE
INVARIANT SensingOffWhenHandedOut
