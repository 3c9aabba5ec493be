SPECIFICATION Spec
CONSTANTS
  Modulus = 4
  SOF = 1
  MAX_DATA_LENGTH = 2
  MaxSent = 2
CHECK_DEADLOCK FALSE
INVARIANT TypeOK
INVARIANT DeliveredFramesWereHeard
INVARIANT PartialFrameIsHeard
INVARIANT CompleteFrameIsDelivered
