SPECIFICATION Spec
CONSTANTS
  t1 = t1
  t2 = t2
  t3 = t3
  get = get
  sense = sense
  None = None
  Tasks <- MCTasks2
  Commands <- MCCommands
  Jobs <- MCJobs
  Chunks = 2
  Fragments = 2
  MaxCalls = 3
CHECK_DEADLOCK FALSE
SYMMETRY Symmetry2
INVARIANT TypeOK
INVARIANT MutualExclusion
INVARIANT FutureOwner
INVARIANT SequenceHoldsWire
INVARIANT OneCommandInFlight
INVARIANT MisdeliveryNeedsAbandon
INVARIANT NoAnswerTakenTwice
PROPERTY FramesNotInterleaved
