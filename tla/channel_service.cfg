SPECIFICATION FairSpec
CONSTANTS
  t1 = t1
  t2 = t2
  t3 = t3
  get = get
  sense = sense
  None = None
  Tasks <- MCTasks3
  Commands <- MCCommands
  Jobs <- MCSingleJobs
  Chunks = 1
  Fragments = 1
  MaxCalls = 3
CHECK_DEADLOCK FALSE
PROPERTY EveryCallReturns
PROPERTY ImplementsFifoService
