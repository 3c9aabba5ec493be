SPECIFICATION Spec
CONSTANTS
  t1 = t1
  t2 = t2
  t3 = t3
  get = get
  sense = sense
  None = None
  Tasks <- MCTasks2
  Commands <- MCCommands
  Jobs <- MCPlainJobs
  Chunks = 1
  Fragments = 1
  MaxCalls = 2
CHECK_DEADLOCK FALSE
INVARIANT AnswersCorrelated
