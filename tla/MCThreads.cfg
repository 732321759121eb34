CONSTANTS
  t1 = t1
  t2 = t2
  b1 = b1
  b2 = b2
  None = None
  Nobody = Nobody
  Threads <- MCThreadSet
  PerThread <- MCPerThread
  Blocks = {b1, b2}
  Stages = {"Fighting", "AddLock", "Smart", "Safe"}
SPECIFICATION MCSpec
INVARIANTS
  CountExact
  NothingUsedAfterDelete
  SentencesWhole
  PrintsWhatWasWritten
PROPERTIES
  CallsReturn
  Prints
CHECK_DEADLOCK FALSE
