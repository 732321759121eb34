CONSTANTS
  Main = Main
  w1 = w1
  w2 = w2
  w3 = w3
  None = None
  Workers = {w1, w2, w3}
  NumTasks = 3
  Size = 2
SPECIFICATION FairSpec
INVARIANTS
  TypeOK
  EachTaskOnce
  ClosedAfterLastTask
  RepostNeverWaits
PROPERTY ShutsDown
