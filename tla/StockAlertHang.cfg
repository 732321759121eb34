CONSTANTS
  Rounds = 4
  SureRound = 2
SPECIFICATION FairSpec
PROPERTY DannyLeaves
CHECK_DEADLOCK FALSE
