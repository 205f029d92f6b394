SPECIFICATION FairSpec
CONSTANTS
  U32 = 16
  Random = {0, 1}
  MaxSteps = 40
  Iterations = {1, 3}
  Images <- RandomBranch
CHECK_DEADLOCK FALSE
PROPERTIES
  ReplayEventReturns
