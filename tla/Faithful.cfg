SPECIFICATION FairSpec
CONSTANTS
  U32 = 16
  Random = {0, 1}
  MaxSteps = 60
  Iterations = {1, 3}
  Images <- DeterministicImages
CHECK_DEADLOCK FALSE
INVARIANTS
  PayloadsHaltAsExpected
PROPERTIES
  KeepsPromise
  ReplayEnds
