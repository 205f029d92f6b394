SPECIFICATION Spec
CONSTANTS
  U32 = 16
  Random = {0}
  MaxSteps = 20
  Programs <- ForeignPrograms
CHECK_DEADLOCK FALSE
PROPERTIES
  EndsUnlessStuck
  NoUnansweredExit
