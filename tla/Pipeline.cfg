SPECIFICATION Spec
CONSTANTS
  U32 = 16
  Random = {0, 1}
  MaxSteps = 40
  Iterations = {1, 3}
  Images <- AllPrograms
INVARIANTS
  TypeOK
  TraceDeterminesRun
  Lockstep
  EventsAnswerExits
  VerdictIsRight
  SuccessIsEarned
  OnlyCompleteArchives
  OnInstructionBoundary
CHECK_DEADLOCK FALSE
PROPERTIES
  ReplayRunsDown
