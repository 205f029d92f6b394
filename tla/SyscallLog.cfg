SPECIFICATION Spec
CONSTANTS
  U32 = 16
  Random = {0, 1}
  MaxSteps = 40
  Iterations = {1, 3}
  Images <- SystemCall
CHECK_DEADLOCK FALSE
INVARIANTS
  SyscallsAreLogged
