SPECIFICATION Spec
CONSTANTS
  U32 = 16
  Random = {0}
  MaxSteps = 20
  Programs <- SyscallProgram
CHECK_DEADLOCK FALSE
PROPERTIES
  SyscallInjected
