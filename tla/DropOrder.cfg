SPECIFICATION Spec
CONSTANTS
  Binaries <- Small
CHECK_DEADLOCK FALSE
INVARIANTS
  MappedMemoryIsValid
