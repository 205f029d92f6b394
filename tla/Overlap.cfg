SPECIFICATION Spec
CONSTANTS
  Binaries <- TooLarge
CHECK_DEADLOCK FALSE
INVARIANTS
  RestoresGuestMemory
