SPECIFICATION Spec
CONSTANTS
  Binaries <- Images
CHECK_DEADLOCK FALSE
INVARIANTS
  SectionsPlaced
  VirtualIsPhysical
  GuestReadsItsImage
  RestoresWhenApart
  ReplayMapsSamePages
  DroppedInOrder
