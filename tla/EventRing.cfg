SPECIFICATION FairSpec
CONSTANTS
  Cap = 4
  MaxLen = 3
  MaxPos = 6
  MaxGen = 1
INVARIANTS
  SnapshotIsReal
  RaceIsNeverAnError
PROPERTIES
  ImplementsStream
  EventuallyDrained
