\* Two runs on the same files; candidates of three scores, the highest a hit.
CONSTANTS
  MaxRuns = 2
  MaxScore = 3
  None = None
SPECIFICATION Spec
INVARIANTS
  LeavesOnlyItsBest
  HitsKeepTheirLines
PROPERTIES
  ImplementsAtomicFile
