\* Metal with two slots and persistent points; a fill leaves room for two
\* steps, so that refills and advances alternate; a hit in batch 5 at the latest.
CONSTANTS
  NumSlots = 2
  Stride = 4
  Persist = TRUE
  MaxFill = 12
  MaxStep = 6
  NoBatch = NoBatch
  BatchSize = 4
  Headroom = 2
  MaxBatches = 5
SPECIFICATION Spec
INVARIANTS
  OnlyForeignFailures
  NoKeyTwice
  OneBeginAfterStop
  ResultsInOrder
  HonestResult
  NothingLeftBehind
PROPERTIES
  ImplementsRing
  Terminates
