\* Two slots; the self-test and four batches of the run, so that each slot is
\* used three times.
CONSTANTS
  Setups <- AllSetups
  NumSlots = 2
  MaxBatch = 6
  NoBatch = NoBatch
SPECIFICATION Spec
INVARIANTS
  OnlyDriverErrors
  KeysOnlyInFlight
PROPERTIES
  KernelKeepsItsBuffers
  ImplementsFifo
CHECK_DEADLOCK FALSE
