\* Two slots as in every backend; batches of one address, of one whole chain
\* and of two whole chains; two fills, advanced once.
CONSTANTS
  NumSlots = 2
  Stride = 4
  Persist = TRUE
  MaxFill = 4
  MaxStep = 1
  Sizes = {1, 4, 8}
  NoBatch = NoBatch
SPECIFICATION Spec
INVARIANTS
  OnlyDeviceErrors
  SecretsOnlyInFlight
PROPERTIES
  QueuedCommandIsKept
  ImplementsFifo
CHECK_DEADLOCK FALSE
