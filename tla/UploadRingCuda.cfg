\* CUDA with the Vec::zeroize of the zeroize crate.
CONSTANTS
  Setups <- CudaSetup
  NumSlots = 2
  MaxBatch = 6
  NoBatch = NoBatch
SPECIFICATION Spec
INVARIANT SlotsTakeMore
CHECK_DEADLOCK FALSE
