\* Metal, whose batches come from the pipeline or, if small, one by one.
CONSTANTS
  Order = 19
  Stride = 3
  Headroom = 3
  Setups <- MetalSetups
  Counts = {2, 3, 4, 6}
  Lanes = 2
SPECIFICATION Spec
INVARIANT DenominatorsNeverZero
