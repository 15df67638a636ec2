\* Batches around the multiples of the strides; a device of simdgroups of 32.
CONSTANTS
  Environment <- MCEnvironment
  Unset = Unset
  Capacity = 130
  Count = {1, 33, 64, 65, 130}
  MaxBatch = 130
  SimdWidth = 32
  MaxThreads = 1024
SPECIFICATION KernelsSpec
INVARIANTS
  OnlyTheDeviceFails
  EveryAddressOnce
  BuffersFit
