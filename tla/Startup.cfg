CONSTANTS
  Inflight = 2
  MaxDevices = 2
  CudaDevices <- MCCudaDevices
  VulkanDevices <- MCVulkanDevices
SPECIFICATION StartupSpec
INVARIANTS
  SelectsAsResolved
  NothingLeft
  BusyIsKept
