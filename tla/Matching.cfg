\* Every pair of targets of up to four digits and every batch of two
\* addresses.
CONSTANTS
  AddressBytes <- Bytes
  Address <- MCAddress
  Batch <- MCBatch
  Text <- MCText
  None = None
SPECIFICATION Spec
INVARIANTS
  TargetsAreExact
  HitIsFirst
  BestOfBatch
