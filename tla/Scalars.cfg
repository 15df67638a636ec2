\* Chains of three addresses in a group of 19: batches of a part of a chain, of
\* one chain, one and a part, and two; two chains make a full simdgroup; room for
\* three batches.  The scalars are numbers of three digits to base three, and the
\* offsets as long, so that carries go on over several digits and out of the last.
CONSTANTS
  Order = 19
  Stride = 3
  Headroom = 3
  Setups <- AllSetups
  Counts = {2, 3, 4, 6}
  Lanes = 2
  Base = 3
  Width = 3
  LowBytes = 2
  MaxAddend = 26
SPECIFICATION ScalarsSpec
INVARIANTS
  AddressesRight
  ResultIsOffset
PROPERTIES
  HeadroomLasts
