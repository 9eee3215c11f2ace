\* Adds, truncates, clears and dumps, with only the dump copy failing: every access stays in the block.
CONSTANTS
  InitSize = 2
  AddLens = {1, 3, 6}
  MayFail = {"dump"}
  MaxLen = 40
INIT Init
NEXT Next
CONSTRAINT LenBound
INVARIANT TypeOK
INVARIANT MemorySafe
INVARIANT CapacityCoversLength
