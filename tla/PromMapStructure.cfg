\* Insertions of three keys through resizes, with node and resize allocations failing: the keys list names each node once, size counts the entries, and every set and get returns and binds what a dictionary would.
CONSTANTS
  Keys = {"a", "e", "d"}
  KeyText <- MCKeyText
  Values = {v1, v2}
  InitialSize = 2
  MayFail = {"node", "resize"}
  Ops = {"insert"}
  NoValue = NoValue
  MaxAlloc = 6
  MaxSize = 4
INIT Init
NEXT Next
CONSTRAINT StateBound
INVARIANT KeyListExact
INVARIANT SizeCountsEntries
PROPERTY Refinement
