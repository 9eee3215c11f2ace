\* Every operation, with node and lookup allocations failing: the structure stays well formed and freed nodes are unlinked.
CONSTANTS
  Keys = {"a", "e"}
  KeyText <- MCKeyText
  Values = {v1}
  InitialSize = 2
  MayFail = {"node", "get"}
  Ops = {"insert", "overwrite", "delete"}
  NoValue = NoValue
  MaxAlloc = 6
  MaxSize = 4
INIT Init
NEXT Next
CONSTRAINT StateBound
INVARIANT TypeOK
INVARIANT NoFreedNodeReachable
