\* An overwrite frees the key copy the keys list points at.
CONSTANTS
  Keys = {"a", "e"}
  KeyText <- MCKeyText
  Values = {v1, v2}
  InitialSize = 2
  MayFail = {}
  Ops = {"insert", "overwrite"}
  NoValue = NoValue
  MaxAlloc = 8
  MaxSize = 4
INIT Init
NEXT Next
CONSTRAINT StateBound
INVARIANT KeyListExact
