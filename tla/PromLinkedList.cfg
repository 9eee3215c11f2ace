\* Appends, pushes, pops, removes and purges of two items, with node allocations failing, while the list is walked without a lock: the list refines a sequence and stays well linked.
CONSTANTS
  Items = {i1, i2}
  NoItem = NoItem
  MaxNodes = 4
  MayFail = TRUE
  Ops = {"append", "push", "pop", "remove", "purge"}
INIT Init
NEXT Next
SYMMETRY ItemSymmetry
PROPERTY Refinement
INVARIANT Shape
