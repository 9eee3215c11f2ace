\* Appends while the list is walked without a lock: the walk reaches a node whose next is not yet written.
CONSTANTS
  Items = {i1}
  NoItem = NoItem
  MaxNodes = 2
  MayFail = FALSE
  Ops = {"append"}
INIT Init
NEXT Next
INVARIANT WalkReadsLinkedNodes
