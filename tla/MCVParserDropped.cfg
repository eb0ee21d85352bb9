SPECIFICATION Spec
CONSTANTS
  WordBits = 8
  SizeBits = 6
  Exprs <- MCSource
  PortLists <- MCPortLists
  Items <- Dropping
  ChildPorts <- MCChildPorts
  MaxItems = 1
INVARIANT
  NothingDropped
