SPECIFICATION Spec
CONSTANTS
  WordBits = 8
  SizeBits = 6
  Exprs <- MCSource
  PortLists <- MCPortLists
  Items <- MCItems
  ChildPorts <- MCChildPorts
  MaxItems = 2
INVARIANTS
  SaysWhatSourceSays
  TightLiteralsExact
  OutputsClosedByName
  PortsKeptUnlessInherited
  BoundItemsAccepted
