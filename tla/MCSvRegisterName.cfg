SPECIFICATION SpecAnyNames
CONSTANTS
  Candidates <- RegisterPairs
  Ports <- MCPorts
  Clocks = {"a"}
  Policies = {"undefined"}
INVARIANT
  StoredAtEdge
