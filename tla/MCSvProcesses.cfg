SPECIFICATION Spec
CONSTANTS
  Candidates <- MCCandidates
  Ports <- MCPorts
  Clocks = {"a", "b"}
  Policies = {"read-first", "undefined"}
INVARIANTS
  TypeOK
  StoredAtEdge
PROPERTY
  ContractSpec
