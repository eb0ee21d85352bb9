SPECIFICATION Spec
CONSTANTS
  Symbols <- MCSymbols
  Operations <- MCOperations
  MaxModules = 2
  MaxOps = 2
INVARIANTS
  VerdictKept
  HierarchyResolves
