SPECIFICATION PrinterSpec
CONSTANTS
  Inputs <- MCInputs
  Templates <- MCTemplates
  MaxOps = 3
  Exprs <- MCExprs
INVARIANTS
  DeclaredOnce
  DrivenOnce
  TypeStored
  ReadsBackWhenPlain
PROPERTY EliminationKeepsDrivers
