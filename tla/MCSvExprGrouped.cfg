SPECIFICATION PrinterSpec
CONSTANTS
  Inputs <- MCInputs
  Templates <- MCTemplates
  MaxOps = 0
  Exprs <- Grouped
INVARIANT ReadsBack
