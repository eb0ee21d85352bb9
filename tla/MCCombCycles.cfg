SPECIFICATION Spec
CONSTANTS
  N = 3
  MaxOperands = 2
  Names = {"comb.and", "seq.compreg"}
INVARIANTS
  SearchInv
  VerdictExact
  ErrorNamesCyclicOp
PROPERTIES
  SearchedOnce
  VerdictSpec
  Termination
