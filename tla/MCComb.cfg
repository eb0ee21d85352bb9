SPECIFICATION CombSpec
CONSTANTS
  MaxWidth = 3
  Operations <- MCOperations
  ArgWidth <- MCArgWidth
  Blocks <- MCBlocks
INVARIANTS
  VerifiedFolds
  BitsExact
  WellFormed
  CanonicalForm
PROPERTIES
  ValuesPreserved
  OrderPreserved
  Terminates
