SPECIFICATION Spec
CONSTANTS
  Word = 8
  Types <- MCContext
  InputTypes <- MCTypes
  Operations <- MCOperations
  MaxValues = 3
INVARIANT WidthExact
CHECK_DEADLOCK FALSE
