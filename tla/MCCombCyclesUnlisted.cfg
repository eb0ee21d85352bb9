SPECIFICATION Spec
CONSTANTS
  N = 2
  MaxOperands = 1
  Names = {"comb.and", "hw.array_inject"}
INVARIANT
  AcceptedHasNoZeroLatencyLoop
