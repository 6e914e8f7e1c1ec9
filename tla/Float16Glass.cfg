\* Every coordinate of a vertex under the scales of common windows.
CONSTANTS
  Halves <- AllHalves
  Scales <- Windows
CHECK_DEADLOCK FALSE
SPECIFICATION Spec
INVARIANTS
  NeverInfinite
  SameAspectKeeps
  ProductCutOff
  OrderKept
