CONSTANTS
  Depth = 3
  Radix <- MCRadix
  MaxDays = 2
  MaxMillis = 20
  SlowLoop = TRUE
SPECIFICATION Spec
INVARIANTS
TypeOK
NeverTwice
KeptUndisturbed
CHECK_DEADLOCK FALSE
