CONSTANTS
  Cells = 2
  RetryCounter = 1
  MaxFaults = 3
SPECIFICATION FairSpec
INVARIANTS
TypeOK
StartsWhole
CompleteProgrammed


CHECK_DEADLOCK FALSE
