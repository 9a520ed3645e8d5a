CONSTANTS
  MaxRecords = 2
  Files <- MCFiles
SPECIFICATION Spec
CHECK_DEADLOCK FALSE
INVARIANTS
  IncompleteRefused
