CONSTANTS
  MaxLines = 3
  Ignored = Ignored
  Throws = Throws
  Files <- MCFiles
SPECIFICATION Spec
CHECK_DEADLOCK FALSE
INVARIANTS
  ConfigAsWritten
  ErrorNamesFirstBadLine
