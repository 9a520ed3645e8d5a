CONSTANTS
  MaxRecords = 2
  Files <- MCFiles
SPECIFICATION FairSpec
CHECK_DEADLOCK FALSE
INVARIANTS
  LoadedAsWritten
  WholeFilesLoad
PROPERTY
  LoadingEnds
