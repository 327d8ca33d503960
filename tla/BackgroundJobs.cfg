SPECIFICATION FairSpec
CONSTANTS
  Pids = {1, 2, 3}
  Size = 2
INVARIANTS
  TypeOK
  TableExact
  NoJobUncounted
PROPERTIES
  JobsAreReaped
CHECK_DEADLOCK FALSE
