SPECIFICATION FairSpec
CONSTANTS
  Pids = {1, 2}
  MaxChildren = 2
  Backlog = 1
INVARIANTS
  TypeOK
  EveryChildSignalled
PROPERTIES
  ShutdownNoticed
  ShutdownCompletes
  ZombiesAreReaped
  ChildFollowsClient
CHECK_DEADLOCK FALSE
