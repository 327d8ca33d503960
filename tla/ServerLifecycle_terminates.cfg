SPECIFICATION FairSpec
CONSTANTS
  Pids = {1}
  MaxChildren = 1
  Backlog = 1
PROPERTIES
  AllHandlersTerminate
CHECK_DEADLOCK FALSE
