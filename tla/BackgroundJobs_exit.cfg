SPECIFICATION Spec
CONSTANTS
  Pids = {1, 2, 3}
  Size = 2
INVARIANTS
  NoExitWhileJobsRun
CHECK_DEADLOCK FALSE
