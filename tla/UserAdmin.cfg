SPECIFICATION FairSpec
CONSTANTS
  Sessions = {s1, s2}
  Users = {alice}
  Uids = {u1, u2}
  None = None
  SignalFirst = TRUE
INVARIANTS TypeOK Identity AccountsComplete
PROPERTIES RollbackOwn HandlersFinish
