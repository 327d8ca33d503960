SPECIFICATION Spec
CONSTANTS
  Sessions = {s1, s2}
  Users = {alice}
  Uids = {u1}
  None = None
  SignalFirst = FALSE
PROPERTY RollbackOnlyOwn
