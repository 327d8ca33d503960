SPECIFICATION Spec
CONSTANTS
  Users = {"al", "alice"}
  Root <- MCRoot
  Dirs <- MCDirs
  Longer <- MCLonger
  Args <- MCArgs
  PathSize = 7
  MaxParts = 5
  MaxFile = 1
  None = None
INVARIANT BackgroundMeansTheSame
CHECK_DEADLOCK FALSE
