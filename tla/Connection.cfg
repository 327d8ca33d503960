SPECIFICATION FairSpec
CONSTANTS
  Users = {"al", "alice"}
  Root <- MCRoot
  Dirs <- MCDirs
  Longer <- MCLonger
  Args <- MCArgs
  PathSize = 7
  MaxParts = 5
  MaxFile = 1
  None = None
INVARIANTS TypeOK Synchronised ViewsAgree InsideHome ResolveIsWalk
PROPERTY Answered
CHECK_DEADLOCK FALSE
