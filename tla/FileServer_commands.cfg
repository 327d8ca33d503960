SPECIFICATION FairSpec
CONSTANTS
  a = a
  b = b
  Sessions = {s1, s2}
  Bases = {a, b}
  Inodes = {i1, i2}
  NoInode = NoInode
  DiskMayFill = TRUE
  Requests <- AllRequests
  Payloads <- OnePayload
INVARIANTS
  NoLeakedLock
  LockedThroughout
  WaitersHoldNothing
PROPERTIES
  OnlyASilentClientBlocks
