SPECIFICATION Spec
CONSTANTS
  a = a
  b = b
  Sessions = {s1, s2, s3}
  Bases = {a, b}
  Inodes = {i1}
  NoInode = NoInode
  DiskMayFill = FALSE
  Requests <- SharingRequests
  Payloads <- MCPayloads
SYMMETRY Symmetry
INVARIANTS
  TypeOK
  ExclusiveAccess
PROPERTIES
  LockRespected
  ImplementsAtomicStore
