SPECIFICATION Spec
CONSTANTS
  a = a
  b = b
  Sessions = {s1, s2}
  Bases = {a, b}
  Inodes = {i1, i2, i3}
  NoInode = NoInode
  DiskMayFill = FALSE
  Requests <- DeletingRequests
  Payloads <- OnePayload
SYMMETRY Symmetry
INVARIANTS
  ExclusiveAccess
