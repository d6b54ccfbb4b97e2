SPECIFICATION Spec
CONSTANTS
  s1 = s1
  s2 = s2
  u1 = u1
  u2 = u2
  a = a
  b = b
  shared = shared
  data = data
  FREE_INODE = free
  NoContent = null
  Sessions = {s1, s2}
  Uids = {u1, u2}
  Names = {a, b, shared}
  Contents = {data}
  InodeTableSize = 2
  VectorSize = 1
  MaxRequests = 5
  Uid <- OneUserEach
  StackGarbage <- ZeroStack
  Workload <- Racing
PROPERTY OpenFileNotFreed
