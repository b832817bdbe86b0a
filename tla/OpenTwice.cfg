CONSTANTS
  t = t
  u = u
  p = p
  q = q
  file_a = file_a
  file_b = file_b
  dir_a = dir_a
  Threads = {t, u}
  KernelPool = {1, 2, 3}
  UserPool = {4, 5}
  PdNos = {0, 1}
  PtNos = {0}
  NULL = NULL
SPECIFICATION OverlapSpec
INVARIANT OneInodePerSector
CHECK_DEADLOCK FALSE
