CONSTANTS
  p = p
  q = q
  file_a = file_a
  file_b = file_b
  NULL = NULL
SPECIFICATION InodeSpec
PROPERTY BlocksFreed
CHECK_DEADLOCK FALSE
