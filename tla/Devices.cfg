CONSTANTS
  p = p
  q = q
  val_a = val_a
  val_b = val_b
  Procs = {p, q}
  Devices = {0, 1}
  SectorNos = {1}
  Data = {val_a, val_b}
  Requests <- MCRequests
  Faults = TRUE
  Nothing = Nothing
  WORD_SIZE = 16
  MaxDepth = 4
  Disks <- MCDisks
  NoTable = NoTable
  NoAccess = NoAccess
  NoChar = NoChar
SPECIFICATION MCSpec
INVARIANTS InsidePartitions KeysExact ScreenExact
PROPERTIES IsDisk ChannelServed
CHECK_DEADLOCK FALSE
