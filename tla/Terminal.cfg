CONSTANTS
  w = w
  v = v
  r = r
  s = s
  k = k
  l = l
  Writers = {w, v}
  Main = w
  Readers = {r, s}
  Keys = {k, l}
  BUFSIZE = 3
  MsgLen = 2
  Nested = TRUE
  NULL = NULL
SPECIFICATION MCSpec
INVARIANT QueuesServed
PROPERTIES BytesInOrder TerminalLive
CHECK_DEADLOCK FALSE
