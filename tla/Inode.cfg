CONSTANTS
  p = p
  q = q
  file_a = file_a
  file_b = file_b
  NULL = NULL
SPECIFICATION InodeSpec
INVARIANT IndexSoundInTurn
PROPERTIES SharedOnlyByRace IsFileSystemInTurn CallsReturn
CHECK_DEADLOCK FALSE
