CONSTANTS
  proc1 = proc1
  proc2 = proc2
  Procs = {proc1, proc2}
  PageCnt = 4
  Counts = {1, 2}
  Nobody = Nobody
  NULL = NULL
SPECIFICATION MCSpec
INVARIANTS SortsStably LinksAgree ArraysExact PagesExclusive HeapSoundIfSizesFit StringsExact DivisionExact
PROPERTIES IsDictionary LoopsEnd
CHECK_DEADLOCK FALSE
