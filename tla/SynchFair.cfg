CONSTANTS
  low = low
  mid = mid
  high = high
  l1 = l1
  e1 = e1
  Threads = {low, mid, high}
  initial_thread = low
  Started <- BootAlone
  Idle = Idle
  InitPriority <- MCEqualPriority
  NameWord <- MCNameWord
  TIME_SLICE = 1
  Locks = {tid_lock, l1}
  tid_lock = tid_lock
  Events = {e1}
  Uses <- UsesFair
  NULL = NULL
  NewPriorities = {}
  MaxValue = 1
SPECIFICATION FairSpec
PROPERTY ReadyEventuallyRuns
CHECK_DEADLOCK FALSE
