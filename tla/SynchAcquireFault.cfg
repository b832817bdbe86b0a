CONSTANTS
  low = low
  mid = mid
  high = high
  l1 = l1
  e1 = e1
  Threads = {low, mid, high}
  initial_thread = low
  Started <- BootAlone
  Idle = Idle
  InitPriority <- MCInitPriority
  NameWord <- MCNameWord
  TIME_SLICE = 1
  Locks = {tid_lock, l1}
  tid_lock = tid_lock
  Events = {}
  Uses <- UsesLock
  NULL = NULL
  NewPriorities = {}
  MaxValue = 1
SPECIFICATION Spec
INVARIANTS AcquireNeverFaults
CHECK_DEADLOCK FALSE
