CONSTANTS
  low = low
  mid = mid
  high = high
  l1 = l1
  e1 = e1
  Threads = {low, mid, high}
  initial_thread = low
  Started <- BootAlone
  Idle = Idle
  InitPriority <- MCInitPriority
  NameWord <- MCNameWord
  TIME_SLICE = 1
  Locks = {tid_lock, l1}
  tid_lock = tid_lock
  Events = {e1}
  Uses <- UsesBoth
  NULL = NULL
  NewPriorities = {1}
  MaxValue = 2
SPECIFICATION Spec
INVARIANTS TypeOK HolderAssertsHold ElemOnOneList NoLostWakeup
PROPERTIES WakesHighest ImplementsMutex
CHECK_DEADLOCK FALSE
