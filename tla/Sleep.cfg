CONSTANTS
  t1 = t1
  t2 = t2
  t3 = t3
  Threads = {t1, t2, t3}
  initial_thread = t1
  Started <- MCStarted
  Idle = Idle
  InitPriority <- MCInitPriority
  TIME_SLICE = 2
  Durations <- MCDurations
  MaxTicks = 3
  a = a
  b = b
  c = c
  d = d
  Callers = {a, b, c, d}
  prio <- MCPrio
  main = main
  p1 = p1
  p2 = p2
  NoThread = NoThread
SPECIFICATION SleepSpec
INVARIANT SleepersListed
PROPERTIES WokenOnTime IsMonitor SleepersReturn ProcessesReturnIfLoaded
CHECK_DEADLOCK FALSE
