-------------------------- MODULE SynchQueueProofs -------------------------
(***************************************************************************)
(* The lists of Synch, for any threads, locks, events and priorities: each *)
(* thread is on the one list that its state says, sema_up wakes a waiter   *)
(* of the highest priority, and no wakeup is lost.                         *)
(***************************************************************************)
EXTENDS SynchProofs, SynchListProofs

\* Among the waiters that a step takes off a list there is none of a lower
\* priority than one that it leaves there.
WakesStep ==
  \A s \in Semas : \A t \in Range(waiters[s]) :
    t \notin Range(waiters'[s]) => \A u \in Range(waiters[s]) : priority[u] <= priority[t]

\* Only sema_up takes a waiter off a list, and UpStep says which one.
LEMMA WakesNext ==
  ASSUME LockTypeOK, ListInv, PrioType, [Next]_vars
  PROVE  WakesStep
<1>1. ASSUME waiters' = waiters PROVE WakesStep
  BY <1>1, Zenon DEF WakesStep
<1>2. ASSUME NEW s \in Semas, Up(s) PROVE WakesStep
  <2>1. \A z \in Semas : Range(waiters[z]) = WaitSet(z)
    BY Zenon DEF ListInv, Lists
  <2>2. CASE UNCHANGED <<waiters, cpu>>
    BY <1>1, <2>2, Zenon
  <2>3. ASSUME NEW h \in WaitSet(s), NEW r \in Seq(Threads),
               \A u \in WaitSet(s) : priority[u] <= priority[h],
               Lists(r, WaitSet(s) \ {h}), waiters' = [waiters EXCEPT ![s] = r]
        PROVE  WakesStep
    <3>1. /\ Range(waiters'[s]) = WaitSet(s) \ {h}
          /\ \A z \in Semas \ {s} : waiters'[z] = waiters[z]
      BY <2>3, Zenon DEF ListInv, Lists
    <3> QED
      BY <2>1, <2>3, <3>1, Zenon DEF WakesStep
  <2> QED
    BY <1>2, <2>2, <2>3, UpStep, Zenon DEF PrioType
<1>3. ASSUME NEW t \in Threads, NEW s \in Semas, DownOrBlock(t, s) PROVE WakesStep
  <2>1. CASE waiters' = [waiters EXCEPT ![s] = insert_by_priority(@, t, priority)]
    <3>1. PICK r : r = list_insert_ordered(waiters[s], t, comparePriority(priority))
      BY Zenon
    <3>2. waiters[s] \in Seq(Threads)
      BY Zenon DEF ListInv
    <3>3. Range(r) = Range(waiters[s]) \cup {t}
      BY <3>1, <3>2, InsertContent
    <3>4. waiters'[s] = r /\ \A z \in Semas \ {s} : waiters'[z] = waiters[z]
      BY <2>1, <3>1, Zenon DEF ListInv, insert_by_priority
    <3> QED
      BY <3>3, <3>4, Zenon DEF WakesStep
  <2> QED
    BY <1>1, <1>3, <2>1, Zenon DEF DownOrBlock
<1> USE DEF sema
<1>4. ASSUME NEW t \in Threads, Calm(t) PROVE WakesStep
  BY <1>1, <1>4, Zenon DEF Calm
<1>5. ASSUME NEW t \in Threads, Retest(t) \/ LockDown(t) \/ LockUp(t) PROVE WakesStep
  <2>1. arg[t] \in Semas
    BY <1>5, Zenon DEF Retest, LockDown, LockUp, At, LockTypeOK, Acquiring, Owning, Semas
  <2> QED
    BY <1>2, <1>3, <1>5, <2>1, ZenonT(40) DEF Retest, LockDown, LockUp
<1>6. ASSUME NEW s \in Events,
             \/ DeviceInterrupt(s)
             \/ \E t \in Threads : sema_down(t, s) \/ sema_up(t, s)
      PROVE  WakesStep
  BY <1>2, <1>3, <1>6, Zenon DEF DeviceInterrupt, sema_down, sema_up, Semas
<1>7. ASSUME NEW t \in Threads, NEW x,
             Yield(t) \/ CreateUnblock(t) \/ thread_exit(t) \/ thread_set_priority(t, x)
      PROVE  WakesStep
  BY <1>1, <1>7, Zenon DEF Yield, CreateUnblock, thread_exit, thread_set_priority
<1>8. ASSUME TimerInterrupt \/ IdleLoop \/ UNCHANGED vars PROVE WakesStep
  BY <1>1, <1>8, Zenon DEF TimerInterrupt, IdleLoop, vars
<1> HIDE DEF sema
<1> QED
  BY <1>4, <1>5, <1>6, <1>7, <1>8, CalmSteps, SMTT(30) DEF Next, Primitive, Call

-----------------------------------------------------------------------------
(* The threads on their way to take a unit.                                *)

\* NoLostWakeup for one semaphore.
Wakeup(s) == waiters[s] # <<>> => value[s] <= Cardinality(Woken(s))

\* A set of threads can be counted.
LEMMA CountWoken ==
  ASSUME NEW s
  PROVE  /\ IsFiniteSet(Woken(s)) /\ Cardinality(Woken(s)) \in Nat
         /\ \A t \in Threads :
              /\ t \in Woken(s) => Cardinality(Woken(s) \ {t}) = Cardinality(Woken(s)) - 1
              /\ t \notin Woken(s) => Cardinality(Woken(s) \cup {t}) = Cardinality(Woken(s)) + 1
<1>1. IsFiniteSet(Woken(s))
  BY FS_Subset, FiniteAssumption, Zenon DEF Woken
<1> HIDE DEF Woken
<1> QED
  BY <1>1, FS_CardinalityType, FS_AddElement, FS_RemoveElement, Zenon

\* Facts about counts.
LEMMA Counts ==
  \A m, n \in Nat : 0 <= m /\ m <= m /\ (m <= n => m + 1 <= n + 1 /\ m - 1 <= n - 1)
OBVIOUS

\* A semaphore that sema_down takes a unit from has no more units than before.
LEMMA TakesUnits ==
  ASSUME NEW v \in [Semas -> Nat], NEW w,
         w = v \/ \E s : v[s] > 0 /\ w = [v EXCEPT ![s] = @ - 1]
  PROVE  \A z \in Semas : w[z] <= v[z]
OBVIOUS

\* A step that wakes nobody, queues nobody and at most takes units from s.
LEMMA WakeupFrame ==
  ASSUME LockTypeOK, NEW s \in Semas, Wakeup(s), value' \in [Semas -> Nat],
         value'[s] <= value[s], waiters'[s] = waiters[s], Woken(s)' = Woken(s)
  PROVE  Wakeup(s)'
<1>1. value[s] \in Nat /\ value'[s] \in Nat /\ Cardinality(Woken(s)) \in Nat
  BY CountWoken, Zenon DEF LockTypeOK
<1>2. Cardinality(Woken(s))' = Cardinality(Woken(s))
  BY Zenon
<1> QED
  BY <1>1, <1>2 DEF Wakeup

\* The running thread t moves outside the loop of sema_down, or nobody moves, and
\* no thread in that loop blocks or is made ready.
Passes(t) ==
  /\ Unmoved
  /\ UNCHANGED <<pc, arg>> \/ (current = t /\ pc[t] # "retest" /\ pc'[t] # "retest")

\* Such a step leaves the threads on their way as they are.
LEMMA RotateWoken ==
  ASSUME ListInv, NEW s, NEW t \in Threads, Passes(t),
         \A u \in Threads : pc'[u] = "retest" => (status'[u] = "blocked" <=> status[u] = "blocked")
  PROVE  Woken(s)' = Woken(s)
<1>1. ASSUME NEW u \in Threads
      PROVE  (pc'[u] = "retest" /\ arg'[u] = s) <=> (pc[u] = "retest" /\ arg[u] = s)
  BY Zenon DEF Passes, Unmoved, ListInv, QueueOK
<1> QED
  BY <1>1, Zenon DEF Woken

\* A test of the loop of sema_down: a thread that waits again leaves no unit
\* behind, and one that takes a unit was itself on its way at most.
LEMMA DownWakeup ==
  ASSUME LockTypeOK, ListInv, NEW t \in Threads, current = t, NEW s \in Semas,
         pc[t] = "retest" => arg[t] = s, DownOrBlock(t, s),
         NEW z \in Semas, Wakeup(z)
  PROVE  Wakeup(z)'
<1>1. status[t] = "running" /\ status \in [Threads -> Statuses] /\ value \in [Semas -> Nat]
  BY DEF ListInv, QueueOK, LockTypeOK
<1>2. CASE /\ value[s] = 0 /\ value' = value
           /\ waiters' = [waiters EXCEPT ![s] = insert_by_priority(@, t, priority)]
           /\ thread_block /\ Goto(t, "retest", s)
  <2>1. CASE z = s
    <3>1. value'[z] = 0
      BY <1>2, <2>1, Zenon
    <3>2. PICK W : W = Woken(z)'
      BY Zenon
    <3>3. W \subseteq Threads
      BY <3>2 DEF Woken
    <3>4. Cardinality(W) \in Nat
      BY <3>3, FS_Subset, FS_CardinalityType, FiniteAssumption, ZenonT(40)
    <3> QED
      BY <3>1, <3>2, <3>4, Counts, ZenonT(40) DEF Wakeup
  <2>2. CASE z # s
    <3>1. /\ status'[t] = "blocked" /\ pc'[t] = "retest" /\ arg'[t] = s /\ Unmoved
          /\ \A u \in Threads \ {t} : \/ status'[u] = status[u]
                                      \/ status[u] = "ready" /\ status'[u] = "running"
      BY <1>2, BlockOK, GotoUnmoved DEF ListInv
    <3>2. \A u \in Threads \ {t} : pc'[u] = pc[u] /\ arg'[u] = arg[u]
      BY <3>1, Zenon DEF Unmoved, ListInv, QueueOK
    <3>3. \A u \in Threads \ {t} : u \in Woken(z)' <=> u \in Woken(z)
      BY <3>1, <3>2, Zenon DEF Woken
    <3>4. t \notin Woken(z) /\ t \notin Woken(z)'
      BY <2>2, <3>1, Zenon DEF Woken
    <3>5. Woken(z) \subseteq Threads /\ Woken(z)' \subseteq Threads
      BY Zenon DEF Woken
    <3>6. Woken(z)' = Woken(z)
      BY <3>3, <3>4, <3>5, SMTT(30)
    <3>7. waiters'[z] = waiters[z] /\ value'[z] <= value[z] /\ value' \in [Semas -> Nat]
      BY <1>1, <1>2, <2>2, Counts, ZenonT(40) DEF ListInv
    <3> QED
      BY <3>6, <3>7, WakeupFrame, ZenonT(40)
  <2> QED
    BY <2>1, <2>2, Zenon
<1>3. CASE /\ value[s] > 0 /\ value' = [value EXCEPT ![s] = @ - 1]
           /\ IF s \in Locks THEN Goto(t, "acquired", s) ELSE Goto(t, "run", NULL)
           /\ UNCHANGED <<waiters, cpu>>
  <2>1. Unmoved /\ pc'[t] # "retest" /\ status' = status
    BY <1>3, GotoUnmoved DEF ListInv, cpu
  <2>2. \A u \in Threads \ {t} : pc'[u] = pc[u] /\ arg'[u] = arg[u]
    BY <2>1, Zenon DEF Unmoved, ListInv, QueueOK
  <2>3. Woken(z)' = Woken(z) \ {t}
    BY <2>1, <2>2, Zenon DEF Woken
  <2>4. value' \in [Semas -> Nat] /\ value'[s] = value[s] - 1
        /\ \A y \in Semas \ {s} : value'[y] = value[y]
    BY <1>1, <1>3
  <2>5. CASE t \notin Woken(z)
    <3>1. Woken(z)' = Woken(z)
      BY <2>3, <2>5, Zenon
    <3>2. value'[z] <= value[z] /\ waiters'[z] = waiters[z]
      BY <1>1, <1>3, TakesUnits, ZenonT(40)
    <3> QED
      BY <2>4, <3>1, <3>2, WakeupFrame, ZenonT(40)
  <2>6. CASE t \in Woken(z)
    <3>1. z = s
      BY <2>6, Zenon DEF Woken
    <3>2. /\ Cardinality(Woken(z))' = Cardinality(Woken(z)) - 1
          /\ Cardinality(Woken(z)) \in Nat
      BY <2>3, <2>6, CountWoken, ZenonT(40)
    <3>3. value[s] \in Nat /\ value'[s] = value[s] - 1 /\ waiters'[s] = waiters[s]
      BY <1>1, <1>3, <2>4, ZenonT(40)
    <3> QED
      BY <3>1, <3>2, <3>3, Counts, ZenonT(40) DEF Wakeup
  <2> QED
    BY <2>5, <2>6, Zenon
<1> QED
  BY <1>2, <1>3, Zenon DEF DownOrBlock

\* sema_up adds a unit and, if there is a waiter, a thread on its way.  The
\* thread that calls it is outside the loop of sema_down.
LEMMA UpWakeup ==
  ASSUME LockTypeOK, ListInv, PrioType, NEW s \in Semas, Up(s), NEW t \in Threads, Passes(t),
         NEW z \in Semas, Wakeup(z)
  PROVE  Wakeup(z)'
<1>1. /\ value \in [Semas -> Nat] /\ value' = [value EXCEPT ![s] = @ + 1]
      /\ waiters[s] = <<>> => UNCHANGED <<waiters, cpu>>
  BY Zenon DEF LockTypeOK, Up
<1>2. /\ value' \in [Semas -> Nat] /\ value'[s] = value[s] + 1
      /\ \A y \in Semas \ {s} : value'[y] = value[y]
  BY <1>1
<1>3. CASE UNCHANGED <<waiters, cpu>> /\ waiters[s] = <<>>
  <2>1. Woken(z)' = Woken(z)
    BY <1>3, RotateWoken, ZenonT(40) DEF cpu
  <2>2. CASE z = s
    BY <1>3, <2>2, ZenonT(40) DEF Wakeup
  <2>3. CASE z # s
    <3>1. value'[z] <= value[z] /\ waiters'[z] = waiters[z]
      BY <1>1, <1>2, <1>3, <2>3, Counts, ZenonT(40)
    <3> QED
      BY <1>2, <2>1, <3>1, WakeupFrame, ZenonT(40)
  <2> QED
    BY <2>2, <2>3, Zenon
<1>4. ASSUME NEW h \in WaitSet(s), NEW r \in Seq(Threads),
             waiters' = [waiters EXCEPT ![s] = r], thread_unblock(h)
      PROVE  Wakeup(z)'
  <2>1. h \in Threads /\ status[h] = "blocked" /\ pc[h] = "retest" /\ arg[h] = s
    BY Zenon DEF WaitSet
  <2>2. status'[h] = "ready" /\ \A u \in Threads \ {h} : status'[u] = status[u]
    BY <1>4, <2>1, UnblockOK, ZenonT(40) DEF ListInv, QueueOK
  <2>3. pc'[h] = pc[h] /\ arg'[h] = arg[h]
    BY <2>1, Zenon DEF Passes, Unmoved
  <2>4. \A u \in Threads : (pc'[u] = "retest" /\ arg'[u] = z) <=> (pc[u] = "retest" /\ arg[u] = z)
    BY Zenon DEF Passes, Unmoved, ListInv, QueueOK
  <2>5. h \notin Woken(z) /\ Woken(z)' = IF z = s THEN Woken(z) \cup {h} ELSE Woken(z)
    BY <2>1, <2>2, <2>3, <2>4, SMTT(30) DEF Woken
  <2>6. CASE z = s
    <3>1. waiters[z] # <<>>
      BY <2>6, ListsEmpty, Zenon DEF ListInv
    <3>2. value[z] <= Cardinality(Woken(z)) /\ value[z] \in Nat
      BY <1>1, <3>1, ZenonT(40) DEF Wakeup
    <3>3. Cardinality(Woken(z))' = Cardinality(Woken(z)) + 1 /\ Cardinality(Woken(z)) \in Nat
      BY <2>1, <2>5, <2>6, CountWoken, ZenonT(40)
    <3>4. value'[z] <= Cardinality(Woken(z))'
      BY <1>2, <2>6, <3>2, <3>3, Counts, ZenonT(40)
    <3> QED
      BY <3>4, Zenon DEF Wakeup
  <2>7. CASE z # s
    <3>1. value'[z] <= value[z] /\ waiters'[z] = waiters[z]
      <4>1. value[z] \in Nat /\ value'[z] = value[z]
        BY <1>1, <1>2, <2>7, Zenon
      <4>2. waiters'[z] = waiters[z]
        BY <1>4, <2>7, ZenonT(40) DEF ListInv
      <4> QED
        BY <4>1, <4>2, Counts, Zenon
    <3> QED
      BY <1>2, <2>5, <2>7, <3>1, WakeupFrame, ZenonT(40)
  <2> QED
    BY <2>6, <2>7, Zenon
<1>5. CASE waiters[s] = <<>>
  BY <1>1, <1>3, <1>5, ZenonT(40)
<1>6. CASE waiters[s] # <<>>
  <2>1. PICK q : q = list_sort(waiters[s], comparePriority(priority))
    BY Zenon
  <2>2. Lists(q, WaitSet(s)) /\ q # <<>>
    <3>1. Lists(waiters[s], WaitSet(s)) /\ priority \in [Threads -> Nat]
      BY Zenon DEF ListInv, PrioType
    <3>2. Lists(q, WaitSet(s))
      BY <2>1, <3>1, ListsSort, ZenonT(40)
    <3> QED
      BY <1>6, <3>1, <3>2, ListsEmpty, ZenonT(40)
  <2>3. Head(q) \in WaitSet(s) /\ Tail(q) \in Seq(Threads)
    BY <2>2, ListsTail, Zenon DEF Lists
  <2>4. waiters' = [waiters EXCEPT ![s] = Tail(q)] /\ thread_unblock(Head(q))
    BY <1>6, <2>1, Zenon DEF Up
  <2> QED
    BY <1>4, <2>3, <2>4, ZenonT(40)
<1> QED
  BY <1>5, <1>6, Zenon

\* Each step keeps NoLostWakeup.
LEMMA WakeupNext ==
  ASSUME LockTypeOK, LockTypeOK', ListInv, CreateInv, PrioType, NoLostWakeup, [Next]_vars
  PROVE  NoLostWakeup'
<1> SUFFICES ASSUME NEW z \in Semas PROVE Wakeup(z)'
  BY Zenon DEF NoLostWakeup, Wakeup
<1>1. Wakeup(z)
  BY Zenon DEF NoLostWakeup, Wakeup
<1>2. value \in [Semas -> Nat] /\ value' \in [Semas -> Nat]
  BY Zenon DEF LockTypeOK
<1>3. ASSUME NEW t \in Threads, Passes(t), waiters' = waiters,
             value' = value \/ \E s : value[s] > 0 /\ value' = [value EXCEPT ![s] = @ - 1],
             \A u \in Threads : pc'[u] = "retest" => (status'[u] = "blocked" <=> status[u] = "blocked")
      PROVE  Wakeup(z)'
  <2>1. Woken(z)' = Woken(z)
    BY <1>3, RotateWoken, ZenonT(40)
  <2>2. waiters'[z] = waiters[z] /\ value'[z] <= value[z]
    BY <1>2, <1>3, TakesUnits, ZenonT(40)
  <2> QED
    BY <1>1, <1>2, <2>1, <2>2, WakeupFrame, ZenonT(40)
<1>4. ASSUME UNCHANGED <<pc, arg>> PROVE initial_thread \in Threads /\ Passes(initial_thread)
  BY <1>4, ThreadsAssumption, Zenon DEF Passes, Unmoved
<1>5. ASSUME NEW t \in Threads, current = t, pc[t] # "retest", NEW label, label # "retest", NEW x,
             Goto(t, label, x)
      PROVE  Passes(t) /\ pc'[t] = label
  BY <1>5, GotoUnmoved, Zenon DEF Passes, ListInv
<1>6. ASSUME NEW t \in Threads, Calm(t) PROVE Wakeup(z)'
  <2>1. waiters' = waiters /\ status' = status
    BY <1>6, SMTT(30) DEF Calm, cpu
  <2>2. CASE UNCHANGED <<pc, arg>>
    BY <1>3, <1>4, <1>6, <2>1, <2>2, ZenonT(40) DEF Calm
  <2>3. CASE \E label, x : label # "retest" /\ Goto(t, label, x)
    BY <1>3, <1>5, <1>6, <2>1, <2>3, SMTT(30) DEF Calm
  <2> QED
    BY <1>6, <2>2, <2>3, ZenonT(40) DEF Calm
<1>7. ASSUME NEW t \in Threads, Retest(t) \/ LockDown(t) PROVE Wakeup(z)'
  <2>1. current = t /\ arg[t] \in Semas /\ DownOrBlock(t, arg[t])
    BY <1>7, Zenon DEF Retest, LockDown, At, LockTypeOK, Acquiring, Semas
  <2> QED
    BY <1>1, <2>1, DownWakeup, ZenonT(40)
<1>8. ASSUME NEW t \in Threads, NEW s \in Events, sema_down(t, s) PROVE Wakeup(z)'
  BY <1>1, <1>8, DownWakeup, ZenonT(40) DEF sema_down, Free, At, Semas
<1>9. ASSUME NEW t \in Threads, LockUp(t) PROVE Wakeup(z)'
  <2>1. /\ current = t /\ pc[t] # "retest" /\ arg[t] \in Semas
        /\ Up(arg[t]) /\ Goto(t, "check", NULL)
    BY <1>9, Zenon DEF LockUp, At, LockTypeOK, Owning, Semas
  <2> QED
    BY <1>1, <1>5, <2>1, UpWakeup, ZenonT(40)
<1>10. ASSUME NEW t \in Threads, NEW s \in Events, sema_up(t, s) PROVE Wakeup(z)'
  <2>1. current = t /\ pc[t] # "retest" /\ s \in Semas /\ Up(s) /\ Goto(t, "check", NULL)
    BY <1>10, Zenon DEF sema_up, Free, At, Semas
  <2> QED
    BY <1>1, <1>5, <2>1, UpWakeup, ZenonT(40)
<1>11. ASSUME NEW s \in Events, DeviceInterrupt(s) PROVE Wakeup(z)'
  <2>1. s \in Semas /\ Up(s) /\ UNCHANGED <<pc, arg>>
    BY <1>11, Zenon DEF DeviceInterrupt, Semas
  <2> QED
    BY <1>1, <1>4, <2>1, UpWakeup, ZenonT(40)
<1>12. ASSUME NEW t \in Threads, Yield(t) PROVE Wakeup(z)'
  <2>1. /\ current = t /\ pc[t] # "retest" /\ thread_yield(priority) /\ Goto(t, "run", NULL)
        /\ waiters' = waiters /\ value' = value
    BY <1>12, Zenon DEF Yield, At, sema
  <2>2. \A u \in Threads : status'[u] = "blocked" <=> status[u] = "blocked"
    BY <2>1, YieldOK, ZenonT(40) DEF ListInv
  <2> QED
    BY <1>3, <1>5, <2>1, <2>2, ZenonT(40)
<1>13. ASSUME \/ TimerInterrupt \/ IdleLoop \/ UNCHANGED vars
              \/ \E t \in Threads, n \in NewPriorities : thread_set_priority(t, n)
       PROVE  Wakeup(z)'
  <2>1. /\ UNCHANGED <<pc, arg, waiters, value>>
        /\ thread_tick \/ idle \/ thread_yield(priority') \/ UNCHANGED cpu
    BY <1>13, Zenon DEF TimerInterrupt, IdleLoop, thread_set_priority, sema, vars
  <2>2. \A u \in Threads : status'[u] = "blocked" <=> status[u] = "blocked"
    <3>1. CASE thread_tick
      BY <3>1, TickOK, ZenonT(40) DEF ListInv
    <3>2. CASE idle
      BY <3>2, IdleOK, ZenonT(40) DEF ListInv
    <3>3. CASE thread_yield(priority')
      BY <3>3, YieldOK, Zenon DEF ListInv
    <3>4. CASE UNCHANGED cpu
      BY <3>4, Zenon DEF cpu
    <3> QED
      BY <2>1, <3>1, <3>2, <3>3, <3>4, ZenonT(40)
  <2> QED
    BY <1>3, <1>4, <2>1, <2>2, ZenonT(40)
<1>14. ASSUME NEW t \in Threads, thread_exit(t) PROVE Wakeup(z)'
  <2>1. /\ current = t /\ pc[t] # "retest" /\ thread_block /\ Goto(t, "exited", NULL)
        /\ waiters' = waiters /\ value' = value
    BY <1>14, Zenon DEF thread_exit, Free, At, sema
  <2>2. Passes(t) /\ pc'[t] = "exited"
    BY <1>5, <2>1, ZenonT(40)
  <2>3. \A u \in Threads \ {t} : status'[u] = "blocked" <=> status[u] = "blocked"
    BY <2>1, BlockOK, ZenonT(40) DEF ListInv
  <2> QED
    BY <1>3, <2>1, <2>2, <2>3, ZenonT(40)
<1>15. ASSUME NEW t \in Threads, CreateUnblock(t) PROVE Wakeup(z)'
  <2>1. /\ current = t /\ pc[t] # "retest" /\ creating[t] \in Threads
        /\ status[creating[t]] = "unborn" /\ thread_unblock(creating[t])
        /\ Goto(t, "created", creating[t]) /\ waiters' = waiters /\ value' = value
    BY <1>15, Zenon DEF CreateUnblock, At, sema, LockTypeOK, CreateInv
  <2>2. status' = [status EXCEPT ![creating[t]] = "ready"]
    BY <2>1, UnblockOK, ZenonT(40) DEF ListInv
  <2>3. \A u \in Threads : status'[u] = "blocked" <=> status[u] = "blocked"
    BY <2>1, <2>2 DEF ListInv, QueueOK
  <2> QED
    BY <1>3, <1>5, <2>1, <2>3, ZenonT(40)
<1> QED
  BY <1>6, <1>7, <1>8, <1>9, <1>10, <1>11, <1>12, <1>13, <1>14, <1>15, CalmSteps, ZenonT(40)
  DEF Next, Primitive, Call

\* Nothing but the reasons in Crashes stops the kernel.
LEMMA CrashNext ==
  ASSUME crash \in Crashes \cup {NULL}, [Next]_vars
  PROVE  crash' \in Crashes \cup {NULL}
<1>1. ASSUME NEW t, NEW x, AcquireTest(t, x) \/ lock_try_acquire(t, x) \/ ReleaseBody(t, x)
      PROVE  crash' \in Crashes \cup {NULL}
  BY <1>1, Zenon DEF AcquireTest, lock_try_acquire, ReleaseBody, Crashes
<1>2. ASSUME NEW t, FollowChain(t) \/ EnlistDonor(t) PROVE crash' \in Crashes \cup {NULL}
  BY <1>2, Zenon DEF FollowChain, EnlistDonor, Crashes
<1>3. ASSUME NEW t, NEW x,
             \/ lock_acquire(t, x) \/ thread_create(t, x) \/ lock_release(t, x) \/ allocate_tid(t)
      PROVE  crash' \in Crashes \cup {NULL}
  BY <1>1, <1>3, ZenonT(40) DEF lock_acquire, thread_create, lock_release, allocate_tid
<1>4. ASSUME NEW t, \/ Retest(t) \/ check_priority(t) \/ ComparePriority(t) \/ Yield(t)
                    \/ SetTryLock(t) \/ priority_donation(t) \/ RaiseHolder(t) \/ LockDown(t)
      PROVE  crash' = crash
  BY <1>4, Zenon DEF Retest, check_priority, ComparePriority, Yield, SetTryLock, priority_donation,
              RaiseHolder, LockDown
<1>5. ASSUME NEW t, \/ Acquired(t) \/ TryAcquired(t) \/ priority_recheck(t) \/ ClearHolder(t)
                    \/ LockUp(t) \/ CreateUnblock(t) \/ CreateCompare(t) \/ thread_exit(t)
      PROVE  crash' = crash
  BY <1>5, Zenon DEF Acquired, TryAcquired, priority_recheck, ClearHolder, LockUp, CreateUnblock,
              CreateCompare, thread_exit
<1>6. ASSUME NEW t, NEW x,
             sema_down(t, x) \/ sema_try_down(t, x) \/ sema_up(t, x) \/ thread_set_priority(t, x)
      PROVE  crash' = crash
  BY <1>6, Zenon DEF sema_down, sema_try_down, sema_up, thread_set_priority
<1>7. ASSUME NEW x, DeviceInterrupt(x) \/ TimerInterrupt \/ IdleLoop \/ UNCHANGED vars
      PROVE  crash' = crash
  BY <1>7, Zenon DEF DeviceInterrupt, TimerInterrupt, IdleLoop, vars
<1> QED
  BY <1>1, <1>2, <1>3, <1>4, <1>5, <1>6, <1>7, ZenonT(40) DEF Next, Primitive, Call

-----------------------------------------------------------------------------
(* The results.                                                            *)

QueueInv ==
  /\ ListInv /\ CreateInv /\ PrioType /\ DonInv
  /\ crash \in Crashes \cup {NULL}

\* The kernel starts with empty wait lists and nobody in priority_donation.
LEMMA QueueInvInit == Init => QueueInv
<1> SUFFICES ASSUME Init PROVE QueueInv
  BY Zenon
<1>1. QueueOK
  BY CpuInitOK, Zenon DEF Init
<1>2. \A s \in Semas : waiters[s] = <<>> /\ WaitSet(s) = {}
  BY Zenon DEF Init, WaitSet
<1>3. ListInv
  <2>1. \A s \in Semas : Lists(waiters[s], WaitSet(s))
    BY <1>2, ListsEmpty, ZenonT(40)
  <2>2. waiters \in [Semas -> Seq(Threads)]
    BY DEF Init
  <2> QED
    BY <1>1, <2>1, <2>2, ZenonT(40) DEF ListInv
<1>4. CreateInv
  BY Zenon DEF CreateInv, Init
<1>5. PrioType
  BY PriorityAssumption DEF PrioType, Init, CpuInit
<1>6. Donation(NULL, NULL) \in Donations
  BY DonationType, Zenon DEF DonAt
<1>7. DonInv
  BY <1>6, Zenon DEF DonInv, DonOK, Init, Args
<1> QED
  BY <1>3, <1>4, <1>5, <1>7, ZenonT(40) DEF QueueInv, Init

\* Each step keeps the lists, the threads being made and the types.
LEMMA QueueInvNext == LockInv /\ QueueInv /\ [Next]_vars => QueueInv'
BY ListInvNext, CreateInvNext, PrioTypeNext, DonInvNext, CrashNext, ZenonT(40)
DEF LockInv, QueueInv, ListInv

\* The scheduler, the semaphores and the locks keep their lists in order,
\* whatever the threads call and wherever the timer interrupts them.
THEOREM QueueInvariant == Spec => []QueueInv
BY QueueInvInit, QueueInvNext, LockInvariant, PTL DEF Spec

\* Every variable keeps its type; thread_ticks never reaches TIME_SLICE outside
\* thread_tick, and the value of a semaphore never goes below 0.
THEOREM TypeCorrect == Spec => []TypeOK
<1>1. LockInv /\ QueueInv => TypeOK
  <2> SUFFICES ASSUME LockInv, QueueInv PROVE TypeOK
    BY Zenon
  <2>1. CpuTypeOK
    BY QueueMeaning, Zenon DEF QueueInv, ListInv, PrioType
  <2>2. waiters \in [Semas -> Seq(Threads)]
    BY Zenon DEF QueueInv, ListInv
  <2> QED
    BY <2>1, <2>2, ZenonT(40) DEF TypeOK, LockInv, LockTypeOK, QueueInv, PrioType, DonInv, Donations, Args
<1> QED
  BY <1>1, LockInvariant, QueueInvariant, PTL

\* The elem of a thread is on one list at most: the run queue if the thread is
\* ready, the waiters of the semaphore that it blocks on if it is blocked.
THEOREM ElemOnOneListHolds == Spec => []ElemOnOneList
<1>1. QueueInv => ElemOnOneList
  <2> SUFFICES ASSUME QueueInv PROVE ElemOnOneList
    BY Zenon
  <2>1. RunQueueOK
    BY QueueMeaning, Zenon DEF QueueInv, ListInv, PrioType
  <2>2. \A s \in Semas : IsInjective(waiters[s]) /\ Range(waiters[s]) = WaitSet(s)
    BY Zenon DEF QueueInv, ListInv, Lists
  <2> QED
    BY <2>1, <2>2, ZenonT(40) DEF ElemOnOneList, WaitSet
<1> QED
  BY <1>1, QueueInvariant, PTL

\* While threads wait for a semaphore, each unit of its value is matched by a
\* thread on its way to take it, for any number of threads, semaphores and units.
THEOREM NoLostWakeupHolds == Spec => []NoLostWakeup
<1>1. Init => NoLostWakeup
  BY Zenon DEF Init, NoLostWakeup
<1>2. ASSUME LockInv, LockInv', QueueInv, NoLostWakeup, [Next]_vars PROVE NoLostWakeup'
  BY <1>2, WakeupNext, Zenon DEF LockInv, QueueInv
<1> QED
  BY <1>1, <1>2, LockInvariant, QueueInvariant, PTL DEF Spec

\* sema_up wakes a waiter of the highest priority, for any priorities and
\* however donation has changed them since the waiters were queued.
THEOREM WakesHighestHolds == Spec => WakesHighest
<1>1. LockInv /\ QueueInv /\ [Next]_vars => [WakesStep]_vars
  BY WakesNext, Zenon DEF LockInv, QueueInv
<1>2. WakesHighest <=> [][WakesStep]_vars
  BY Zenon DEF WakesHighest, WakesStep
<1> QED
  BY <1>1, <1>2, LockInvariant, QueueInvariant, PTL DEF Spec

=============================================================================
