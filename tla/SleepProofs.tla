----------------------------- MODULE SleepProofs ----------------------------
(***************************************************************************)
(* The alarm clock for any threads, priorities and sleeping times: the     *)
(* sleep list holds the sleepers in the order of their target times, the   *)
(* interrupt handler leaves nobody overdue and timer_sleep never returns   *)
(* early.  Then condition variables for any threads and priorities:        *)
(* waiting and signalling look atomic, although cond_wait gives up the     *)
(* lock before it sleeps.                                                  *)
(***************************************************************************)
EXTENDS AlarmClock, CondVar, SchedulerProofs

Sleepers == {t \in Threads : status[t] = "blocked"}

ClockType ==
  /\ priority \in [Threads -> Nat]
  /\ ticks \in 0..MaxTicks /\ in_intr \in BOOLEAN
  /\ timeChecker \in [Threads -> Int]
  /\ sema_p \in [Threads -> {0, 1}]
  /\ pc \in [Threads -> {"run", "call", "asleep"}]
  /\ start \in [Threads -> Nat] /\ dur \in [Threads -> Int]

\* The sleep list, with the first sleeper due first.
SleepInv ==
  /\ QueueOK
  /\ Lists(sleep_list, Sleepers)
  /\ Sorted(sleep_list, compare_timer(timeChecker))

\* A sleeper has its target time, and a sleeper whose semaphore has been upped
\* has reached it.
ThreadOK(t) ==
  /\ status[t] = "blocked" => pc[t] = "asleep"
  /\ sema_p[t] = 1 <=> pc[t] = "asleep" /\ status[t] # "blocked"
  /\ pc[t] = "asleep" => timeChecker[t] = start[t] + dur[t]
  /\ sema_p[t] = 1 => timeChecker[t] <= ticks

AlarmInv == ClockType /\ SleepInv /\ \A t \in Threads : ThreadOK(t)

-----------------------------------------------------------------------------
\* compare_timer is an order that list_insert_ordered can use.
LEMMA TimerOrder ==
  ASSUME NEW due \in [Threads -> Int]
  PROVE  /\ \A a, b \in Threads : <<a, b>> \in compare_timer(due) <=> due[a] < due[b]
         /\ StrictOrder(compare_timer(due), Threads)
<1>1. \A a, b \in Threads : <<a, b>> \in compare_timer(due) <=> due[a] < due[b]
  BY Zenon DEF compare_timer
<1>2. \A a \in Threads : due[a] \in Int
  BY Zenon
<1> QED
  BY <1>1, <1>2 DEF StrictOrder

\* A new target time of a thread that is not on the list leaves it sorted.
LEMMA SortedWhoever ==
  ASSUME NEW q \in Seq(Threads), NEW due \in [Threads -> Int], NEW t \in Threads,
         NEW n \in Int, t \notin Range(q), Sorted(q, compare_timer(due)),
         NEW new, new = [due EXCEPT ![t] = n]
  PROVE  Sorted(q, compare_timer(new))
<1>1. new \in [Threads -> Int] /\ \A u \in Threads \ {t} : new[u] = due[u]
  BY Zenon
<1>2. \A i \in 1..Len(q) : q[i] \in Threads \ {t}
  BY ElementsOfSeq
<1>3. \A i \in 1..Len(q) : new[q[i]] = due[q[i]]
  BY <1>1, <1>2, Zenon
<1>4. \A i, j \in 1..Len(q) :
        <<q[j], q[i]>> \in compare_timer(new) <=> <<q[j], q[i]>> \in compare_timer(due)
  BY <1>1, <1>2, <1>3, TimerOrder, ZenonT(40)
<1> QED
  BY <1>4, Zenon DEF Sorted

\* The rest of a sorted list is sorted.
LEMMA SortedTail ==
  ASSUME NEW q \in Seq(Threads), q # <<>>, NEW lt, Sorted(q, lt)
  PROVE  Sorted(Tail(q), lt)
<1>1. Len(Tail(q)) = Len(q) - 1 /\ \A i \in 1..Len(Tail(q)) : Tail(q)[i] = q[i + 1]
  BY TailElements, Zenon
<1>2. Len(q) \in Nat
  OBVIOUS
<1> QED
  BY <1>1, <1>2 DEF Sorted

\* The first of a sorted sleep list is due first.
LEMMA FirstIsFirst ==
  ASSUME NEW q \in Seq(Threads), q # <<>>, NEW due \in [Threads -> Int],
         Sorted(q, compare_timer(due))
  PROVE  \A t \in Range(q) : due[Head(q)] <= due[t]
<1> SUFFICES ASSUME NEW t \in Range(q) PROVE due[Head(q)] <= due[t]
  BY Zenon
<1>1. PICK i \in 1..Len(q) : q[i] = t
  BY ElementsOfSeq, Zenon
<1>2. Len(q) \in Nat /\ 1 \in 1..Len(q) /\ q[1] \in Threads /\ t \in Threads /\ Head(q) = q[1]
  BY <1>1
<1>3. due[q[1]] \in Int /\ due[t] \in Int
  BY <1>2, Zenon
<1>4. CASE i = 1
  BY <1>1, <1>2, <1>3, <1>4
<1>5. CASE i # 1
  <2>1. <<t, q[1]>> \notin compare_timer(due)
    BY <1>1, <1>2, <1>5 DEF Sorted
  <2> QED
    BY <1>2, <1>3, <2>1, TimerOrder
<1> QED
  BY <1>4, <1>5, Zenon

-----------------------------------------------------------------------------
(* The steps.                                                              *)

\* The kernel boots with nobody asleep.
LEMMA AlarmInit == Init => AlarmInv
<1> SUFFICES ASSUME Init PROVE AlarmInv
  BY Zenon
<1>1. QueueOK
  BY CpuInitOK, Zenon DEF Init
<1>2. \A t \in Threads : status[t] # "blocked" /\ pc[t] = "run" /\ sema_p[t] = 0
  BY Zenon DEF Init, CpuInit
<1>3. ClockType
  <2>1. in_intr \in BOOLEAN
    BY Zenon DEF Init
  <2>2. priority \in [Threads -> Nat] /\ ticks \in 0..MaxTicks
    BY PriorityAssumption, ClockAssumption DEF Init, CpuInit
  <2> QED
    BY <2>1, <2>2 DEF ClockType, Init
<1>4. Sleepers = {} /\ sleep_list = <<>>
  BY <1>2, Zenon DEF Sleepers, Init
<1>5. Lists(sleep_list, Sleepers)
  BY <1>4, ListsEmpty, Zenon
<1>6. Sorted(sleep_list, compare_timer(timeChecker))
  BY <1>4 DEF Sorted
<1>7. \A t \in Threads : ThreadOK(t)
  BY <1>2 DEF ThreadOK
<1> QED
  BY <1>1, <1>3, <1>5, <1>6, <1>7, Zenon DEF AlarmInv, SleepInv

\* A step that moves threads between the run queue and the CPU only.
LEMMA AlarmRotates ==
  ASSUME AlarmInv, QueueOK', ClockType',
         \A t \in Threads : \/ status'[t] = status[t]
                            \/ {status[t], status'[t]} \subseteq {"ready", "running"},
         UNCHANGED <<sleep_list, timeChecker, sema_p, pc, start, dur>>,
         ticks' >= ticks
  PROVE  AlarmInv'
<1>1. \A t \in Threads : status'[t] = "blocked" <=> status[t] = "blocked"
  BY Zenon
<1>2. Sleepers' = Sleepers
  BY <1>1, Zenon DEF Sleepers
<1>3. SleepInv'
  BY <1>2, Zenon DEF AlarmInv, SleepInv
<1>4. ASSUME NEW t \in Threads PROVE ThreadOK(t)'
  <2>1. ThreadOK(t) /\ timeChecker[t] \in Int /\ ticks \in Int /\ ticks' \in Int
    BY DEF AlarmInv, ClockType
  <2> QED
    BY <1>1, <2>1 DEF ThreadOK
<1> QED
  BY <1>3, <1>4, Zenon DEF AlarmInv

\* Going to sleep: the list stays sorted with the new sleeper in its place.
LEMMA AlarmSleep ==
  ASSUME AlarmInv, NEW t \in Threads, Sleep(t)
  PROVE  AlarmInv'
<1>1. /\ current = t /\ pc[t] = "call" /\ thread_block
      /\ pc' = [pc EXCEPT ![t] = "asleep"]
      /\ sema_p' = [sema_p EXCEPT ![t] = 0]
      /\ timeChecker' = [timeChecker EXCEPT ![t] = start[t] + dur[t]]
      /\ UNCHANGED <<priority, ticks, in_intr, start, dur>>
  BY Zenon DEF Sleep, At, clock
<1>2. PICK r : r = list_insert_ordered(sleep_list, t, compare_timer(timeChecker'))
  BY Zenon
<1>3. sleep_list' = r
  BY <1>2, Zenon DEF Sleep
<1>4. /\ QueueOK' /\ status'[t] = "blocked" /\ status[t] = "running"
      /\ \A u \in Threads \ {t} : \/ status'[u] = status[u]
                                  \/ status[u] = "ready" /\ status'[u] = "running"
  BY <1>1, BlockOK, Zenon DEF AlarmInv, SleepInv, QueueOK
<1>5. start[t] + dur[t] \in Int
  BY DEF AlarmInv, ClockType
<1>6. ClockType'
  BY <1>1, <1>5, Zenon DEF AlarmInv, ClockType
<1>7. t \notin Sleepers /\ Sleepers' = Sleepers \cup {t}
  BY <1>4, Zenon DEF Sleepers
<1>8. Lists(r, Sleepers \cup {t})
  BY <1>2, <1>7, ListsInsert, Zenon DEF AlarmInv, SleepInv
<1>9. sleep_list \in Seq(Threads) /\ t \notin Range(sleep_list)
  BY <1>7, Zenon DEF AlarmInv, SleepInv, Lists
<1>10. Sorted(sleep_list, compare_timer(timeChecker'))
  BY <1>1, <1>5, <1>9, SortedWhoever, Zenon DEF AlarmInv, SleepInv, ClockType
<1>11. StrictOrder(compare_timer(timeChecker'), Threads)
  BY <1>6, TimerOrder, Zenon DEF ClockType
<1>12. Sorted(r, compare_timer(timeChecker'))
  BY <1>2, <1>9, <1>10, <1>11, InsertSorted, Zenon
<1>13. SleepInv'
  BY <1>3, <1>4, <1>7, <1>8, <1>12, Zenon DEF SleepInv
<1>14. ASSUME NEW u \in Threads \ {t} PROVE ThreadOK(u)'
  <2>1. /\ pc'[u] = pc[u] /\ sema_p'[u] = sema_p[u] /\ timeChecker'[u] = timeChecker[u]
        /\ status'[u] = "blocked" <=> status[u] = "blocked"
    BY <1>1, <1>4, Zenon DEF AlarmInv, ClockType
  <2>2. ThreadOK(u)
    BY Zenon DEF AlarmInv
  <2> QED
    BY <1>1, <2>1, <2>2, Zenon DEF ThreadOK
<1>15. ThreadOK(t)'
  <2>1. pc'[t] = "asleep" /\ sema_p'[t] = 0 /\ timeChecker'[t] = start[t] + dur[t]
    BY <1>1, Zenon DEF AlarmInv, ClockType
  <2> QED
    BY <1>1, <1>4, <2>1 DEF ThreadOK
<1> QED
  BY <1>6, <1>13, <1>14, <1>15, Zenon DEF AlarmInv

\* A turn of timer_wakeup: the sleeper that is woken is due.
LEMMA AlarmWakes ==
  ASSUME AlarmInv, timer_wakeup
  PROVE  AlarmInv'
<1>1. PICK h : h = Head(sleep_list)
  BY Zenon
<1>2. /\ sleep_list # <<>> /\ ticks >= timeChecker[h]
      /\ sema_p' = [sema_p EXCEPT ![h] = @ + 1]
      /\ thread_unblock(h) /\ sleep_list' = Tail(sleep_list)
      /\ UNCHANGED <<priority, ticks, in_intr, timeChecker, pc, start, dur>>
  BY <1>1, Zenon DEF timer_wakeup, Due, clock
<1>3. h \in Sleepers /\ h \in Threads /\ Lists(Tail(sleep_list), Sleepers \ {h})
  BY <1>1, <1>2, ListsTail, Zenon DEF AlarmInv, SleepInv
<1>4. status[h] = "blocked" /\ pc[h] = "asleep" /\ sema_p[h] = 0
      /\ timeChecker[h] = start[h] + dur[h]
  <2>1. ThreadOK(h) /\ status[h] = "blocked" /\ sema_p[h] \in {0, 1}
    BY <1>3, Zenon DEF AlarmInv, Sleepers, ClockType
  <2> QED
    BY <2>1, Zenon DEF ThreadOK
<1>5. QueueOK' /\ status' = [status EXCEPT ![h] = "ready"]
  BY <1>2, <1>3, <1>4, UnblockOK, Zenon DEF AlarmInv, SleepInv
<1>6. /\ status'[h] = "ready" /\ sema_p'[h] = 1
      /\ \A u \in Threads \ {h} : status'[u] = status[u] /\ sema_p'[u] = sema_p[u]
  BY <1>2, <1>3, <1>4, <1>5 DEF AlarmInv, ClockType, SleepInv, QueueOK
<1>7. ClockType'
  BY <1>2, <1>3, <1>4 DEF AlarmInv, ClockType
<1>8. Sleepers' = Sleepers \ {h}
  BY <1>3, <1>6, Zenon DEF Sleepers
<1>9. Sorted(Tail(sleep_list), compare_timer(timeChecker))
  BY <1>2, SortedTail, Zenon DEF AlarmInv, SleepInv, Lists
<1>10. SleepInv'
  BY <1>2, <1>3, <1>5, <1>8, <1>9, Zenon DEF SleepInv
<1>11. ASSUME NEW u \in Threads \ {h} PROVE ThreadOK(u)'
  <2>1. ThreadOK(u)
    BY Zenon DEF AlarmInv
  <2> QED
    BY <1>2, <1>6, <2>1, Zenon DEF ThreadOK
<1>12. ThreadOK(h)'
  <2>1. timeChecker[h] \in Int /\ ticks \in Int
    BY <1>3 DEF AlarmInv, ClockType
  <2> QED
    BY <1>2, <1>4, <1>6, <2>1, Zenon DEF ThreadOK
<1> QED
  BY <1>7, <1>10, <1>11, <1>12, Zenon DEF AlarmInv

\* The return from timer_sleep: the value that sema_down tests again is 1.
LEMMA AlarmReturns ==
  ASSUME AlarmInv, NEW t \in Threads, Return(t)
  PROVE  AlarmInv' /\ ticks >= start[t] + dur[t]
<1>1. /\ current = t /\ pc[t] = "asleep" /\ status[t] = "running"
      /\ UNCHANGED <<priority, ticks, in_intr, sleep_list, timeChecker, start, dur>>
  BY Zenon DEF Return, At, clock, AlarmInv, SleepInv, QueueOK
<1>2. ThreadOK(t)
  BY Zenon DEF AlarmInv
<1>3. sema_p[t] = 1 /\ timeChecker[t] = start[t] + dur[t] /\ timeChecker[t] <= ticks
  BY <1>1, <1>2, Zenon DEF ThreadOK
<1>4. /\ sema_p' = [sema_p EXCEPT ![t] = @ - 1]
      /\ pc' = [pc EXCEPT ![t] = "run"]
      /\ UNCHANGED cpu
  BY <1>3 DEF Return
<1>5. sema_p'[t] = 0 /\ pc'[t] = "run"
      /\ \A u \in Threads \ {t} : sema_p'[u] = sema_p[u] /\ pc'[u] = pc[u]
  BY <1>3, <1>4 DEF AlarmInv, ClockType
<1>6. ClockType'
  BY <1>1, <1>3, <1>4 DEF AlarmInv, ClockType
<1>7. SleepInv'
  BY <1>1, <1>4, Zenon DEF AlarmInv, SleepInv, QueueOK, Sleepers, cpu
<1>8. ASSUME NEW u \in Threads \ {t} PROVE ThreadOK(u)'
  <2>1. ThreadOK(u)
    BY Zenon DEF AlarmInv
  <2> QED
    BY <1>1, <1>4, <1>5, <2>1, Zenon DEF ThreadOK, cpu
<1>9. ThreadOK(t)'
  BY <1>1, <1>4, <1>5 DEF ThreadOK, cpu
<1>10. ticks >= start[t] + dur[t]
  BY <1>3, Zenon DEF AlarmInv, ClockType
<1> QED
  BY <1>6, <1>7, <1>8, <1>9, <1>10, Zenon DEF AlarmInv

\* The call reads the clock.
LEMMA AlarmCalls ==
  ASSUME AlarmInv, NEW t \in Threads, NEW d \in Durations, timer_sleep(t, d)
  PROVE  AlarmInv'
<1>1. /\ current = t /\ pc[t] = "run" /\ status[t] = "running"
      /\ start' = [start EXCEPT ![t] = ticks] /\ dur' = [dur EXCEPT ![t] = d]
      /\ pc' = [pc EXCEPT ![t] = "call"]
      /\ UNCHANGED <<cpu, priority, ticks, in_intr, sleep_list, timeChecker, sema_p>>
  BY Zenon DEF timer_sleep, At, clock, AlarmInv, SleepInv, QueueOK
<1>2. ClockType'
  BY <1>1, ClockAssumption DEF AlarmInv, ClockType
<1>3. SleepInv'
  BY <1>1, Zenon DEF AlarmInv, SleepInv, QueueOK, Sleepers, cpu
<1>4. /\ pc'[t] = "call"
      /\ \A u \in Threads \ {t} : pc'[u] = pc[u] /\ start'[u] = start[u] /\ dur'[u] = dur[u]
  BY <1>1, Zenon DEF AlarmInv, ClockType
<1>5. ASSUME NEW u \in Threads PROVE ThreadOK(u)'
  <2>1. ThreadOK(u)
    BY Zenon DEF AlarmInv
  <2> QED
    BY <1>1, <1>4, <2>1, Zenon DEF ThreadOK, cpu
<1> QED
  BY <1>2, <1>3, <1>5, Zenon DEF AlarmInv

\* Every step keeps the invariant.
LEMMA AlarmNext == AlarmInv /\ [Next]_vars => AlarmInv'
<1> SUFFICES ASSUME AlarmInv, [Next]_vars PROVE AlarmInv'
  BY Zenon
<1>1. ASSUME timer_interrupt PROVE AlarmInv'
  <2>1. /\ ticks < MaxTicks /\ ticks' = ticks + 1 /\ in_intr' = TRUE
        /\ UNCHANGED <<current, status, ready_list, thread_ticks, priority>>
        /\ UNCHANGED <<sleep_list, timeChecker, sema_p, pc, start, dur>>
    BY <1>1, Zenon DEF timer_interrupt, cpu
  <2>2. ClockType' /\ QueueOK' /\ ticks' >= ticks
    BY <2>1, ClockAssumption DEF AlarmInv, ClockType, SleepInv, QueueOK
  <2> QED
    BY <2>1, <2>2, AlarmRotates, Zenon
<1>2. ASSUME Tick \/ IdleLoop PROVE AlarmInv'
  <2>1. /\ thread_tick \/ idle
        /\ UNCHANGED <<priority, ticks, sleep_list, timeChecker, sema_p, pc, start, dur>>
        /\ in_intr' \in BOOLEAN
    BY <1>2, Zenon DEF Tick, IdleLoop, clock, AlarmInv, ClockType
  <2>2. ClockType' /\ ticks' >= ticks
    BY <2>1 DEF AlarmInv, ClockType
  <2>3. /\ QueueOK'
        /\ \A t \in Threads : \/ status'[t] = status[t]
                              \/ {status[t], status'[t]} \subseteq {"ready", "running"}
    BY <2>1, TickOK, IdleOK, Zenon DEF AlarmInv, SleepInv
  <2> QED
    BY <2>1, <2>2, <2>3, AlarmRotates, Zenon
<1>3. ASSUME UNCHANGED vars PROVE AlarmInv'
  <2>1. /\ UNCHANGED <<current, status, ready_list, thread_ticks, priority, ticks, in_intr>>
        /\ UNCHANGED <<sleep_list, timeChecker, sema_p, pc, start, dur>>
    BY <1>3, Zenon DEF vars, cpu, clock
  <2>2. ClockType' /\ QueueOK' /\ ticks' >= ticks
    BY <2>1 DEF AlarmInv, ClockType, SleepInv, QueueOK
  <2> QED
    BY <2>1, <2>2, AlarmRotates, Zenon
<1> QED
  BY <1>1, <1>2, <1>3, AlarmSleep, AlarmReturns, AlarmCalls, AlarmWakes, Zenon DEF Next

\* The sleep list and the clock stay consistent, wherever the timer interrupts.
THEOREM AlarmInvariant == Spec => []AlarmInv
BY AlarmInit, AlarmNext, PTL DEF Spec

-----------------------------------------------------------------------------
(* The results.                                                            *)

\* Every variable of the alarm clock keeps its type.
THEOREM AlarmTypeCorrect == Spec => []TypeOK
<1>1. AlarmInv => TypeOK
  BY QueueMeaning, Zenon DEF AlarmInv, ClockType, SleepInv, Lists, TypeOK
<1> QED
  BY <1>1, AlarmInvariant, PTL

\* timer_sleep and timer_wakeup keep exactly the sleepers on the sleep list,
\* each once, in the order of their target times.
THEOREM SleepersListedHolds == Spec => []SleepersListed
<1>1. AlarmInv => SleepersListed
  <2> SUFFICES ASSUME AlarmInv PROVE SleepersListed
    BY Zenon
  <2>1. /\ sleep_list \in Seq(Threads) /\ IsInjective(sleep_list)
        /\ Range(sleep_list) = Sleepers
    BY Zenon DEF AlarmInv, SleepInv, Lists
  <2>2. ASSUME NEW i \in DOMAIN sleep_list, NEW j \in DOMAIN sleep_list, i < j
        PROVE  timeChecker[sleep_list[i]] <= timeChecker[sleep_list[j]]
    <3>1. i \in 1..Len(sleep_list) /\ j \in 1..Len(sleep_list)
      BY <2>1
    <3>2. <<sleep_list[j], sleep_list[i]>> \notin compare_timer(timeChecker)
      BY <2>2, <3>1, Zenon DEF AlarmInv, SleepInv, Sorted
    <3>3. sleep_list[i] \in Threads /\ sleep_list[j] \in Threads
      BY <2>1, <3>1
    <3> QED
      BY <3>2, <3>3, TimerOrder DEF AlarmInv, ClockType
  <2> QED
    BY <2>1, <2>2, Zenon DEF SleepersListed, Sleepers
<1> QED
  BY <1>1, AlarmInvariant, PTL

\* When the handler of the timer interrupt returns nobody is overdue: the list
\* is sorted, so the loop of timer_wakeup may stop at the first who is not due.
THEOREM NobodyOverdueHolds == Spec => NobodyOverdue
<1> DEFINE A == in_intr /\ ~in_intr' =>
                  \A t \in Threads : status'[t] = "blocked" => timeChecker[t] > ticks
<1>1. AlarmInv /\ [Next]_vars => A
  <2> SUFFICES ASSUME AlarmInv, [Next]_vars, in_intr, ~in_intr',
                      NEW t \in Threads, status'[t] = "blocked"
               PROVE  timeChecker[t] > ticks
    BY Zenon
  <2>1. Tick
    BY Zenon DEF Next, vars, clock, Sleep, Return, timer_sleep, timer_interrupt, timer_wakeup,
           IdleLoop, At, IntrOn
  <2>2. status[t] = "blocked"
    BY <2>1, TickOK, Zenon DEF Tick, AlarmInv, SleepInv
  <2>3. t \in Range(sleep_list) /\ sleep_list \in Seq(Threads)
    BY <2>2, Zenon DEF AlarmInv, SleepInv, Lists, Sleepers
  <2>4. sleep_list # <<>>
    BY <2>2, ListsEmpty, Zenon DEF AlarmInv, SleepInv, Sleepers
  <2>5. timeChecker[Head(sleep_list)] <= timeChecker[t]
    BY <2>3, <2>4, FirstIsFirst, Zenon DEF AlarmInv, SleepInv, ClockType
  <2>6. Head(sleep_list) \in Threads
    BY <2>4, ListsTail, Zenon DEF AlarmInv, SleepInv
  <2>7. ticks \in Int /\ timeChecker[t] \in Int /\ timeChecker[Head(sleep_list)] \in Int
    BY <2>6 DEF AlarmInv, ClockType
  <2> QED
    BY <2>1, <2>4, <2>5, <2>7 DEF Tick, Due
<1>2. NobodyOverdue <=> [][A]_vars
  BY Zenon DEF NobodyOverdue
<1> HIDE DEF A
<1> QED
  BY <1>1, <1>2, AlarmInvariant, PTL DEF Spec

\* timer_sleep does not return before its time: a sleeper is taken off the list
\* only when its target has come, and the clock does not go back.
THEOREM NotEarlyHolds == Spec => NotEarly
<1> DEFINE A == \A t \in Threads :
                  pc[t] = "asleep" /\ pc'[t] = "run" => ticks >= start[t] + dur[t]
<1>1. AlarmInv /\ [Next]_vars => A
  <2> SUFFICES ASSUME AlarmInv, [Next]_vars, NEW t \in Threads,
                      pc[t] = "asleep", pc'[t] = "run"
               PROVE  ticks >= start[t] + dur[t]
    BY Zenon
  <2>1. Return(t)
    <3>1. \A u \in Threads : ~Sleep(u) /\ \A d \in Durations : ~timer_sleep(u, d)
      BY Zenon DEF Sleep, timer_sleep, At, AlarmInv, ClockType
    <3>2. \A u \in Threads : Return(u) => u = t
      BY Zenon DEF Return, AlarmInv, ClockType
    <3>3. ~timer_interrupt /\ ~timer_wakeup /\ ~Tick /\ ~IdleLoop /\ ~UNCHANGED vars
      BY Zenon DEF timer_interrupt, timer_wakeup, Tick, IdleLoop, vars
    <3> QED
      BY <3>1, <3>2, <3>3, Zenon DEF Next
  <2> QED
    BY <2>1, AlarmReturns, Zenon
<1>2. NotEarly <=> [][A]_vars
  BY Zenon DEF NotEarly
<1> HIDE DEF A
<1> QED
  BY <1>1, <1>2, AlarmInvariant, PTL DEF Spec

\* Both together: timer_wakeup ends a sleep with the tick that timer_sleep was asked
\* to wait for.
THEOREM WokenOnTimeHolds == Spec => WokenOnTime
  BY NotEarlyHolds, NobodyOverdueHolds, PTL DEF WokenOnTime

-----------------------------------------------------------------------------
(* Condition variables.                                                    *)

\* A thread on the list has called sema_down on an empty semaphore, and whoever
\* has the lock is in code that it protects.
CondInv ==
  /\ holder \in Callers \cup {NoThread}
  /\ waiters \in Seq(Callers) /\ IsInjective(waiters)
  /\ value \in [Callers -> Nat]
  /\ at \in [Callers -> {"out", "in", "again", "down", "asleep", "broadcast"}]
  /\ \A t \in Callers : at[t] \in {"in", "broadcast"} <=> holder = t
  /\ \A t \in Range(waiters) : t \in Callers /\ at[t] \in {"down", "asleep"} /\ value[t] = 0

Waiting == Range(waiters)
Woken == {t \in Callers : at[t] \in {"down", "asleep", "again"} /\ t \notin Range(waiters)}

\* The woken callers are those that are off the list.
LEMMA WokenIs ==
  /\ Waiting = Range(waiters)
  /\ Waiting' = Range(waiters')
  /\ Woken = {t \in Callers : at[t] \in {"down", "asleep", "again"} /\ t \notin Waiting}
  /\ Woken' = {t \in Callers : at'[t] \in {"down", "asleep", "again"} /\ t \notin Waiting'}
BY Zenon DEF Woken, Waiting

\* convar_compare is an order that list_sort can use.
LEMMA CompareOrder == ASSUME CondConstants PROVE WeakOrder(convar_compare, Callers)
<1>1. \A a, b \in Callers : <<a, b>> \in convar_compare <=> prio[a] > prio[b]
  BY Zenon DEF convar_compare
<1>2. \A a \in Callers : prio[a] \in Nat
  BY Zenon DEF CondConstants
<1> QED
  BY <1>1, <1>2 DEF WeakOrder, StrictOrder

\* cond_signal takes a waiter with the highest priority off the list, unless it
\* runs into the assertion of list_front.
LEMMA SignalStep ==
  ASSUME CondConstants, CondInv, NEW t \in Callers, holder = t, waiters # <<>>,
         NEW label \in {"in", "broadcast"}, Signal(t, label), UNCHANGED holder
  PROVE  /\ CondInv'
         /\ \/ UNCHANGED <<Waiting, Woken>>
            \/ \E w \in Waiting : /\ \A u \in Waiting : prio[u] <= prio[w]
                                  /\ Waiting' = Waiting \ {w} /\ Woken' = Woken \cup {w}
<1>1. CASE ~Comparable
  BY <1>1, WokenIs, Zenon DEF CondInv, Signal, Waiting
<1>2. CASE Comparable
  <2>1. PICK q : q = list_sort(waiters, convar_compare)
    BY Zenon
  <2>2. /\ q \in Seq(Callers) /\ Len(q) = Len(waiters) /\ Range(q) = Range(waiters)
        /\ IsInjective(q) /\ Sorted(q, convar_compare)
    BY <2>1, CompareOrder, SortContent DEF CondInv
  <2>3. q # <<>>
    BY <2>2, SMTT(30) DEF CondInv
  <2>4. PICK w : w = Head(q)
    BY Zenon
  <2>5. /\ w \in Callers /\ w \in Range(waiters) /\ Tail(q) \in Seq(Callers)
        /\ IsInjective(Tail(q)) /\ Range(Tail(q)) = Range(waiters) \ {w}
    BY <2>2, <2>3, <2>4, TailContent, Zenon
  <2>6. \A u \in Range(waiters) : u \in Callers /\ prio[u] <= prio[w]
    <3>1. \A u \in Range(waiters) : <<u, w>> \notin convar_compare
      BY <2>2, <2>3, <2>4, CompareOrder, FrontOfSorted, Zenon DEF WeakOrder
    <3>2. \A u \in Range(waiters) : u \in Callers /\ prio[u] \in Nat /\ prio[w] \in Nat
      BY <2>5, Zenon DEF CondInv, CondConstants
    <3>3. ASSUME NEW u \in Range(waiters) PROVE prio[u] <= prio[w]
      <4>1. ~(prio[u] > prio[w])
        BY <2>5, <3>1, <3>2, Zenon DEF convar_compare
      <4> QED
        BY <3>2, <4>1
    <3> QED
      BY <3>2, <3>3, Zenon
  <2>7. /\ waiters' = Tail(q)
        /\ value' = [value EXCEPT ![w] = @ + 1]
        /\ at' = [at EXCEPT ![t] = label, ![w] = "down"]
    BY <1>2, <2>1, <2>4, Zenon DEF Signal
  <2>8. at[t] \in {"in", "broadcast"} /\ w # t
    BY <2>5, Zenon DEF CondInv
  <2>9. /\ at'[t] = label /\ at'[w] = "down" /\ value'[t] = value[t]
        /\ \A u \in Callers \ {t, w} : at'[u] = at[u] /\ value'[u] = value[u]
        /\ value' \in [Callers -> Nat]
        /\ at' \in [Callers -> {"out", "in", "again", "down", "asleep", "broadcast"}]
    <3>1. value \in [Callers -> Nat] /\ value[w] + 1 \in Nat
      BY <2>5, SMTT(30) DEF CondInv
    <3>2. /\ value'[t] = value[t] /\ \A u \in Callers \ {t, w} : value'[u] = value[u]
          /\ value' \in [Callers -> Nat]
      BY <2>5, <2>7, <2>8, <3>1, Zenon
    <3> QED
      BY <2>5, <2>7, <2>8, <3>2, Zenon DEF CondInv
  <2>10. Waiting' = Waiting \ {w}
    BY <2>5, <2>7, Zenon DEF Waiting
  <2>11. CondInv'
    BY <2>5, <2>7, <2>8, <2>9, Zenon DEF CondInv
  <2>12. Woken' = Woken \cup {w}
    <3>1. waiters \in Seq(Callers) /\ waiters' \in Seq(Callers)
      BY <2>5, <2>7, Zenon DEF CondInv
    <3>2. w \in Waiting /\ w \in Callers
      BY <2>5, Zenon DEF Waiting
    <3> QED
      BY <2>8, <2>9, <2>10, <3>1, <3>2, WokenIs, Zenon
  <2> QED
    BY <2>5, <2>6, <2>10, <2>11, <2>12, Zenon DEF Waiting
<1> QED
  BY <1>1, <1>2, Zenon

\* Each step keeps the invariant and is a step of the monitor, or none.
LEMMA CondStep ==
  ASSUME CondConstants, CondInv, [CondNext]_cond
  PROVE  CondInv' /\ [Users!Next]_Users!vars
<1>0. /\ \A t \in Callers : Users!Enter(t) <=>
           /\ holder = NoThread /\ t \notin Waiting
           /\ holder' = t /\ Woken' = Woken \ {t} /\ Waiting' = Waiting
      /\ \A t \in Callers : Users!Leave(t) <=>
           /\ holder = t /\ holder' = NoThread /\ Waiting' = Waiting /\ Woken' = Woken
      /\ \A t \in Callers : Users!Wait(t) <=>
           /\ holder = t /\ holder' = NoThread /\ Waiting' = Waiting \cup {t} /\ Woken' = Woken
      /\ \A t \in Callers : Users!Signal(t) <=>
           /\ holder = t
           /\ \E w \in Waiting : /\ \A u \in Waiting : prio[u] <= prio[w]
                                 /\ Waiting' = Waiting \ {w} /\ Woken' = Woken \cup {w}
           /\ holder' = holder
      /\ UNCHANGED <<holder, Waiting, Woken>> => UNCHANGED Users!vars
  BY Zenon DEF Users!Enter, Users!Leave, Users!Wait, Users!Signal, Users!vars, Woken, Waiting
<1>1. CASE UNCHANGED cond
  BY <1>0, <1>1, WokenIs, Zenon DEF cond, CondInv
<1>2. ASSUME NEW t \in Callers, lock_acquire(t)
      PROVE  CondInv' /\ Users!Enter(t)
  <2>1. /\ at[t] \in {"out", "again"} /\ holder = NoThread /\ holder' = t
        /\ waiters' = waiters /\ value' = value
        /\ at'[t] = "in" /\ \A u \in Callers \ {t} : at'[u] = at[u]
        /\ at' \in [Callers -> {"out", "in", "again", "down", "asleep", "broadcast"}]
    BY <1>2, Zenon DEF lock_acquire, Reached, Goto, CondInv
  <2>2. CondInv'
    BY <2>1, Zenon DEF CondInv, CondConstants
  <2>3. t \notin Waiting
    BY <2>1, Zenon DEF CondInv, Waiting
  <2>4. Woken' = Woken \ {t}
    BY <2>1, WokenIs, Zenon
  <2>5. Waiting' = Waiting
    BY <2>1, WokenIs, Zenon
  <2> QED
    BY <1>0, <2>1, <2>2, <2>3, <2>4, <2>5, Zenon
<1>3. ASSUME NEW t \in Callers, lock_release(t)
      PROVE  CondInv' /\ Users!Leave(t)
  <2>1. /\ at[t] = "in" /\ holder' = NoThread
        /\ waiters' = waiters /\ value' = value
        /\ at'[t] = "out" /\ \A u \in Callers \ {t} : at'[u] = at[u]
        /\ at' \in [Callers -> {"out", "in", "again", "down", "asleep", "broadcast"}]
    BY <1>3, Zenon DEF lock_release, Reached, Goto, CondInv
  <2>2. holder = t
    BY <2>1, Zenon DEF CondInv
  <2>3. CondInv'
    BY <2>1, <2>2, Zenon DEF CondInv, CondConstants
  <2>4. Woken' = Woken
    BY <2>1, WokenIs, Zenon
  <2>5. Waiting' = Waiting
    BY <2>1, WokenIs, Zenon
  <2> QED
    BY <1>0, <2>1, <2>2, <2>3, <2>4, <2>5, Zenon
<1>4. ASSUME NEW t \in Callers, cond_wait(t)
      PROVE  CondInv' /\ Users!Wait(t)
  <2>1. /\ at[t] = "in" /\ holder' = NoThread
        /\ waiters' = Append(waiters, t)
        /\ value'[t] = 0 /\ \A u \in Callers \ {t} : value'[u] = value[u]
        /\ value' \in [Callers -> Nat]
        /\ at'[t] = "down" /\ \A u \in Callers \ {t} : at'[u] = at[u]
        /\ at' \in [Callers -> {"out", "in", "again", "down", "asleep", "broadcast"}]
    BY <1>4, Zenon DEF cond_wait, Reached, Goto, CondInv
  <2>2. holder = t /\ t \notin Range(waiters)
    BY <2>1, Zenon DEF CondInv
  <2>3. /\ waiters' \in Seq(Callers) /\ IsInjective(waiters')
        /\ Range(waiters') = Range(waiters) \cup {t}
    BY <2>1, <2>2, AppendContent DEF CondInv
  <2>4. CondInv'
    BY <2>1, <2>2, <2>3, Zenon DEF CondInv, CondConstants
  <2>5. Waiting' = Waiting \cup {t}
    BY <2>3, WokenIs, Zenon
  <2>6. Woken' = Woken
    BY <2>1, <2>5, WokenIs, Zenon
  <2> QED
    BY <1>0, <2>1, <2>2, <2>4, <2>5, <2>6, Zenon
<1>5. ASSUME NEW t \in Callers, sema_down(t)
      PROVE  CondInv' /\ UNCHANGED Users!vars
  <2>1. /\ at[t] = "down" /\ holder' = holder /\ waiters' = waiters
        /\ at'[t] \in {"asleep", "again"} /\ \A u \in Callers \ {t} : at'[u] = at[u]
        /\ value[t] = 0 => at'[t] = "asleep" /\ value' = value
        /\ \A u \in Callers \ {t} : value'[u] = value[u]
        /\ value' \in [Callers -> Nat]
        /\ at' \in [Callers -> {"out", "in", "again", "down", "asleep", "broadcast"}]
    BY <1>5, SMTT(30) DEF sema_down, Reached, Goto, CondInv
  <2>2. CondInv'
    BY <2>1, Zenon DEF CondInv
  <2>3. Woken' = Woken
    BY <2>1, WokenIs, Zenon
  <2>4. Waiting' = Waiting
    BY <2>1, WokenIs, Zenon
  <2> QED
    BY <1>0, <2>1, <2>2, <2>3, <2>4, Zenon
<1>6. ASSUME NEW t \in Callers, cond_signal(t) \/ cond_broadcast(t)
      PROVE  CondInv' /\ (Users!Signal(t) \/ UNCHANGED Users!vars)
  <2>1. at[t] \in {"in", "broadcast"} /\ holder = t /\ holder' = holder
    BY <1>6, Zenon DEF cond_signal, cond_broadcast, Reached, CondInv
  <2>2. CASE waiters = <<>>
    <3>1. /\ waiters' = waiters /\ value' = value
          /\ at'[t] = "in" /\ \A u \in Callers \ {t} : at'[u] = at[u]
          /\ at' \in [Callers -> {"out", "in", "again", "down", "asleep", "broadcast"}]
      BY <1>6, <2>2, Zenon DEF cond_signal, cond_broadcast, Goto, CondInv
    <3>2. CondInv'
      BY <2>1, <3>1, Zenon DEF CondInv
    <3>3. Woken' = Woken
      BY <2>1, <3>1, WokenIs, Zenon
    <3>4. Waiting' = Waiting
      BY <3>1, WokenIs, Zenon
    <3> QED
      BY <1>0, <2>1, <3>2, <3>3, <3>4, Zenon
  <2>3. CASE waiters # <<>>
    <3>1. \E label \in {"in", "broadcast"} : Signal(t, label)
      BY <1>6, <2>3, Zenon DEF cond_signal, cond_broadcast
    <3> QED
      BY <1>0, <2>1, <2>3, <3>1, SignalStep, Zenon
  <2> QED
    BY <2>2, <2>3, Zenon
<1> QED
  BY <1>1, <1>2, <1>3, <1>4, <1>5, <1>6, Zenon DEF CondNext, Users!Next

\* At first nobody has the lock or waits.
LEMMA CondStart == ASSUME CondConstants, CondInit PROVE CondInv /\ Users!Init
<1>1. Range(<<>>) = {} /\ IsInjective(<<>>) /\ <<>> \in Seq(Callers)
  BY SMTT(30) DEF Range, IsInjective
<1>2. CondInv
  BY <1>1, Zenon DEF CondInit, CondInv, CondConstants
<1>3. Users!Init
  BY <1>1, Zenon DEF CondInit, Users!Init, Range
<1> QED
  BY <1>2, <1>3, Zenon

\* cond_wait, cond_signal and cond_broadcast implement the monitor of their users.
THEOREM MonitorRefinement == ASSUME CondConstants PROVE CondSpec => IsMonitor
BY CondStart, CondStep, PTL DEF CondSpec, IsMonitor, Users!Spec
=============================================================================
