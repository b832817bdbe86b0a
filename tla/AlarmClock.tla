----------------------------- MODULE AlarmClock -----------------------------
(***************************************************************************)
(* timer_sleep and the timer interrupt of devices/timer.c.                 *)
(*                                                                         *)
(* timer_sleep reads the clock with interrupts on and goes to sleep in a   *)
(* section with interrupts off; ticks may pass in between.  The interrupt  *)
(* handler is a sequence of steps (the count of the tick, one turn of the  *)
(* loop of timer_wakeup per sleeper, thread_tick) during which nothing     *)
(* else runs.                                                              *)
(***************************************************************************)
EXTENDS Scheduler, Integers

CONSTANTS
  Durations,   \* arguments of timer_sleep
  MaxTicks     \* bound: the clock stops here

ASSUME ClockAssumption == Durations \subseteq Int /\ MaxTicks \in Nat

VARIABLES
  ticks,
  sleep_list,     \* threads linked by timer_elem
  timeChecker,    \* thread.timeChecker
  sema_p,         \* value of thread.sema_p, on which only the thread itself waits
  pc,             \* "run", "call" (timer_sleep has read the clock) or "asleep"
  start, dur,     \* local and argument of timer_sleep
  in_intr         \* the handler of the timer interrupt is running

clock == <<ticks, in_intr>>
vars  == <<cpu, priority, clock, sleep_list, timeChecker, sema_p, pc, start, dur>>

Init ==
  /\ CpuInit
  /\ ticks = 0 /\ in_intr = FALSE
  /\ sleep_list = <<>>
  /\ timeChecker = [t \in Threads |-> 0]
  /\ sema_p = [t \in Threads |-> 0]
  /\ pc = [t \in Threads |-> "run"]
  /\ start = [t \in Threads |-> 0] /\ dur = [t \in Threads |-> 0]

At(t, label) == ~in_intr /\ current = t /\ pc[t] = label

\* Slip: the idle thread halts without enabling interrupts.
IntrOn_busy == ~in_intr /\ current \in Threads /\ \A t \in Threads : ~At(t, "asleep")

\* A thread resumed inside sema_down still has interrupts off.
IntrOn == ~in_intr /\ \A t \in Threads : ~At(t, "asleep")

compare_timer(due) == {p \in Threads \X Threads : due[p[1]] < due[p[2]]}

-----------------------------------------------------------------------------
(* timer_sleep.                                                            *)

timer_sleep(t, d) ==
  /\ At(t, "run")
  /\ start' = [start EXCEPT ![t] = ticks]
  /\ dur' = [dur EXCEPT ![t] = d]
  /\ pc' = [pc EXCEPT ![t] = "call"]
  /\ UNCHANGED <<cpu, priority, clock, sleep_list, timeChecker, sema_p>>

\* Slip: the sleeper goes to the end of the list.
Sleep_push_back(t) ==
  /\ At(t, "call")
  /\ timeChecker' = [timeChecker EXCEPT ![t] = start[t] + dur[t]]
  /\ sleep_list' = Append(sleep_list, t)
  /\ sema_p' = [sema_p EXCEPT ![t] = 0]
  /\ thread_block
  /\ pc' = [pc EXCEPT ![t] = "asleep"]
  /\ UNCHANGED <<priority, clock, start, dur>>

\* The section with interrupts off, up to the thread_block in sema_down.
Sleep(t) ==
  /\ At(t, "call")
  /\ timeChecker' = [timeChecker EXCEPT ![t] = start[t] + dur[t]]
  /\ sleep_list' = list_insert_ordered(sleep_list, t, compare_timer(timeChecker'))
  /\ sema_p' = [sema_p EXCEPT ![t] = 0]
  /\ thread_block
  /\ pc' = [pc EXCEPT ![t] = "asleep"]
  /\ UNCHANGED <<priority, clock, start, dur>>

\* sema_down tests the value again, and timer_sleep returns once it is not 0.
Return(t) ==
  /\ At(t, "asleep")
  /\ IF sema_p[t] = 0
     THEN thread_block /\ UNCHANGED <<sema_p, pc>>
     ELSE /\ sema_p' = [sema_p EXCEPT ![t] = @ - 1]
          /\ pc' = [pc EXCEPT ![t] = "run"]
          /\ UNCHANGED cpu
  /\ UNCHANGED <<priority, clock, sleep_list, timeChecker, start, dur>>

-----------------------------------------------------------------------------
(* The timer interrupt.                                                    *)

timer_interrupt ==
  /\ IntrOn /\ ticks < MaxTicks
  /\ ticks' = ticks + 1
  /\ in_intr' = TRUE
  /\ UNCHANGED <<cpu, priority, sleep_list, timeChecker, sema_p, pc, start, dur>>

\* Slip: a sleeper is woken by the tick before its own.
Due_early == sleep_list # <<>> /\ ticks + 1 >= timeChecker[Head(sleep_list)]

\* Slip: > for >=.
Due_late == sleep_list # <<>> /\ ticks > timeChecker[Head(sleep_list)]

\* The test of the loop of timer_wakeup on its first sleeper.
Due == sleep_list # <<>> /\ ticks >= timeChecker[Head(sleep_list)]

\* One turn: sema_up, whose only waiter is the sleeper, and list_remove.
timer_wakeup ==
  /\ in_intr /\ Due
  /\ sema_p' = [sema_p EXCEPT ![Head(sleep_list)] = @ + 1]
  /\ thread_unblock(Head(sleep_list))
  /\ sleep_list' = Tail(sleep_list)
  /\ UNCHANGED <<priority, clock, timeChecker, pc, start, dur>>

\* The loop is over; thread_tick and the return from the interrupt.
Tick ==
  /\ in_intr /\ ~Due
  /\ thread_tick
  /\ in_intr' = FALSE
  /\ UNCHANGED <<priority, ticks, sleep_list, timeChecker, sema_p, pc, start, dur>>

IdleLoop ==
  /\ ~in_intr /\ idle
  /\ UNCHANGED <<priority, clock, sleep_list, timeChecker, sema_p, pc, start, dur>>

Next ==
  \/ \E t \in Threads : Sleep(t) \/ Return(t) \/ \E d \in Durations : timer_sleep(t, d)
  \/ timer_interrupt \/ timer_wakeup \/ Tick
  \/ IdleLoop

Spec == Init /\ [][Next]_vars
-----------------------------------------------------------------------------
(* Properties.                                                             *)

TypeOK ==
  /\ CpuTypeOK
  /\ ticks \in 0..MaxTicks /\ in_intr \in BOOLEAN
  /\ sleep_list \in Seq(Threads)
  /\ timeChecker \in [Threads -> Int]
  /\ sema_p \in [Threads -> {0, 1}]
  /\ pc \in [Threads -> {"run", "call", "asleep"}]
  /\ start \in [Threads -> Nat] /\ dur \in [Threads -> Int]

\* timer.c, timer_sleep and timer_wakeup: exactly the blocked threads are on
\* the sleep list, each once, and the list is ordered by target time, so that a
\* handler which stops at the first sleeper that is not due forgets none.
SleepersListed ==
  /\ \A t \in Threads : t \in Range(sleep_list) <=> status[t] = "blocked"
  /\ IsInjective(sleep_list)
  /\ \A i, j \in DOMAIN sleep_list :
       i < j => timeChecker[sleep_list[i]] <= timeChecker[sleep_list[j]]

\* timer.c, timer_wakeup: when the handler returns nobody whose target time has
\* come is still asleep, however long it was preempted inside timer_sleep.
NobodyOverdue ==
  [][in_intr /\ ~in_intr' =>
       \A t \in Threads : status'[t] = "blocked" => timeChecker[t] > ticks]_vars

\* timer.h, timer_sleep(ticks): the call does not return before that many ticks
\* have been counted since it read the clock.
NotEarly ==
  [][\A t \in Threads :
       pc[t] = "asleep" /\ pc'[t] = "run" => ticks >= start[t] + dur[t]]_vars

\* A sleeper is woken by the tick that it waits for: not before, and not later.
WokenOnTime == NotEarly /\ NobodyOverdue

\* A sleeper whose target the clock reaches is woken: it does not depend on
\* what the other threads do.
SleeperWakes ==
  \A t \in Threads :
    status[t] = "blocked" /\ ticks < MaxTicks /\ timeChecker[t] <= MaxTicks
      ~> status[t] # "blocked"
=============================================================================
