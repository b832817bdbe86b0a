----------------------------- MODULE Scheduler -----------------------------
(***************************************************************************)
(* The run queue and the context switch of threads/thread.c, as operators  *)
(* on the state of the CPU.  Every one of them runs with interrupts off,   *)
(* so a module that models code calling them uses them inside an action.   *)
(***************************************************************************)
EXTENDS Naturals, Sequences, FiniteSets, KList

CONSTANTS
  Threads,        \* kernel threads other than the idle thread
  initial_thread, \* the thread that boots
  Idle,           \* idle_thread
  InitPriority,   \* PRIORITY argument of thread_create, per thread
  Started,        \* the run queue when the modelled behaviour starts
  TIME_SLICE

ASSUME ThreadsAssumption ==
  /\ initial_thread \in Threads /\ Idle \notin Threads
  /\ Started \in Seq(Threads \ {initial_thread}) /\ IsInjective(Started)
ASSUME FiniteAssumption == IsFiniteSet(Threads)
ASSUME PriorityAssumption == InitPriority \in [Threads -> Nat]
ASSUME TimeSliceAssumption == TIME_SLICE \in Nat \ {0}

VARIABLES
  current,      \* the running thread
  status,       \* thread.status of all but the idle thread
  ready_list,
  thread_ticks,
  priority      \* thread.priority

cpu == <<current, status, ready_list, thread_ticks>>

\* comparePriority on the elem member, under the priorities pr.
comparePriority(pr) == {p \in Threads \X Threads : pr[p[1]] > pr[p[2]]}

CpuInit ==
  /\ current = initial_thread
  /\ status = [t \in Threads |-> IF t = initial_thread THEN "running"
                                 ELSE IF t \in Range(Started) THEN "ready" ELSE "unborn"]
  /\ ready_list = Started
  /\ thread_ticks = 0
  /\ priority = InitPriority

CpuTypeOK ==
  /\ current \in Threads \cup {Idle}
  /\ status \in [Threads -> {"unborn", "ready", "running", "blocked"}]
  /\ ready_list \in Seq(Threads)
  /\ thread_ticks \in 0..(TIME_SLICE - 1)
  /\ priority \in [Threads -> Nat]

\* Slip: a comparison with >= puts a thread in front of its equals.
insert_in_front(list, t, pr) ==
  list_insert_ordered(list, t, {p \in Threads \X Threads : pr[p[1]] >= pr[p[2]]})

insert_by_priority(list, t, pr) ==
  list_insert_ordered(list, t, comparePriority(pr))

next_thread_to_run(ready) == IF ready = <<>> THEN Idle ELSE Head(ready)

\* schedule and thread_schedule_tail: the running thread has been given its
\* new status in st, and its place in ready if it stays ready.
schedule(ready, st) ==
  LET next == next_thread_to_run(ready)
  IN  /\ current' = next
      /\ ready_list' = IF ready = <<>> THEN ready ELSE Tail(ready)
      /\ status' = IF next = Idle THEN st ELSE [st EXCEPT ![next] = "running"]
      /\ thread_ticks' = 0

thread_block == schedule(ready_list, [status EXCEPT ![current] = "blocked"])

thread_unblock(t) ==
  /\ ready_list' = insert_by_priority(ready_list, t, priority)
  /\ status' = [status EXCEPT ![t] = "ready"]
  /\ UNCHANGED <<current, thread_ticks>>

thread_yield(pr) ==
  IF current = Idle
  THEN schedule(ready_list, status)
  ELSE schedule(insert_by_priority(ready_list, current, pr),
                [status EXCEPT ![current] = "ready"])

\* Slip: the slice is tested before the tick is counted.
thread_tick_late ==
  IF thread_ticks >= TIME_SLICE
  THEN thread_yield(priority)
  ELSE thread_ticks' = thread_ticks + 1 /\ UNCHANGED <<current, status, ready_list>>

\* thread_tick, and the yield at the end of intr_handler if it asked for one.
thread_tick ==
  IF thread_ticks + 1 >= TIME_SLICE
  THEN thread_yield(priority)
  ELSE thread_ticks' = thread_ticks + 1 /\ UNCHANGED <<current, status, ready_list>>

\* One turn of the loop of the idle thread, after an interrupt ended its hlt.
\* With nothing ready the idle thread is chosen again.
idle ==
  /\ current = Idle
  /\ ready_list # <<>> \/ thread_ticks # 0
  /\ schedule(ready_list, status)

-----------------------------------------------------------------------------
\* thread.h: "only a thread in the ready state is on the run queue", and it is
\* there once; the running thread is the current one and is on no queue.
RunQueueOK ==
  /\ \A t \in Threads :
       /\ status[t] = "ready" <=> t \in Range(ready_list)
       /\ status[t] = "running" <=> current = t
  /\ IsInjective(ready_list)
=============================================================================
