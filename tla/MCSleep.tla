------------------------------- MODULE MCSleep -------------------------------
(***************************************************************************)
(* The ways to sleep, for TLC: on the clock, on a condition, and in exec   *)
(* and wait.  They share no state, so a behaviour of one is explored at a  *)
(* time; the others stay in their initial states.                          *)
(***************************************************************************)
EXTENDS AlarmClock, CondVar, TLC

CONSTANTS t1, t2, t3,        \* threads that sleep on the clock
          a, b, c, d,        \* threads that wait on the condition
          main, p1, p2       \* processes that wait for each other

\* Two threads of equal priority and one above them, sleeping for a negative,
\* a zero and a positive time.
MCInitPriority == (t1 :> 1) @@ (t2 :> 1) @@ (t3 :> 2)
MCStarted == <<t3, t2>>
MCDurations == {-1, 0, 2}

\* Two pairs of equal priority.
MCPrio == (a :> 1) @@ (b :> 1) @@ (c :> 2) @@ (d :> 2)
ASSUME CondAssumption == CondConstants

VARIABLES
  part,
  place, parent, children, cp, load_status, sema_load, executable, sema_wait, arg, ret, code

\* Two user processes, loads that fail and memory that runs out.
Procs == {main, p1, p2}
Life == INSTANCE Process WITH
  pc <- place, Statuses <- {0}, MaxChildren <- 2, LoadFails <- TRUE, MemoryFails <- TRUE

life == <<place, parent, children, cp, load_status, sema_load, executable, sema_wait,
          arg, ret, code>>

SleepInit ==
  part \in {"clock", "condition", "process"} /\ Init /\ CondInit /\ Life!Init

Clock(A) == part = "clock" /\ A /\ UNCHANGED <<part, cond, life>>
Condition(A) == part = "condition" /\ A /\ UNCHANGED <<part, vars, life>>
Processes(A) ==
  part = "process" /\ A /\ UNCHANGED <<part, vars, holder, waiters, value, at>>

SleepNext == Clock(Next) \/ Condition(CondNext) \/ Processes(Life!Next)

\* On the clock: the handler runs to its end, a thread that was resumed with
\* interrupts off executes, and the interrupt controller keeps a timer
\* interrupt that arrives while interrupts are off.
\* On the condition: a thread that can run does.  Nothing is assumed about who
\* gets the lock, nor that whoever has it gives it up.
\* In exec and wait: a process that can run inside the kernel goes on, as user
\* processes all have the default priority (ReadyEventuallyRuns of Synch).  What
\* user code does, and whether it ends, is not assumed.
SleepSpec ==
  /\ SleepInit /\ [][SleepNext]_<<part, vars, cond, life>>
  /\ SF_vars(Clock(timer_interrupt))
  /\ WF_vars(Clock(timer_wakeup \/ Tick))
  /\ WF_vars(Clock(\E t \in Threads : Return(t)))
  /\ WF_vars(Clock(IdleLoop))
  /\ \A t \in Callers :
       /\ WF_cond(Condition(sema_down(t)))
       /\ WF_cond(Condition(lock_acquire(t)))
  /\ \A p \in Procs : WF_Life!vars(Processes(Life!Step(p)))

(* Every sleep ends: on the clock once it reaches the target, on the       *)
(* condition once the thread is signalled and the others leave the lock    *)
(* alone; see AlarmClock and CondVar.                                      *)
SleepersReturn == SleeperWakes /\ SignalledReturns

\* exec and wait return unless the child could not be loaded; see Process.
ProcessesReturnIfLoaded == Life!CallsCompleteIfLoaded
=============================================================================
