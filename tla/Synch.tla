------------------------------- MODULE Synch -------------------------------
(***************************************************************************)
(* The scheduler of threads/thread.c with the semaphores, locks and        *)
(* priority donation of threads/synch.c, on one CPU.                       *)
(*                                                                         *)
(* One thread runs; a stretch of code that runs with interrupts off is one *)
(* action.  lock_acquire and lock_release run with interrupts ON, so each  *)
(* of their statements that touches shared state is an action of its own   *)
(* and the timer may preempt between any two of them.                      *)
(*                                                                         *)
(* The code that calls the primitives is arbitrary: at pc "run" a thread   *)
(* may call any operation whose precondition it satisfies.                 *)
(***************************************************************************)
EXTENDS Scheduler

CONSTANTS
  Locks,          \* each lock is named like its semaphore
  tid_lock,       \* the lock of allocate_tid, used nowhere else
  Events,         \* semaphores that are not part of a lock, initially 0
  Uses,           \* the locks and semaphores that the code of each thread uses
  NULL,
  NameWord,       \* bytes 12..15 of thread.name, per thread, as an int
  NewPriorities,  \* arguments of thread_set_priority
  MaxValue        \* bound: ups of an event semaphore stop at this value

Crashes == {"assert", "null holder", "donor_elem linked twice"}

ASSUME LockAssumption == tid_lock \in Locks /\ Locks \cap Events = {}
ASSUME UsesAssumption == Uses \in [Threads -> SUBSET ((Locks \ {tid_lock}) \cup Events)]
ASSUME NullAssumption == NULL \notin Threads \cup Locks \cup Events \cup Crashes
ASSUME DataAssumption ==
  NameWord \in [Threads -> Nat] /\ NewPriorities \subseteq Nat /\ MaxValue \in Nat

Semas == Locks \cup Events

VARIABLES
  original_priority,  \* thread.original_priority
  donor,              \* thread.donor, the list of threads linked by donor_elem
  try_lock,           \* thread.try_lock
  value, waiters,     \* struct semaphore
  holder,             \* lock.holder
  pc, arg,            \* where each thread is, and the object it operates on
  creating,           \* the thread that a thread_create in progress is making
  don,                \* locals of priority_donation
  held,               \* locks a thread's code holds: acquired, not yet released
  crash               \* NULL, or why the kernel stopped

sema  == <<value, waiters>>
prio  == <<priority, original_priority, donor, try_lock, don>>
call  == <<creating, held>>
vars  == <<cpu, sema, prio, holder, pc, arg, call, crash>>

\* cur and curr_lock of priority_donation, before it reads the holder.
Donation(cur, lock) == [cur |-> cur, lock |-> lock, holder |-> NULL, val |-> 0]

Init ==
  /\ CpuInit
  /\ original_priority = InitPriority
  /\ donor = [t \in Threads |-> <<>>]
  /\ try_lock = [t \in Threads |-> NULL]
  /\ value = [s \in Semas |-> IF s \in Locks THEN 1 ELSE 0]
  /\ waiters = [s \in Semas |-> <<>>]
  /\ holder = [l \in Locks |-> NULL]
  /\ pc = [t \in Threads |-> "run"]
  /\ arg = [t \in Threads |-> NULL]
  /\ creating = [t \in Threads |-> NULL]
  /\ don = [t \in Threads |-> Donation(NULL, NULL)]
  /\ held = [t \in Threads |-> {}]
  /\ crash = NULL

-----------------------------------------------------------------------------
(* Control of the running thread.                                          *)

At(t, label) == crash = NULL /\ current = t /\ pc[t] = label

\* t runs code of its own, outside every primitive.
Free(t) == At(t, "run") /\ creating[t] = NULL

Goto(t, label, x) ==
  /\ pc' = [pc EXCEPT ![t] = label]
  /\ arg' = [arg EXCEPT ![t] = x]

\* A thread resumed inside sema_down still has interrupts off.
IntrOn == crash = NULL /\ \A t \in Threads : ~At(t, "retest")

-----------------------------------------------------------------------------
(* Semaphores.                                                             *)

\* One test of the loop of sema_down, and the decrement once it ends.
DownOrBlock(t, s) ==
  \/ /\ value[s] = 0
     /\ waiters' = [waiters EXCEPT ![s] = insert_by_priority(@, t, priority)]
     /\ thread_block
     /\ Goto(t, "retest", s)
     /\ UNCHANGED value
  \/ /\ value[s] > 0
     /\ value' = [value EXCEPT ![s] = @ - 1]
     /\ IF s \in Locks THEN Goto(t, "acquired", s) ELSE Goto(t, "run", NULL)
     /\ UNCHANGED <<waiters, cpu>>

sema_down(t, s) ==
  /\ Free(t)
  /\ DownOrBlock(t, s)
  /\ UNCHANGED <<prio, holder, call, crash>>

\* Slip: an if for the while, so that a thread that has been woken takes a unit
\* which another thread may have taken.
Retest_if(t) ==
  /\ At(t, "retest")
  /\ value' = [value EXCEPT ![arg[t]] = IF @ = 0 THEN 0 ELSE @ - 1]
  /\ IF arg[t] \in Locks THEN Goto(t, "acquired", arg[t]) ELSE Goto(t, "run", NULL)
  /\ UNCHANGED <<waiters, cpu, prio, holder, call, crash>>

\* The loop is entered again after thread_block returns.
Retest(t) ==
  /\ At(t, "retest")
  /\ DownOrBlock(t, arg[t])
  /\ UNCHANGED <<prio, holder, call, crash>>

\* A failing try changes nothing.
sema_try_down(t, s) ==
  /\ Free(t) /\ value[s] > 0
  /\ value' = [value EXCEPT ![s] = @ - 1]
  /\ UNCHANGED <<cpu, waiters, prio, holder, pc, arg, call, crash>>

\* Slip: no list_sort, so that the order is that of the priorities at the time
\* of the insertions.
Up_unsorted(s) ==
  /\ IF waiters[s] = <<>>
     THEN UNCHANGED <<waiters, cpu>>
     ELSE waiters' = [waiters EXCEPT ![s] = Tail(@)] /\ thread_unblock(Head(waiters[s]))
  /\ value' = [value EXCEPT ![s] = @ + 1]

\* Slip: list_front for list_pop_front.
Up_front(s) ==
  /\ IF waiters[s] = <<>>
     THEN UNCHANGED <<waiters, cpu>>
     ELSE waiters' = waiters /\ thread_unblock(Head(waiters[s]))
  /\ value' = [value EXCEPT ![s] = @ + 1]

\* Slip: a waiter is woken only when the value leaves 0.
Up_from_zero(s) ==
  LET sorted == list_sort(waiters[s], comparePriority(priority))
  IN  /\ IF waiters[s] = <<>> \/ value[s] > 0
         THEN UNCHANGED <<waiters, cpu>>
         ELSE /\ waiters' = [waiters EXCEPT ![s] = Tail(sorted)]
              /\ thread_unblock(Head(sorted))
      /\ value' = [value EXCEPT ![s] = @ + 1]

\* sema_up up to intr_set_level: the waiters are sorted by the priorities
\* of now and the first one is made ready; it must test the value again.
Up(s) ==
  LET sorted == list_sort(waiters[s], comparePriority(priority))
  IN  /\ IF waiters[s] = <<>>
         THEN UNCHANGED <<waiters, cpu>>
         ELSE /\ waiters' = [waiters EXCEPT ![s] = Tail(sorted)]
              /\ thread_unblock(Head(sorted))
      /\ value' = [value EXCEPT ![s] = @ + 1]

sema_up(t, s) ==
  /\ Free(t) /\ value[s] < MaxValue
  /\ Up(s)
  /\ Goto(t, "check", NULL)
  /\ UNCHANGED <<prio, holder, call, crash>>

\* check_priority at the end of sema_up runs with interrupts on.  It first
\* reads the head of the run queue,
check_priority(t) ==
  /\ At(t, "check")
  /\ Goto(t, "compare", IF ready_list = <<>> THEN NULL ELSE Head(ready_list))
  /\ UNCHANGED <<cpu, sema, prio, holder, call, crash>>

\* then tests whether the queue is empty and compares the priorities.  If the
\* queue was empty at the first read and is not now, other_thread is not a
\* thread and its priority is whatever lies there.
ComparePriority(t) ==
  /\ At(t, "compare")
  /\ \E below \in BOOLEAN :
       /\ arg[t] # NULL => below = (priority[t] < priority[arg[t]])
       /\ IF ready_list # <<>> /\ below THEN Goto(t, "yield", NULL)
                                        ELSE Goto(t, "run", NULL)
  /\ UNCHANGED <<cpu, sema, prio, holder, call, crash>>

\* The thread_yield of check_priority and of thread_create.
Yield(t) ==
  /\ At(t, "yield")
  /\ thread_yield(priority)
  /\ Goto(t, "run", NULL)
  /\ UNCHANGED <<sema, prio, holder, call, crash>>

\* A device's interrupt handler ups an event: it skips check_priority.
DeviceInterrupt(s) ==
  /\ IntrOn /\ value[s] < MaxValue
  /\ Up(s)
  /\ UNCHANGED <<prio, holder, pc, arg, call, crash>>
-----------------------------------------------------------------------------
(* lock_acquire.                                                           *)

\* ASSERT (!lock_held_by_current_thread (lock)), then the test of the holder.
AcquireTest(t, l) ==
  IF holder[l] = t
  THEN crash' = "assert" /\ UNCHANGED <<pc, arg>>
  ELSE Goto(t, IF holder[l] = NULL THEN "down" ELSE "try", l) /\ UNCHANGED crash

lock_acquire(t, l) ==
  /\ Free(t) /\ l \notin held[t]
  /\ AcquireTest(t, l)
  /\ UNCHANGED <<cpu, sema, prio, holder, call>>

\* cur->try_lock = lock, and the locals with which priority_donation starts.
SetTryLock(t) ==
  /\ At(t, "try")
  /\ try_lock' = [try_lock EXCEPT ![t] = arg[t]]
  /\ don' = [don EXCEPT ![t] = Donation(t, arg[t])]
  /\ Goto(t, "donate", arg[t])
  /\ UNCHANGED <<cpu, sema, priority, original_priority, donor, holder, call, crash>>

\* The tests of the loop of priority_donation: the holder and both priorities
\* are read; the loop ends without a holder or without a lower priority.
priority_donation(t) ==
  /\ At(t, "donate")
  /\ LET d == don[t]
         h == IF d.lock = NULL THEN NULL ELSE holder[d.lock]
     IN  IF h # NULL /\ priority[h] < priority[d.cur]
         THEN /\ don' = [don EXCEPT ![t].holder = h, ![t].val = priority[d.cur]]
              /\ Goto(t, "raise", arg[t])
         ELSE /\ don' = [don EXCEPT ![t] = Donation(NULL, NULL)]
              /\ Goto(t, "enlist", arg[t])
  /\ UNCHANGED <<cpu, sema, priority, original_priority, donor, try_lock,
                 holder, call, crash>>

\* curr_lock->holder->priority = cur->priority, with the values just read.
\* The queue that the holder is in is left as it is.
RaiseHolder(t) ==
  /\ At(t, "raise")
  /\ priority' = [priority EXCEPT ![don[t].holder] = don[t].val]
  /\ Goto(t, "follow", arg[t])
  /\ UNCHANGED <<cpu, sema, original_priority, donor, try_lock, don, holder, call, crash>>

\* cur = curr_lock->holder: after the store the build may read the holder
\* again or reuse the one it has.
FollowChain(t) ==
  /\ At(t, "follow")
  /\ \E h \in {don[t].holder, holder[don[t].lock]} :
       IF h = NULL
       THEN crash' = "null holder" /\ UNCHANGED <<pc, arg, don>>
       ELSE /\ don' = [don EXCEPT ![t] = Donation(h, try_lock[h])]
            /\ Goto(t, "donate", arg[t])
            /\ UNCHANGED crash
  /\ UNCHANGED <<cpu, sema, priority, original_priority, donor, try_lock, holder, call>>

\* comparePriority on donor_elem: its list_entry names elem, which lies 8 bytes
\* further on, so the words compared lie 8 bytes before priority, in name.
donor_order == comparePriority(NameWord)

\* t is still linked by its donor_elem.
Linked(t) == \E u \in Threads : t \in Range(donor[u])

\* list_insert_ordered (&lock->holder->donor, ...): the holder is read again.
\* Without a holder this is a page fault in the kernel; linking a donor_elem
\* that is still in a list leaves no well-formed list behind.
EnlistDonor(t) ==
  /\ At(t, "enlist")
  /\ LET h == holder[arg[t]]
     IN  IF h # NULL /\ ~Linked(t)
         THEN /\ donor' = [donor EXCEPT ![h] = list_insert_ordered(@, t, donor_order)]
              /\ Goto(t, "down", arg[t])
              /\ UNCHANGED crash
         ELSE /\ crash' = IF h = NULL THEN "null holder" ELSE "donor_elem linked twice"
              /\ UNCHANGED <<donor, pc, arg>>
  /\ UNCHANGED <<cpu, sema, priority, original_priority, try_lock, don, holder, call>>

LockDown(t) ==
  /\ At(t, "down")
  /\ DownOrBlock(t, arg[t])
  /\ UNCHANGED <<prio, holder, call, crash>>

\* The two assignments after sema_down.
Acquired(t) ==
  /\ At(t, "acquired")
  /\ try_lock' = [try_lock EXCEPT ![t] = NULL]
  /\ holder' = [holder EXCEPT ![arg[t]] = t]
  /\ held' = [held EXCEPT ![t] = @ \cup {arg[t]}]
  /\ Goto(t, "run", NULL)
  /\ UNCHANGED <<cpu, sema, priority, original_priority, donor, don, creating, crash>>

\* Slip: the result of sema_try_down is not tested.
lock_try_acquire_untested(t, l) ==
  /\ Free(t) /\ l \notin held[t]
  /\ holder[l] # t
  /\ value' = [value EXCEPT ![l] = 0]
  /\ Goto(t, "tried", l)
  /\ UNCHANGED <<cpu, waiters, prio, holder, call, crash>>

\* ASSERT, then sema_try_down.  A failing try changes nothing.
lock_try_acquire(t, l) ==
  /\ Free(t) /\ l \notin held[t]
  /\ IF holder[l] = t
     THEN crash' = "assert" /\ UNCHANGED <<value, pc, arg>>
     ELSE /\ value[l] > 0
          /\ value' = [value EXCEPT ![l] = @ - 1]
          /\ Goto(t, "tried", l)
          /\ UNCHANGED crash
  /\ UNCHANGED <<cpu, waiters, prio, holder, call>>

\* The assignment after a successful try.
TryAcquired(t) ==
  /\ At(t, "tried")
  /\ holder' = [holder EXCEPT ![arg[t]] = t]
  /\ held' = [held EXCEPT ![t] = @ \cup {arg[t]}]
  /\ Goto(t, "run", NULL)
  /\ UNCHANGED <<cpu, sema, prio, creating, crash>>
-----------------------------------------------------------------------------
(* lock_release.                                                           *)

\* ASSERT (lock_held_by_current_thread (lock)), then donation_back: every
\* donor that waits for this lock is unlinked.
ReleaseBody(t, l) ==
  /\ IF holder[l] # t
     THEN crash' = "assert" /\ UNCHANGED <<pc, arg, donor, held>>
     ELSE /\ donor' = [donor EXCEPT ![t] = RemoveExcept(@, {u \in Threads : try_lock[u] # l})]
          /\ held' = [held EXCEPT ![t] = @ \ {l}]
          /\ Goto(t, "recheck", l)
          /\ UNCHANGED crash
  /\ UNCHANGED <<cpu, sema, priority, original_priority, try_lock, don, holder, creating>>

lock_release(t, l) ==
  /\ Free(t) /\ l \in held[t]
  /\ ReleaseBody(t, l)

priority_recheck(t) ==
  /\ At(t, "recheck")
  /\ priority' = [priority EXCEPT ![t] =
        IF donor[t] # <<>> THEN priority[Head(donor[t])] ELSE original_priority[t]]
  /\ Goto(t, "unhold", arg[t])
  /\ UNCHANGED <<cpu, sema, original_priority, donor, try_lock, don, holder, call, crash>>

\* Slip: lock->holder = NULL is missing.
ClearHolder_missing(t) ==
  /\ At(t, "unhold")
  /\ Goto(t, "up", arg[t])
  /\ UNCHANGED <<cpu, sema, prio, holder, call, crash>>

ClearHolder(t) ==
  /\ At(t, "unhold")
  /\ holder' = [holder EXCEPT ![arg[t]] = NULL]
  /\ Goto(t, "up", arg[t])
  /\ UNCHANGED <<cpu, sema, prio, call, crash>>

LockUp(t) ==
  /\ At(t, "up")
  /\ Up(arg[t])
  /\ Goto(t, "check", NULL)
  /\ UNCHANGED <<prio, holder, call, crash>>
-----------------------------------------------------------------------------
(* The rest of thread.c.                                                   *)

\* The last donor in the list counts, if it is higher.
thread_get_priority(t) ==
  LET last == donor[t][Len(donor[t])]
  IN  IF donor[t] # <<>> /\ priority[last] > priority[t]
      THEN priority[last] ELSE priority[t]

\* thread_create: init_thread, then allocate_tid takes tid_lock,
thread_create(t, u) ==
  /\ Free(t)
  /\ status[u] = "unborn" /\ \A v \in Threads : creating[v] # u
  /\ creating' = [creating EXCEPT ![t] = u]
  /\ AcquireTest(t, tid_lock)
  /\ UNCHANGED <<cpu, sema, prio, holder, held>>

\* gives it back,
allocate_tid(t) ==
  /\ At(t, "run") /\ creating[t] # NULL /\ tid_lock \in held[t]
  /\ ReleaseBody(t, tid_lock)

\* and the new thread goes to the run queue.
CreateUnblock(t) ==
  /\ At(t, "run") /\ creating[t] # NULL /\ tid_lock \notin held[t]
  /\ thread_unblock(creating[t])
  /\ creating' = [creating EXCEPT ![t] = NULL]
  /\ Goto(t, "created", creating[t])
  /\ UNCHANGED <<sema, prio, holder, held, crash>>

\* if (priority >= thread_get_priority ()) thread_yield ();
CreateCompare(t) ==
  /\ At(t, "created")
  /\ Goto(t, IF InitPriority[arg[t]] >= thread_get_priority(t) THEN "yield" ELSE "run", NULL)
  /\ UNCHANGED <<cpu, sema, prio, holder, call, crash>>

\* process_exit ends in a thread_block that nothing undoes, so the rest of
\* thread_exit is not reached.  Code that exits has released its locks.
thread_exit(t) ==
  /\ Free(t) /\ held[t] = {}
  /\ thread_block
  /\ Goto(t, "exited", NULL)
  /\ UNCHANGED <<sema, prio, holder, call, crash>>

\* The whole call, its check_priority included, runs with interrupts off.
thread_set_priority(t, p) ==
  /\ Free(t)
  /\ priority' = [priority EXCEPT ![t] = p]
  /\ original_priority' = [original_priority EXCEPT ![t] = p]
  /\ IF ready_list # <<>> /\ p < priority[Head(ready_list)]
     THEN thread_yield(priority')
     ELSE UNCHANGED cpu
  /\ UNCHANGED <<sema, donor, try_lock, don, holder, pc, arg, call, crash>>

TimerInterrupt ==
  /\ IntrOn
  /\ thread_tick
  /\ UNCHANGED <<sema, prio, holder, pc, arg, call, crash>>

IdleLoop ==
  /\ crash = NULL /\ idle
  /\ UNCHANGED <<sema, prio, holder, pc, arg, call, crash>>

\* Steps of a primitive that has been called, up to its return.
Primitive(t) ==
  \/ Retest(t) \/ check_priority(t) \/ ComparePriority(t) \/ Yield(t)
  \/ SetTryLock(t) \/ priority_donation(t) \/ RaiseHolder(t) \/ FollowChain(t)
  \/ EnlistDonor(t) \/ LockDown(t) \/ Acquired(t) \/ TryAcquired(t)
  \/ priority_recheck(t) \/ ClearHolder(t) \/ LockUp(t)
  \/ allocate_tid(t) \/ CreateUnblock(t) \/ CreateCompare(t)

\* Calls that the code of a thread may make.
Call(t) ==
  \/ \E s \in Events \cap Uses[t] : sema_down(t, s) \/ sema_try_down(t, s) \/ sema_up(t, s)
  \/ \E l \in Locks \cap Uses[t] :
       lock_acquire(t, l) \/ lock_try_acquire(t, l) \/ lock_release(t, l)
  \/ \E u \in Threads : thread_create(t, u)
  \/ \E p \in NewPriorities : thread_set_priority(t, p)
  \/ thread_exit(t)

Next ==
  \/ \E t \in Threads : Primitive(t) \/ Call(t)
  \/ \E s \in Events : DeviceInterrupt(s)
  \/ TimerInterrupt
  \/ IdleLoop

Spec == Init /\ [][Next]_vars

\* The interrupt controller keeps a timer interrupt that arrives while
\* interrupts are off, so a timer interrupt is taken if interrupts are on again
\* and again.  The code that runs with interrupts off after a wakeup, and that
\* of the idle thread, executes.
FairSpec ==
  /\ Spec
  /\ SF_vars(TimerInterrupt)
  /\ WF_vars(\E t \in Threads : Retest(t))
  /\ WF_vars(IdleLoop)
-----------------------------------------------------------------------------
(* Properties.                                                             *)

Labels == {"run", "retest", "check", "compare", "yield", "try", "donate",
           "raise", "follow", "enlist", "down", "acquired", "tried", "recheck",
           "unhold", "up", "created", "exited"}

\* Labels inside lock_acquire, lock_try_acquire and lock_release.
Acquiring == {"try", "donate", "raise", "follow", "enlist", "down"}
Owning == {"acquired", "tried", "recheck", "unhold", "up"}

\* The types of what locks and semaphores consist of, and of the argument of a
\* thread inside one of their functions.
LockTypeOK ==
  /\ pc \in [Threads -> Labels]
  /\ DOMAIN arg = Threads /\ arg = [t \in DOMAIN arg |-> arg[t]]
  /\ creating \in [Threads -> Threads \cup {NULL}]
  /\ held \in [Threads -> SUBSET Locks]
  /\ value \in [Semas -> Nat]
  /\ holder \in [Locks -> Threads \cup {NULL}]
  /\ \A t \in Threads : pc[t] \in Acquiring \cup Owning => arg[t] \in Locks
  /\ \A t \in Threads : pc[t] = "retest" => arg[t] \in Semas

TypeOK ==
  /\ CpuTypeOK
  /\ original_priority \in [Threads -> Nat]
  /\ donor \in [Threads -> Seq(Threads)]
  /\ try_lock \in [Threads -> Locks \cup {NULL}]
  /\ value \in [Semas -> Nat]
  /\ waiters \in [Semas -> Seq(Threads)]
  /\ holder \in [Locks -> Threads \cup {NULL}]
  /\ pc \in [Threads -> Labels]
  /\ arg \in [Threads -> Semas \cup Threads \cup {NULL}]
  /\ creating \in [Threads -> Threads \cup {NULL}]
  /\ don \in [Threads -> [cur : Threads \cup {NULL}, lock : Locks \cup {NULL},
                          holder : Threads \cup {NULL}, val : Nat]]
  /\ held \in [Threads -> SUBSET Locks]
  /\ crash \in Crashes \cup {NULL}

\* synch.c, lock_init: "A lock can be held by at most a single thread at any
\* given time", whatever the preemptions inside lock_acquire and lock_release
\* and however lock_try_acquire barges in between.
MutualExclusion ==
  \A t, u \in Threads : t # u => held[t] \cap held[u] = {}

\* The ASSERTs of lock_acquire, lock_try_acquire and lock_release on
\* lock_held_by_current_thread never fail in code that acquires a lock it does
\* not hold and releases one it holds: lock.holder, written outside every
\* critical section, never misleads the thread that reads it.
HolderAssertsHold == crash # "assert"

\* thread.h, on elem: "only a thread in the ready state is on the run queue,
\* whereas only a thread in the blocked state is on a semaphore wait list",
\* and it is on one such list, once: list surgery through elem never breaks a
\* list.
ElemOnOneList ==
  /\ RunQueueOK
  /\ \A t \in Threads, s \in Semas :
       t \in Range(waiters[s]) <=> status[t] = "blocked" /\ pc[t] = "retest" /\ arg[t] = s
  /\ \A s \in Semas : IsInjective(waiters[s])

\* Threads that sema_up has woken and that have not yet tested the value again.
Woken(s) == {t \in Threads : pc[t] = "retest" /\ arg[t] = s /\ status[t] # "blocked"}

\* No lost wakeup: while threads wait for a semaphore, each unit of its value
\* is matched by a thread on its way to take it, although a third thread may
\* take the unit first and the woken thread then waits again.
NoLostWakeup ==
  \A s \in Semas : waiters[s] # <<>> => value[s] <= Cardinality(Woken(s))

\* sema_up wakes a waiter of the highest priority of now, although donations
\* have changed the priorities since the waiters were queued.
WakesHighest ==
  [][\A s \in Semas : \A t \in Range(waiters[s]) :
       (t \notin Range(waiters'[s])) =>
          \A u \in Range(waiters[s]) : priority[u] <= priority[t]]_vars

\* The thread whose code holds l.
owner == [l \in Locks |-> IF \E t \in Threads : l \in held[t]
                          THEN CHOOSE t \in Threads : l \in held[t] ELSE NULL]

Abstract == INSTANCE Mutex

\* Locks as synch.c builds them from a semaphore, a holder field and donation
\* implement mutexes: a lock is never handed from one thread to another
\* without being released, nor released by a thread that does not hold it.
ImplementsMutex == Abstract!Spec

\* With equal priorities the time slice shares the CPU: no thread stays ready
\* forever, whatever the others do, unless the kernel has crashed.
ReadyEventuallyRuns ==
  \A t \in Threads :
    status[t] = "ready" ~> (status[t] = "running" \/ crash # NULL)

\* synch.c:210, on lock_acquire: "Acquires LOCK, sleeping until it becomes
\* available if necessary": the call never faults.
AcquireNeverFaults == crash \notin {"null holder", "donor_elem linked twice"}

=============================================================================
