------------------------------- MODULE CondVar -------------------------------
(***************************************************************************)
(* The condition variables of threads/synch.c: each waiter sleeps on a     *)
(* semaphore of its own, in a struct semaphore_elem on its stack, and the  *)
(* condition is the list of these.  The lock is the one of module Synch,   *)
(* reduced to its holder; nobody waits here with a lock that others want,  *)
(* so priorities do not change.                                            *)
(***************************************************************************)
EXTENDS KList

CONSTANTS
  Callers,
  prio,       \* a number for each thread
  NoThread

CondConstants == prio \in [Callers -> Nat] /\ NoThread \notin Callers

VARIABLES
  holder,     \* of the lock
  waiters,    \* cond->waiters, by the threads whose elements they are
  value,      \* of each thread's waiter.semaphore
  at,
  panicked    \* an assertion failed

cond == <<holder, waiters, value, at, panicked>>

CondInit ==
  /\ holder = NoThread /\ waiters = <<>>
  /\ value = [t \in Callers |-> 0]
  /\ at = [t \in Callers |-> "out"]
  /\ panicked = FALSE

Reached(t, label) == ~panicked /\ at[t] = label
Goto(t, label) == at' = [at EXCEPT ![t] = label]

\* On entry, and at the end of cond_wait.
lock_acquire(t) ==
  /\ Reached(t, "out") \/ Reached(t, "again")
  /\ holder = NoThread /\ holder' = t
  /\ Goto(t, "in")
  /\ UNCHANGED <<waiters, value, panicked>>

lock_release(t) ==
  /\ Reached(t, "in")
  /\ holder' = NoThread
  /\ Goto(t, "out")
  /\ UNCHANGED <<waiters, value, panicked>>

\* cond_wait up to and including lock_release: the list is the lock's.
cond_wait(t) ==
  /\ Reached(t, "in")
  /\ value' = [value EXCEPT ![t] = 0]
  /\ waiters' = Append(waiters, t)
  /\ holder' = NoThread
  /\ Goto(t, "down")
  /\ UNCHANGED panicked

\* sema_down finds a unit, or goes to sleep and looks again when woken.
sema_down(t) ==
  /\ Reached(t, "down")
  /\ IF value[t] > 0
     THEN value' = [value EXCEPT ![t] = @ - 1] /\ Goto(t, "again")
     ELSE Goto(t, "asleep") /\ UNCHANGED value
  /\ UNCHANGED <<holder, waiters, panicked>>

\* convar_compare: by the priority of the first thread in each semaphore's list,
\* which list_front asserts to exist.
convar_compare == {p \in Callers \X Callers : prio[p[1]] > prio[p[2]]}
Comparable == Len(waiters) > 1 => \A k \in 1..Len(waiters) : at[waiters[k]] = "asleep"

\* Slip: the list is not sorted.
Signal_first(t, label) ==
  LET w == Head(waiters) IN
  IF ~Comparable
  THEN panicked' = TRUE /\ UNCHANGED <<waiters, value, at>>
  ELSE /\ waiters' = Tail(waiters)
       /\ value' = [value EXCEPT ![w] = @ + 1]
       /\ at' = [at EXCEPT ![t] = label, ![w] = "down"]
       /\ UNCHANGED panicked

\* Slip: the unit is only handed to a thread that sleeps.
Signal_asleep(t, label) ==
  LET sorted == list_sort(waiters, convar_compare)
      w == Head(sorted)
  IN  IF ~Comparable
      THEN panicked' = TRUE /\ UNCHANGED <<waiters, value, at>>
      ELSE /\ waiters' = Tail(sorted)
           /\ value' = [value EXCEPT ![w] = IF at[w] = "asleep" THEN @ + 1 ELSE @]
           /\ at' = [at EXCEPT ![t] = label, ![w] = "down"]
           /\ UNCHANGED panicked

\* cond_signal with a waiter: the list is sorted, and the first taken off and
\* its semaphore upped.
Signal(t, label) ==
  LET sorted == list_sort(waiters, convar_compare)
      w == Head(sorted)
  IN  IF ~Comparable
      THEN panicked' = TRUE /\ UNCHANGED <<waiters, value, at>>
      ELSE /\ waiters' = Tail(sorted)
           /\ value' = [value EXCEPT ![w] = @ + 1]
           /\ at' = [at EXCEPT ![t] = label, ![w] = "down"]
           /\ UNCHANGED panicked

cond_signal(t) ==
  /\ Reached(t, "in") /\ waiters # <<>>
  /\ Signal(t, "in")
  /\ UNCHANGED holder

\* cond_broadcast signals until the list is empty; between two signals the
\* threads that were woken may run.
cond_broadcast(t) ==
  /\ Reached(t, "in") \/ Reached(t, "broadcast")
  /\ IF waiters = <<>>
     THEN Goto(t, "in") /\ UNCHANGED <<waiters, value, panicked>>
     ELSE Signal(t, "broadcast")
  /\ UNCHANGED holder

CondNext ==
  \E t \in Callers :
    \/ lock_acquire(t) \/ lock_release(t) \/ cond_wait(t) \/ sema_down(t)
    \/ cond_signal(t) \/ cond_broadcast(t)

CondSpec == CondInit /\ [][CondNext]_cond
-----------------------------------------------------------------------------
\* Waiting and signalling look atomic: cond_wait gives up the lock and waits in
\* one step, and cond_signal picks a waiter with the highest priority, although
\* the waiter goes to sleep only some time after it has given up the lock.
Users == INSTANCE Monitor WITH
  Threads <- Callers,
  waiting <- Range(waiters),
  woken <- {t \in Callers : at[t] \in {"down", "asleep", "again"} /\ t \notin Range(waiters)}
IsMonitor == Users!Spec

\* A thread that was signalled does not stay on its semaphore, also when it was
\* signalled before it went to sleep, and comes out of cond_wait with the lock if the
\* others leave that alone at last.  While they keep taking it they may overtake the
\* thread for ever: lock_release hands the lock to nobody, and sema_down tests again
\* after it is woken.
SignalledReturns ==
  \A t \in Callers :
    /\ []<>(panicked \/ ~(at[t] \in {"down", "asleep"} /\ t \notin Range(waiters)))
    /\ <>[](holder \in {NoThread, t}) => []<>(panicked \/ at[t] # "again")
=============================================================================
