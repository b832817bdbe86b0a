---------------------------- MODULE SynchProofs ----------------------------
(***************************************************************************)
(* The locks of Synch are mutexes, for any threads, locks and priorities.  *)
(*                                                                         *)
(* MutualExclusion is not inductive: between the decrement of the          *)
(* semaphore and the assignment of the holder, and between the latter's    *)
(* reset and the increment, a thread has the lock although its code does   *)
(* not hold it.  LockInv counts such a thread as possessing the lock.      *)
(***************************************************************************)
EXTENDS Synch, TLAPS

\* Labels at which lock.holder still names the thread that releases the lock.
Releasing == {"recheck", "unhold"}
Waiting == Acquiring \cup Owning \cup {"retest"}

Possesses(t, l) == l \in held[t] \/ (pc[t] \in Owning /\ arg[t] = l)

\* A thread does not wait for a lock that it holds, and tid_lock belongs to
\* thread_create.
WaitOK(t) ==
  /\ pc[t] \in Waiting => arg[t] \notin held[t]
  /\ tid_lock \in held[t] => creating[t] # NULL
  /\ pc[t] \in Waiting /\ arg[t] = tid_lock => creating[t] # NULL

WaitInv == \A t \in Threads : WaitOK(t)

\* A lock has one possessor, and its semaphore is 0 while it has one.
PossessInv ==
  \A l \in Locks :
    /\ value[l] \in {0, 1}
    /\ \A t \in Threads : Possesses(t, l) => value[l] = 0
    /\ \A t, u \in Threads : Possesses(t, l) /\ Possesses(u, l) => t = u

\* lock.holder names a thread while its code holds the lock and up to
\* lock_release's reset.
Named(t, l) == l \in held[t] \/ (pc[t] \in Releasing /\ arg[t] = l)

HolderInv == \A l \in Locks, t \in Threads : holder[l] = t <=> Named(t, l)

LockInv == LockTypeOK /\ WaitInv /\ PossessInv /\ HolderInv /\ crash # "assert"
-----------------------------------------------------------------------------
\* lock_init and init_thread establish the invariant.
LEMMA LockInvInit == Init => LockInv
<1> SUFFICES ASSUME Init PROVE LockInv
  BY Zenon
<1> USE DEF Init
<1>1. LockTypeOK
  BY LockAssumption, Zenon DEF LockTypeOK, Labels, Acquiring, Owning, Semas
<1>2. WaitInv
  BY Zenon DEF WaitInv, WaitOK, Waiting, Acquiring, Owning
<1>3. PossessInv
  BY Zenon DEF PossessInv, Possesses, Owning, Semas
<1>4. HolderInv
  BY NullAssumption, Zenon DEF HolderInv, Named, Releasing
<1>5. crash # "assert"
  BY NullAssumption, Zenon DEF Crashes
<1> QED
  BY <1>1, <1>2, <1>3, <1>4, <1>5, Zenon DEF LockInv

-----------------------------------------------------------------------------
(* The steps of thread t, as far as they matter for the locks.             *)

\* Whatever t does, it moves only itself.
OthersStay(t) ==
  \A u \in Threads \ {t} :
    pc'[u] = pc[u] /\ arg'[u] = arg[u] /\ held'[u] = held[u] /\ creating'[u] = creating[u]
\* t goes to label, operating on x.
LEMMA GotoType ==
  ASSUME LockTypeOK, NEW t \in Threads, NEW label \in Labels, NEW x, Goto(t, label, x),
         label \in Acquiring \cup Owning => x \in Locks,
         label = "retest" => x \in Semas,
         creating' \in [Threads -> Threads \cup {NULL}],
         held' \in [Threads -> SUBSET Locks],
         value' \in [Semas -> Nat],
         holder' \in [Locks -> Threads \cup {NULL}]
  PROVE  LockTypeOK'
BY Zenon DEF LockTypeOK, Goto

\* t goes on inside lock_acquire with the same lock, or stays where it is.
LEMMA GoesOnType ==
  ASSUME LockTypeOK, NEW t \in Threads, NEW label \in Acquiring, arg[t] \in Locks,
         Goto(t, label, arg[t]) \/ UNCHANGED <<pc, arg>>,
         UNCHANGED <<creating, held, value, holder>>
  PROVE  LockTypeOK'
<1>1. /\ creating' \in [Threads -> Threads \cup {NULL}]
      /\ held' \in [Threads -> SUBSET Locks]
      /\ value' \in [Semas -> Nat]
      /\ holder' \in [Locks -> Threads \cup {NULL}]
  BY Zenon DEF LockTypeOK
<1>2. label \in Labels /\ label # "retest"
  BY Zenon DEF Acquiring, Labels
<1>3. CASE Goto(t, label, arg[t])
  BY <1>1, <1>2, <1>3, GotoType, Zenon
<1>4. CASE UNCHANGED <<pc, arg>>
  BY <1>1, <1>4, Zenon DEF LockTypeOK
<1> QED
  BY <1>3, <1>4, Zenon

\* A test of the loop of sema_down keeps the types.
LEMMA DownType ==
  ASSUME LockTypeOK, NEW t \in Threads, NEW s \in Semas, DownOrBlock(t, s),
         UNCHANGED <<holder, call>>
  PROVE  LockTypeOK'
<1> USE LockAssumption DEF LockTypeOK, Labels, Acquiring, Owning, Semas, Goto, call
<1>1. CASE value[s] = 0 /\ Goto(t, "retest", s) /\ value' = value
  BY <1>1, Zenon
<1>2. CASE /\ value[s] > 0 /\ value' = [value EXCEPT ![s] = @ - 1]
           /\ IF s \in Locks THEN Goto(t, "acquired", s) ELSE Goto(t, "run", NULL)
  <2>1. value[s] - 1 \in Nat
    BY <1>2
  <2>2. value' \in [Semas -> Nat]
    BY <1>2, <2>1, Zenon
  <2>3. CASE s \in Locks
    BY <1>2, <2>2, <2>3
  <2>4. CASE s \notin Locks
    BY <1>2, <2>2, <2>4, SMTT(30)
  <2> QED
    BY <2>3, <2>4, Zenon
<1> QED
  BY <1>1, <1>2, Zenon DEF DownOrBlock

\* Every step keeps the types of what the locks are made of.
LEMMA LockTypeNext == LockTypeOK /\ [Next]_vars => LockTypeOK'
<1> SUFFICES ASSUME LockTypeOK, [Next]_vars PROVE LockTypeOK'
  BY Zenon
<1> USE LockAssumption, UsesAssumption, NullAssumption
    DEF LockTypeOK, Labels, Acquiring, Owning, Semas, At, Free, Goto, call, sema
<1>1. ASSUME NEW t \in Threads, check_priority(t) PROVE LockTypeOK'
  BY <1>1, ZenonT(40) DEF check_priority
<1>2. ASSUME NEW t \in Threads, ComparePriority(t) PROVE LockTypeOK'
  BY <1>2 DEF ComparePriority
<1>3. ASSUME NEW t \in Threads, Yield(t) PROVE LockTypeOK'
  BY <1>3, Zenon DEF Yield
<1>4. ASSUME NEW t \in Threads, SetTryLock(t) PROVE LockTypeOK'
  <2>1. arg[t] \in Locks /\ UNCHANGED <<creating, held, value, holder>>
    BY <1>4, Zenon DEF SetTryLock
  <2>2. Goto(t, "donate", arg[t]) \/ UNCHANGED <<pc, arg>>
    BY <1>4, Zenon DEF SetTryLock
  <2>3. "donate" \in Acquiring
    BY Zenon DEF Acquiring
  <2> HIDE DEF LockTypeOK, Goto, Acquiring, call
  <2> QED
    BY <2>1, <2>2, <2>3, GoesOnType, Zenon
<1>5. ASSUME NEW t \in Threads, priority_donation(t) PROVE LockTypeOK'
  BY <1>5 DEF priority_donation
<1>6. ASSUME NEW t \in Threads, RaiseHolder(t) PROVE LockTypeOK'
  <2>1. arg[t] \in Locks /\ UNCHANGED <<creating, held, value, holder>>
    BY <1>6, Zenon DEF RaiseHolder
  <2>2. Goto(t, "follow", arg[t]) \/ UNCHANGED <<pc, arg>>
    BY <1>6, Zenon DEF RaiseHolder
  <2>3. "follow" \in Acquiring
    BY Zenon DEF Acquiring
  <2> HIDE DEF LockTypeOK, Goto, Acquiring, call
  <2> QED
    BY <2>1, <2>2, <2>3, GoesOnType, Zenon
<1>7. ASSUME NEW t \in Threads, FollowChain(t) PROVE LockTypeOK'
  <2>1. arg[t] \in Locks /\ UNCHANGED <<creating, held, value, holder>>
    BY <1>7, Zenon DEF FollowChain
  <2>2. Goto(t, "donate", arg[t]) \/ UNCHANGED <<pc, arg>>
    BY <1>7, Zenon DEF FollowChain
  <2>3. "donate" \in Acquiring
    BY Zenon DEF Acquiring
  <2> HIDE DEF LockTypeOK, Goto, Acquiring, call
  <2> QED
    BY <2>1, <2>2, <2>3, GoesOnType, Zenon
<1>8. ASSUME NEW t \in Threads, EnlistDonor(t) PROVE LockTypeOK'
  <2>1. arg[t] \in Locks /\ UNCHANGED <<creating, held, value, holder>>
    BY <1>8, Zenon DEF EnlistDonor
  <2>2. Goto(t, "down", arg[t]) \/ UNCHANGED <<pc, arg>>
    BY <1>8, Zenon DEF EnlistDonor
  <2>3. "down" \in Acquiring
    BY Zenon DEF Acquiring
  <2> HIDE DEF LockTypeOK, Goto, Acquiring, call
  <2> QED
    BY <2>1, <2>2, <2>3, GoesOnType, Zenon
<1>9. ASSUME NEW t \in Threads, priority_recheck(t) PROVE LockTypeOK'
  BY <1>9, Zenon DEF priority_recheck
<1>10. ASSUME NEW t \in Threads, CreateCompare(t) PROVE LockTypeOK'
  BY <1>10, Zenon DEF CreateCompare
<1>11. ASSUME NEW t \in Threads, Retest(t) PROVE LockTypeOK'
  BY <1>11, DownType, Zenon DEF Retest
<1>12. ASSUME NEW t \in Threads, LockDown(t) PROVE LockTypeOK'
  BY <1>12, DownType, Zenon DEF LockDown
<1>13. ASSUME NEW t \in Threads, Acquired(t) PROVE LockTypeOK'
  <2>1. arg[t] \in Locks /\ Goto(t, "run", NULL) /\ UNCHANGED <<creating, value>>
    BY <1>13, Zenon DEF Acquired
  <2>2. held' \in [Threads -> SUBSET Locks] /\ holder' \in [Locks -> Threads \cup {NULL}]
    BY <1>13, <2>1 DEF Acquired
  <2> QED
    BY <2>1, <2>2, GotoType, Zenon
<1>14. ASSUME NEW t \in Threads, TryAcquired(t) PROVE LockTypeOK'
  <2>1. arg[t] \in Locks /\ Goto(t, "run", NULL) /\ UNCHANGED <<creating, value>>
    BY <1>14, Zenon DEF TryAcquired
  <2>2. held' \in [Threads -> SUBSET Locks] /\ holder' \in [Locks -> Threads \cup {NULL}]
    BY <1>14, <2>1 DEF TryAcquired
  <2> QED
    BY <2>1, <2>2, GotoType, Zenon
<1>15. ASSUME NEW t \in Threads, ClearHolder(t) PROVE LockTypeOK'
  BY <1>15, Zenon DEF ClearHolder
<1>16. ASSUME NEW t \in Threads, CreateUnblock(t) PROVE LockTypeOK'
  BY <1>16, ZenonT(40) DEF CreateUnblock
<1>17. ASSUME NEW t \in Threads, LockUp(t) PROVE LockTypeOK'
  <2>1. arg[t] \in Semas
    BY <1>17, Zenon DEF LockUp
  <2>2. value' \in [Semas -> Nat]
    BY <1>17, <2>1 DEF LockUp, Up
  <2> QED
    BY <1>17, <2>2, Zenon DEF LockUp
<1>18. ASSUME NEW t \in Threads, allocate_tid(t) PROVE LockTypeOK'
  BY <1>18 DEF allocate_tid, ReleaseBody
<1>19. ASSUME NEW t \in Threads, NEW s \in Events \cap Uses[t], sema_down(t, s) PROVE LockTypeOK'
  BY <1>19 DEF sema_down, DownOrBlock
<1>20. ASSUME NEW t \in Threads, NEW s \in Events \cap Uses[t], sema_try_down(t, s) PROVE LockTypeOK'
  BY <1>20 DEF sema_try_down
<1>21. ASSUME NEW t \in Threads, NEW s \in Events \cap Uses[t], sema_up(t, s) PROVE LockTypeOK'
  <2>1. value' \in [Semas -> Nat]
    BY <1>21 DEF sema_up, Up
  <2> QED
    BY <1>21, <2>1, Zenon DEF sema_up
<1>22. ASSUME NEW t \in Threads, NEW l \in Locks \cap Uses[t], lock_acquire(t, l) PROVE LockTypeOK'
  BY <1>22 DEF lock_acquire, AcquireTest
<1>23. ASSUME NEW t \in Threads, NEW l \in Locks \cap Uses[t], lock_try_acquire(t, l) PROVE LockTypeOK'
  BY <1>23 DEF lock_try_acquire
<1>24. ASSUME NEW t \in Threads, NEW l \in Locks \cap Uses[t], lock_release(t, l) PROVE LockTypeOK'
  BY <1>24 DEF lock_release, ReleaseBody
<1>25. ASSUME NEW t \in Threads, NEW u \in Threads, thread_create(t, u) PROVE LockTypeOK'
  BY <1>25 DEF thread_create, AcquireTest
<1>26. ASSUME NEW t \in Threads, NEW p \in NewPriorities, thread_set_priority(t, p) PROVE LockTypeOK'
  BY <1>26, Zenon DEF thread_set_priority
<1>27. ASSUME NEW t \in Threads, thread_exit(t) PROVE LockTypeOK'
  BY <1>27, Zenon DEF thread_exit
<1>28. ASSUME NEW s \in Events, DeviceInterrupt(s) PROVE LockTypeOK'
  BY <1>28 DEF DeviceInterrupt, Up
<1>29. ASSUME TimerInterrupt PROVE LockTypeOK'
  BY <1>29, Zenon DEF TimerInterrupt
<1>30. ASSUME IdleLoop PROVE LockTypeOK'
  BY <1>30, Zenon DEF IdleLoop
<1>31. ASSUME UNCHANGED vars PROVE LockTypeOK'
  BY <1>31, Zenon DEF vars
<1> HIDE DEF LockTypeOK, At, Free, Goto
<1> QED
  BY <1>1, <1>2, <1>3, <1>4, <1>5, <1>6, <1>7, <1>8, <1>9, <1>10, <1>11, <1>12, <1>13, <1>14, <1>15, <1>16, <1>17, <1>18, <1>19, <1>20, <1>21, <1>22, <1>23, <1>24, <1>25, <1>26, <1>27, <1>28, <1>29, <1>30, <1>31, Zenon DEF Next, Primitive, Call

\* t neither gains nor loses a lock.
Stays(t) ==
  /\ OthersStay(t)
  /\ holder' = holder
  /\ \A l \in Locks : /\ value'[l] = value[l]
                      /\ Possesses(t, l)' <=> Possesses(t, l)
                      /\ Named(t, l)' <=> Named(t, l)

\* A step after which the same threads possess the same locks.
LEMMA StaysInv ==
  ASSUME LockInv, NEW t \in Threads, Stays(t), LockTypeOK', WaitOK(t)', crash' # "assert"
  PROVE  LockInv'
<1>1. WaitInv'
  BY Zenon DEF LockInv, WaitInv, WaitOK, Stays, OthersStay
<1>2. \A u \in Threads, l \in Locks : /\ Possesses(u, l)' <=> Possesses(u, l)
                                      /\ Named(u, l)' <=> Named(u, l)
  BY DEF Stays, OthersStay, Possesses, Named
<1>3. PossessInv'
  BY <1>2, Zenon DEF LockInv, PossessInv, Stays
<1>4. HolderInv'
  BY <1>2, Zenon DEF LockInv, HolderInv, Stays
<1> QED
  BY <1>1, <1>3, <1>4, Zenon DEF LockInv

\* t takes the unit of the semaphore of l0.
Takes(t, l0) ==
  /\ OthersStay(t)
  /\ holder' = holder
  /\ value[l0] > 0 /\ value'[l0] = value[l0] - 1
  /\ \A l \in Locks : /\ l # l0 => value'[l] = value[l]
                      /\ Possesses(t, l)' <=> Possesses(t, l) \/ l = l0
                      /\ Named(t, l)' <=> Named(t, l)

\* A step in which t comes to possess a lock that nobody possessed.
LEMMA TakesInv ==
  ASSUME LockInv, NEW t \in Threads, NEW l0 \in Locks, Takes(t, l0),
         LockTypeOK', WaitOK(t)', crash' # "assert"
  PROVE  LockInv'
<1>1. WaitInv'
  BY Zenon DEF LockInv, WaitInv, WaitOK, Takes, OthersStay
<1>2. \A u \in Threads, l \in Locks :
        /\ u # t => (Possesses(u, l)' <=> Possesses(u, l))
        /\ Named(u, l)' <=> Named(u, l)
  BY DEF Takes, OthersStay, Possesses, Named
<1>3. value[l0] = 1 /\ value'[l0] = 0 /\ \A u \in Threads : ~Possesses(u, l0)
  BY DEF LockInv, PossessInv, Takes
<1>4. PossessInv'
  BY <1>2, <1>3 DEF LockInv, PossessInv, Takes
<1>5. HolderInv'
  BY <1>2, Zenon DEF LockInv, HolderInv, Takes
<1> QED
  BY <1>1, <1>4, <1>5, Zenon DEF LockInv

\* t goes on to a label where it possesses no more than what its code holds.
LEMMA MovesInv ==
  ASSUME LockInv, NEW t \in Threads, NEW label, NEW x, Goto(t, label, x), LockTypeOK',
         pc[t] \notin Owning, label \notin Owning,
         label \in Waiting => x \notin held[t] /\ (x = tid_lock => creating'[t] # NULL),
         creating'[t] = creating[t] \/ creating'[t] # NULL \/ tid_lock \notin held[t],
         \A u \in Threads \ {t} : creating'[u] = creating[u],
         \A l \in Locks : value'[l] = value[l],
         UNCHANGED <<held, holder>>, crash' # "assert"
  PROVE  LockInv'
<1>1. pc'[t] = label /\ arg'[t] = x /\ pc[t] \notin Releasing /\ label \notin Releasing
  BY Zenon DEF LockInv, LockTypeOK, Goto, Owning, Releasing
<1>2. OthersStay(t)
  BY Zenon DEF LockInv, LockTypeOK, Goto, OthersStay
<1>3. WaitOK(t)'
  BY <1>1, Zenon DEF LockInv, WaitInv, WaitOK
<1>4. Stays(t)
  BY <1>1, <1>2, Zenon DEF Stays, Possesses, Named
<1> QED
  BY <1>3, <1>4, StaysInv, Zenon

\* Nobody moves.
LEMMA RestInv ==
  ASSUME LockInv, LockTypeOK', UNCHANGED <<pc, arg, held, creating, holder>>,
         \A l \in Locks : value'[l] = value[l], crash' # "assert"
  PROVE  LockInv'
<1>1. WaitInv' /\ HolderInv'
  BY DEF LockInv, WaitInv, WaitOK, HolderInv, Named
<1>2. PossessInv'
  BY DEF LockInv, PossessInv, Possesses
<1> QED
  BY <1>1, <1>2, Zenon DEF LockInv

\* sema_down leaves its loop.
Granted(t, s) ==
  /\ value[s] > 0
  /\ value' = [value EXCEPT ![s] = @ - 1]
  /\ IF s \in Locks THEN Goto(t, "acquired", s) ELSE Goto(t, "run", NULL)

\* sema_down decrements a semaphore: if it is that of a lock, t possesses it.
LEMMA GrantedInv ==
  ASSUME LockInv, NEW t \in Threads, NEW s \in Semas, Granted(t, s), LockTypeOK',
         pc[t] \notin Owning,
         s \in Locks => s \notin held[t] /\ (s = tid_lock => creating[t] # NULL),
         UNCHANGED <<held, holder, creating>>, crash' # "assert"
  PROVE  LockInv'
<1>1. CASE s \in Locks
  <2>1. pc'[t] = "acquired" /\ arg'[t] = s /\ pc[t] \notin Releasing
    BY <1>1 DEF LockInv, LockTypeOK, Granted, Goto, Owning, Releasing
  <2>2. OthersStay(t)
    BY <1>1 DEF LockInv, LockTypeOK, Granted, Goto, OthersStay
  <2>3. WaitOK(t)'
    BY <1>1, <2>1, Zenon DEF LockInv, WaitInv, WaitOK
  <2>4. value'[s] = value[s] - 1 /\ \A l \in Locks : l # s => value'[l] = value[l]
    BY Zenon DEF LockInv, LockTypeOK, Granted, Semas
  <2>5. \A l \in Locks : /\ Possesses(t, l)' <=> Possesses(t, l) \/ l = s
                         /\ Named(t, l)' <=> Named(t, l)
    BY <2>1, Zenon DEF Possesses, Named, Owning, Releasing
  <2>6. Takes(t, s)
    BY <2>2, <2>4, <2>5, Zenon DEF Takes, Granted
  <2> QED
    BY <1>1, <2>3, <2>6, TakesInv, Zenon
<1>2. CASE s \notin Locks
  <2>1. \A l \in Locks : value'[l] = value[l]
    BY <1>2, Zenon DEF LockInv, LockTypeOK, Granted, Semas
  <2> QED
    BY <1>2, <2>1, MovesInv, Zenon DEF Granted, Owning, Waiting, Acquiring
<1> QED
  BY <1>1, <1>2, Zenon

\* After a successful sema_down or sema_try_down the thread becomes the holder.
LEMMA GetsInv ==
  ASSUME LockInv, NEW t \in Threads, pc[t] \in {"acquired", "tried"}, LockTypeOK',
         Goto(t, "run", NULL),
         holder' = [holder EXCEPT ![arg[t]] = t],
         held' = [held EXCEPT ![t] = @ \cup {arg[t]}],
         UNCHANGED <<value, creating>>, crash' # "assert"
  PROVE  LockInv'
<1>1. arg[t] \in Locks /\ Possesses(t, arg[t])
  BY Zenon DEF LockInv, LockTypeOK, Possesses, Owning
<1>2. pc'[t] = "run" /\ held'[t] = held[t] \cup {arg[t]}
  BY DEF LockInv, LockTypeOK, Goto
<1>3. OthersStay(t)
  BY Zenon DEF LockInv, LockTypeOK, Goto, OthersStay
<1>4. WaitInv'
  BY <1>2, <1>3 DEF LockInv, WaitInv, WaitOK, OthersStay, Waiting, Acquiring, Owning
<1>5. \A u \in Threads, l \in Locks : Possesses(u, l)' <=> Possesses(u, l)
  BY <1>1, <1>2, <1>3 DEF OthersStay, Possesses, Owning
<1>6. PossessInv'
  BY <1>5, Zenon DEF LockInv, PossessInv
<1>7. HolderInv'
  <2>1. SUFFICES ASSUME NEW l \in Locks, NEW u \in Threads
                 PROVE  holder'[l] = u <=> Named(u, l)'
    BY Zenon DEF HolderInv
  <2>2. CASE l = arg[t]
    <3>1. holder'[l] = t
      BY <2>2, Zenon DEF LockInv, LockTypeOK
    <3>2. u # t => ~Possesses(u, l)
      BY <1>1, <2>2, Zenon DEF LockInv, PossessInv
    <3>3. u # t => ~Named(u, l)'
      BY <1>3, <3>2, Zenon DEF OthersStay, Named, Possesses, Owning, Releasing
    <3> QED
      BY <1>2, <2>2, <3>1, <3>3, Zenon DEF Named
  <2>3. CASE l # arg[t]
    <3>1. holder'[l] = holder[l]
      BY <2>3, Zenon DEF LockInv, LockTypeOK
    <3>2. Named(u, l)' <=> Named(u, l)
      BY <1>2, <1>3, <2>3, Zenon DEF OthersStay, Named, Releasing
    <3> QED
      BY <3>1, <3>2, Zenon DEF LockInv, HolderInv
  <2> QED
    BY <2>2, <2>3, Zenon
<1> QED
  BY <1>4, <1>6, <1>7, Zenon DEF LockInv

\* From the call of lock_release to the reset of the holder nothing changes hands.
LEMMA ReleaseInv ==
  ASSUME LockInv, NEW t \in Threads, NEW l \in Locks, l \in held[t], pc[t] = "run",
         crash = NULL, ReleaseBody(t, l), LockTypeOK'
  PROVE  LockInv'
<1>1. holder[l] = t
  BY Zenon DEF LockInv, HolderInv, Named
<1>2. /\ held' = [held EXCEPT ![t] = @ \ {l}] /\ Goto(t, "recheck", l)
      /\ UNCHANGED <<value, holder, creating, crash>>
  BY <1>1, Zenon DEF ReleaseBody, sema
<1>3. pc'[t] = "recheck" /\ arg'[t] = l /\ held'[t] = held[t] \ {l}
  BY <1>2, Zenon DEF LockInv, LockTypeOK, Goto
<1>4. OthersStay(t)
  BY <1>2, Zenon DEF LockInv, LockTypeOK, Goto, OthersStay
<1>5. WaitOK(t)'
  BY <1>2, <1>3, Zenon DEF LockInv, WaitInv, WaitOK
<1>6. Stays(t)
  BY <1>2, <1>3, <1>4, Zenon DEF Stays, Possesses, Named, Owning, Releasing
<1> QED
  BY <1>2, <1>5, <1>6, StaysInv, NullAssumption, Zenon DEF Crashes

\* For the value of a semaphore that sema_up increments.
LEMMA ZeroPlusOne == 0 + 1 = 1
OBVIOUS

\* Every step of the scheduler and the primitives keeps the invariant.
LEMMA LockInvNext == LockInv /\ [Next]_vars => LockInv'
<1> SUFFICES ASSUME LockInv, [Next]_vars PROVE LockInv'
  BY Zenon
<1>0. LockTypeOK'
  BY LockTypeNext, Zenon DEF LockInv
<1>a. \A t \in Threads : pc[t] \in Waiting => /\ arg[t] \notin held[t]
                                              /\ arg[t] = tid_lock => creating[t] # NULL
  BY Zenon DEF LockInv, WaitInv, WaitOK
<1> USE NullAssumption DEF At, Free, call, sema, Owning, Waiting, Acquiring, Crashes
<1>1. ASSUME NEW t \in Threads, check_priority(t) PROVE LockInv'
  BY <1>0, <1>a, <1>1, MovesInv, Zenon DEF check_priority
<1>2. ASSUME NEW t \in Threads, ComparePriority(t) PROVE LockInv'
  BY <1>0, <1>a, <1>2, MovesInv, Zenon DEF ComparePriority
<1>3. ASSUME NEW t \in Threads, Yield(t) PROVE LockInv'
  BY <1>0, <1>a, <1>3, MovesInv, Zenon DEF Yield
<1>4. ASSUME NEW t \in Threads, SetTryLock(t) PROVE LockInv'
  BY <1>0, <1>a, <1>4, MovesInv, Zenon DEF SetTryLock
<1>5. ASSUME NEW t \in Threads, priority_donation(t) PROVE LockInv'
  BY <1>0, <1>a, <1>5, MovesInv, Zenon DEF priority_donation
<1>6. ASSUME NEW t \in Threads, RaiseHolder(t) PROVE LockInv'
  BY <1>0, <1>a, <1>6, MovesInv, Zenon DEF RaiseHolder
<1>7. ASSUME NEW t \in Threads, CreateCompare(t) PROVE LockInv'
  BY <1>0, <1>a, <1>7, MovesInv, Zenon DEF CreateCompare
<1>8. ASSUME NEW t \in Threads, FollowChain(t) PROVE LockInv'
  <2>1. CASE Goto(t, "donate", arg[t]) /\ crash' = crash
    BY <1>0, <1>a, <1>8, <2>1, MovesInv, Zenon DEF FollowChain
  <2>2. CASE UNCHANGED <<pc, arg>> /\ crash' # "assert"
    BY <1>0, <1>8, <2>2, RestInv, Zenon DEF FollowChain
  <2> QED
    BY <1>8, <2>1, <2>2, Zenon DEF FollowChain
<1>9. ASSUME NEW t \in Threads, EnlistDonor(t) PROVE LockInv'
  <2>1. CASE Goto(t, "down", arg[t]) /\ crash' = crash
    BY <1>0, <1>a, <1>9, <2>1, MovesInv, Zenon DEF EnlistDonor
  <2>2. CASE UNCHANGED <<pc, arg>> /\ crash' # "assert"
    BY <1>0, <1>9, <2>2, RestInv, Zenon DEF EnlistDonor
  <2> QED
    BY <1>9, <2>1, <2>2, Zenon DEF EnlistDonor
<1>10. ASSUME NEW t \in Threads, Retest(t) PROVE LockInv'
  <2>1. CASE Goto(t, "retest", arg[t]) /\ value' = value
    BY <1>0, <1>a, <1>10, <2>1, MovesInv, Zenon DEF Retest
  <2>2. CASE Granted(t, arg[t])
    <3>1. arg[t] \in Semas /\ pc[t] \in Waiting \ Owning
      BY <1>10, Zenon DEF Retest, LockInv, LockTypeOK, Semas
    <3>2. UNCHANGED <<held, holder, creating>> /\ crash' # "assert"
      BY <1>10, Zenon DEF Retest
    <3> QED
      BY <1>0, <1>a, <2>2, <3>1, <3>2, GrantedInv, Zenon
  <2> QED
    BY <1>10, <2>1, <2>2, Zenon DEF Retest, DownOrBlock, Granted
<1>11. ASSUME NEW t \in Threads, LockDown(t) PROVE LockInv'
  <2>1. CASE Goto(t, "retest", arg[t]) /\ value' = value
    BY <1>0, <1>a, <1>11, <2>1, MovesInv, Zenon DEF LockDown
  <2>2. CASE Granted(t, arg[t])
    <3>1. arg[t] \in Semas /\ pc[t] \in Waiting \ Owning
      BY <1>11, Zenon DEF LockDown, LockInv, LockTypeOK, Semas
    <3>2. UNCHANGED <<held, holder, creating>> /\ crash' # "assert"
      BY <1>11, Zenon DEF LockDown
    <3> QED
      BY <1>0, <1>a, <2>2, <3>1, <3>2, GrantedInv, Zenon
  <2> QED
    BY <1>11, <2>1, <2>2, Zenon DEF LockDown, DownOrBlock, Granted
<1>12. ASSUME NEW t \in Threads, NEW s \in Events \cap Uses[t], sema_down(t, s) PROVE LockInv'
  <2>1. CASE Goto(t, "retest", s) /\ value' = value
    <3>1. s \notin held[t] /\ s # tid_lock
      BY LockAssumption, Zenon DEF LockInv, LockTypeOK
    <3> QED
      BY <1>0, <1>12, <2>1, <3>1, MovesInv, Zenon DEF sema_down
  <2>2. CASE Granted(t, s)
    <3>1. s \in Semas /\ s \notin Locks
      BY LockAssumption, Zenon DEF Semas
    <3> QED
      BY <1>0, <1>12, <2>2, <3>1, GrantedInv, Zenon DEF sema_down
  <2> QED
    BY <1>12, <2>1, <2>2, Zenon DEF sema_down, DownOrBlock, Granted
<1>13. ASSUME NEW t \in Threads, NEW s \in Events \cap Uses[t], sema_try_down(t, s) PROVE LockInv'
  <2>1. \A l \in Locks : value'[l] = value[l]
    <3>1. value' = [value EXCEPT ![s] = @ - 1] /\ s \notin Locks /\ value \in [Semas -> Nat]
      BY <1>13, LockAssumption, Zenon DEF sema_try_down, LockInv, LockTypeOK
    <3> QED
      BY <3>1, Zenon DEF Semas
  <2> QED
    BY <1>0, <1>13, <2>1, RestInv, Zenon DEF sema_try_down
<1>14. ASSUME NEW t \in Threads, NEW s \in Events \cap Uses[t], sema_up(t, s) PROVE LockInv'
  <2>1. \A l \in Locks : value'[l] = value[l]
    <3>1. value' = [value EXCEPT ![s] = @ + 1] /\ s \notin Locks /\ value \in [Semas -> Nat]
      BY <1>14, LockAssumption, Zenon DEF sema_up, Up, LockInv, LockTypeOK
    <3> QED
      BY <3>1, Zenon DEF Semas
  <2> QED
    BY <1>0, <1>14, <2>1, MovesInv, Zenon DEF sema_up
<1>15. ASSUME NEW s \in Events, DeviceInterrupt(s) PROVE LockInv'
  <2>1. \A l \in Locks : value'[l] = value[l]
    <3>1. value' = [value EXCEPT ![s] = @ + 1] /\ s \notin Locks /\ value \in [Semas -> Nat]
      BY <1>15, LockAssumption, Zenon DEF DeviceInterrupt, Up, LockInv, LockTypeOK
    <3> QED
      BY <3>1, Zenon DEF Semas
  <2> QED
    BY <1>0, <1>15, <2>1, RestInv, Zenon DEF DeviceInterrupt, IntrOn
<1>16. ASSUME NEW t \in Threads, NEW l \in Locks \cap Uses[t], lock_acquire(t, l) PROVE LockInv'
  <2>1. l # tid_lock
    BY UsesAssumption, LockAssumption, Zenon
  <2>2. holder[l] # t
    BY <1>16, Zenon DEF lock_acquire, LockInv, HolderInv, Named, Releasing
  <2> QED
    BY <1>0, <1>16, <2>1, <2>2, MovesInv, Zenon DEF lock_acquire, AcquireTest
<1>17. ASSUME NEW t \in Threads, NEW u \in Threads, thread_create(t, u) PROVE LockInv'
  <2>1. tid_lock \notin held[t]
    BY <1>17, Zenon DEF thread_create, LockInv, WaitInv, WaitOK
  <2>2. holder[tid_lock] # t
    BY <1>17, <2>1, LockAssumption, Zenon DEF thread_create, LockInv, HolderInv, Named, Releasing
  <2>3. creating'[t] = u /\ \A v \in Threads \ {t} : creating'[v] = creating[v]
    BY <1>17, Zenon DEF thread_create, LockInv, LockTypeOK
  <2> QED
    BY <1>0, <1>17, <2>1, <2>2, <2>3, MovesInv, Zenon DEF thread_create, AcquireTest
<1>18. ASSUME NEW t \in Threads, CreateUnblock(t) PROVE LockInv'
  <2>1. creating'[t] = NULL /\ \A v \in Threads \ {t} : creating'[v] = creating[v]
    BY <1>18, Zenon DEF CreateUnblock, LockInv, LockTypeOK
  <2> QED
    BY <1>0, <1>18, <2>1, MovesInv, Zenon DEF CreateUnblock
<1>19. ASSUME NEW t \in Threads, thread_exit(t) PROVE LockInv'
  BY <1>0, <1>19, MovesInv, Zenon DEF thread_exit
<1>20. ASSUME NEW t \in Threads, NEW p \in NewPriorities, thread_set_priority(t, p) PROVE LockInv'
  BY <1>0, <1>20, RestInv, Zenon DEF thread_set_priority
<1>21. ASSUME TimerInterrupt PROVE LockInv'
  BY <1>0, <1>21, RestInv, Zenon DEF TimerInterrupt, IntrOn
<1>22. ASSUME IdleLoop PROVE LockInv'
  BY <1>0, <1>22, RestInv, Zenon DEF IdleLoop
<1>23. ASSUME UNCHANGED vars PROVE LockInv'
  BY <1>0, <1>23, RestInv, Zenon DEF vars, LockInv
<1>24. ASSUME NEW t \in Threads, Acquired(t) PROVE LockInv'
  BY <1>0, <1>24, GetsInv, Zenon DEF Acquired
<1>25. ASSUME NEW t \in Threads, TryAcquired(t) PROVE LockInv'
  BY <1>0, <1>25, GetsInv, Zenon DEF TryAcquired
<1>26. ASSUME NEW t \in Threads, NEW l \in Locks \cap Uses[t], lock_release(t, l) PROVE LockInv'
  BY <1>0, <1>26, ReleaseInv, Zenon DEF lock_release
<1>27. ASSUME NEW t \in Threads, allocate_tid(t) PROVE LockInv'
  BY <1>0, <1>27, LockAssumption, ReleaseInv, Zenon DEF allocate_tid
<1>28. ASSUME NEW t \in Threads, NEW l \in Locks \cap Uses[t], lock_try_acquire(t, l) PROVE LockInv'
  <2>1. holder[l] # t /\ l \notin held[t] /\ l # tid_lock
    <3>1. l \notin held[t] /\ pc[t] = "run" /\ l \in Locks
      BY <1>28, Zenon DEF lock_try_acquire
    <3>2. ~Named(t, l)
      BY <3>1, Zenon DEF Named, Releasing
    <3>3. l # tid_lock
      BY UsesAssumption, LockAssumption, Zenon
    <3> QED
      BY <3>1, <3>2, <3>3, Zenon DEF LockInv, HolderInv
  <2>2. value[l] > 0 /\ value' = [value EXCEPT ![l] = @ - 1] /\ Goto(t, "tried", l)
    BY <1>28, <2>1, Zenon DEF lock_try_acquire
  <2>3. UNCHANGED <<held, holder, creating, crash>>
    BY <1>28, <2>1, Zenon DEF lock_try_acquire
  <2>4. pc[t] = "run" /\ pc'[t] = "tried" /\ arg'[t] = l
    BY <1>28, <2>2, Zenon DEF lock_try_acquire, LockInv, LockTypeOK, Goto
  <2>5. OthersStay(t)
    BY <2>2, <2>3, Zenon DEF LockInv, LockTypeOK, Goto, OthersStay
  <2>6. WaitOK(t)'
    BY <2>1, <2>3, <2>4, Zenon DEF LockInv, WaitInv, WaitOK
  <2>7. value'[l] = value[l] - 1 /\ \A m \in Locks : m # l => value'[m] = value[m]
    BY <2>2, Zenon DEF LockInv, LockTypeOK, Semas
  <2>8. \A m \in Locks : /\ Possesses(t, m)' <=> Possesses(t, m) \/ m = l
                         /\ Named(t, m)' <=> Named(t, m)
    BY <2>3, <2>4, Zenon DEF Possesses, Named, Releasing
  <2>9. Takes(t, l)
    BY <2>2, <2>3, <2>5, <2>7, <2>8, Zenon DEF Takes
  <2> QED
    BY <1>0, <1>28, <2>3, <2>6, <2>9, TakesInv, Zenon DEF lock_try_acquire
<1>29. ASSUME NEW t \in Threads, priority_recheck(t) PROVE LockInv'
  <2>1. pc[t] = "recheck" /\ pc'[t] = "unhold" /\ arg'[t] = arg[t]
    BY <1>29, Zenon DEF priority_recheck, LockInv, LockTypeOK, Goto
  <2>2. UNCHANGED <<held, holder, creating, value, crash>>
    BY <1>29, Zenon DEF priority_recheck
  <2>3. OthersStay(t)
    BY <1>29, <2>2, Zenon DEF priority_recheck, LockInv, LockTypeOK, Goto, OthersStay
  <2>4. WaitOK(t)'
    BY <1>a, <2>1, <2>2, Zenon DEF LockInv, WaitInv, WaitOK
  <2>5. Stays(t)
    BY <2>1, <2>2, <2>3, Zenon DEF Stays, Possesses, Named, Releasing
  <2> QED
    BY <1>0, <2>2, <2>4, <2>5, StaysInv, Zenon DEF LockInv
<1>30. ASSUME NEW t \in Threads, ClearHolder(t) PROVE LockInv'
  <2>1. pc[t] = "unhold" /\ pc'[t] = "up" /\ arg'[t] = arg[t] /\ arg[t] \in Locks
    BY <1>30, Zenon DEF ClearHolder, LockInv, LockTypeOK, Goto
  <2>2. holder' = [holder EXCEPT ![arg[t]] = NULL] /\ UNCHANGED <<held, creating, value, crash>>
    BY <1>30, Zenon DEF ClearHolder
  <2>3. OthersStay(t)
    BY <1>30, <2>2, Zenon DEF ClearHolder, LockInv, LockTypeOK, Goto, OthersStay
  <2>4. WaitInv'
    BY <1>a, <2>1, <2>2, <2>3, Zenon DEF LockInv, WaitInv, WaitOK, OthersStay
  <2>5. \A u \in Threads, l \in Locks : Possesses(u, l)' <=> Possesses(u, l)
    BY <2>1, <2>2, <2>3, Zenon DEF OthersStay, Possesses
  <2>6. PossessInv'
    BY <2>2, <2>5, Zenon DEF LockInv, PossessInv
  <2>7. \A u \in Threads, l \in Locks : Named(u, l)' <=> Named(u, l) /\ ~(u = t /\ l = arg[t])
    BY <1>a, <2>1, <2>2, <2>3, Zenon DEF OthersStay, Named, Releasing
  <2>8. holder[arg[t]] = t
    BY <2>1, Zenon DEF LockInv, HolderInv, Named, Releasing
  <2>9. HolderInv'
    <3>1. SUFFICES ASSUME NEW l \in Locks, NEW u \in Threads
                   PROVE  holder'[l] = u <=> Named(u, l)'
      BY Zenon DEF HolderInv
    <3>2. holder[l] = u <=> Named(u, l)
      BY Zenon DEF LockInv, HolderInv
    <3>3. CASE l = arg[t]
      <4>1. holder'[l] = NULL
        BY <2>2, <3>3, Zenon DEF LockInv, LockTypeOK
      <4> QED
        BY <2>7, <2>8, <3>2, <3>3, <4>1, Zenon
    <3>4. CASE l # arg[t]
      <4>1. holder'[l] = holder[l]
        BY <2>2, <3>4, Zenon DEF LockInv, LockTypeOK
      <4> QED
        BY <2>7, <3>2, <3>4, <4>1, Zenon
    <3> QED
      BY <3>3, <3>4, Zenon
  <2> QED
    BY <1>0, <2>2, <2>4, <2>6, <2>9, Zenon DEF LockInv
<1>31. ASSUME NEW t \in Threads, LockUp(t) PROVE LockInv'
  <2>1. pc[t] = "up" /\ pc'[t] = "check" /\ arg[t] \in Locks
    BY <1>31, Zenon DEF LockUp, LockInv, LockTypeOK, Goto
  <2>2. value' = [value EXCEPT ![arg[t]] = @ + 1] /\ UNCHANGED <<held, creating, holder, crash>>
    BY <1>31, Zenon DEF LockUp, Up
  <2>3. OthersStay(t)
    BY <1>31, <2>2, Zenon DEF LockUp, LockInv, LockTypeOK, Goto, OthersStay
  <2>4. WaitInv'
    BY <2>1, <2>2, <2>3, Zenon DEF LockInv, WaitInv, WaitOK, OthersStay
  <2>5. \A u \in Threads, l \in Locks :
          Possesses(u, l)' <=> Possesses(u, l) /\ ~(u = t /\ l = arg[t])
    BY <1>a, <2>1, <2>2, <2>3, Zenon DEF OthersStay, Possesses
  <2>6. value[arg[t]] = 0 /\ \A u \in Threads : u # t => ~Possesses(u, arg[t])
    BY <2>1, Zenon DEF LockInv, PossessInv, Possesses
  <2>7. value'[arg[t]] = 1 /\ \A l \in Locks : l # arg[t] => value'[l] = value[l]
    <3>1. value \in [Semas -> Nat] /\ Locks \subseteq Semas
      BY Zenon DEF LockInv, LockTypeOK, Semas
    <3>2. value'[arg[t]] = 1
      <4>1. value'[arg[t]] = value[arg[t]] + 1
        BY <2>1, <2>2, <3>1, Zenon
      <4> QED
        BY <2>6, <4>1, ZeroPlusOne, Zenon
    <3>3. \A l \in Locks : l # arg[t] => value'[l] = value[l]
      BY <2>2, <3>1, Zenon
    <3> QED
      BY <3>2, <3>3, Zenon
  <2>8. PossessInv'
    <3>1. SUFFICES ASSUME NEW l \in Locks
                   PROVE  /\ value'[l] \in {0, 1}
                          /\ \A u \in Threads : Possesses(u, l)' => value'[l] = 0
                          /\ \A u, v \in Threads : Possesses(u, l)' /\ Possesses(v, l)' => u = v
      BY Zenon DEF PossessInv
    <3>2. CASE l = arg[t]
      <4>1. \A u \in Threads : ~Possesses(u, l)'
        BY <2>5, <2>6, <3>2, Zenon
      <4> QED
        BY <2>7, <3>2, <4>1, Zenon
    <3>3. CASE l # arg[t]
      BY <2>5, <2>7, <3>3, Zenon DEF LockInv, PossessInv
    <3> QED
      BY <3>2, <3>3, Zenon
  <2>9. HolderInv'
    <3>1. \A u \in Threads, l \in Locks : Named(u, l)' <=> Named(u, l)
      BY <2>1, <2>2, <2>3, Zenon DEF Named, Releasing, OthersStay
    <3> QED
      BY <2>2, <3>1, Zenon DEF LockInv, HolderInv
  <2> QED
    BY <1>0, <2>2, <2>4, <2>8, <2>9, Zenon DEF LockInv
<1> HIDE DEF At, Free
<1> QED
  BY <1>1, <1>2, <1>3, <1>4, <1>5, <1>6, <1>7, <1>8, <1>9, <1>10, <1>11, <1>12, <1>13, <1>14, <1>15, <1>16, <1>17, <1>18, <1>19, <1>20, <1>21, <1>22, <1>23, <1>24, <1>25, <1>26, <1>27, <1>28, <1>29, <1>30, <1>31, ZenonT(40) DEF Next, Primitive, Call

-----------------------------------------------------------------------------
\* The locks of synch.c, their semaphores and their holders agree at all times.
THEOREM LockInvariant == Spec => []LockInv
<1>1. Init => LockInv
  BY LockInvInit, Zenon
<1>2. LockInv /\ [Next]_vars => LockInv'
  BY LockInvNext, Zenon
<1> QED
  BY <1>1, <1>2, PTL DEF Spec

\* A lock is held by at most one thread (synch.c, lock_init).
THEOREM MutualExclusionHolds == Spec => []MutualExclusion
<1>1. LockInv => MutualExclusion
  BY Zenon DEF LockInv, LockTypeOK, PossessInv, Possesses, MutualExclusion
<1> QED
  BY <1>1, LockInvariant, PTL

\* No ASSERT of lock_acquire, lock_try_acquire or lock_release fails.
THEOREM HolderAssertsHoldAlways == Spec => []HolderAssertsHold
<1>1. LockInv => HolderAssertsHold
  BY Zenon DEF LockInv, HolderAssertsHold
<1> QED
  BY <1>1, LockInvariant, PTL

-----------------------------------------------------------------------------
(* The refinement of Mutex.                                                *)

\* The code of t comes to hold l, that of no thread did; or no longer holds it.
Gains(t, l) ==
  (\A u \in Threads : l \notin held[u]) /\ held' = [held EXCEPT ![t] = @ \cup {l}]
Loses(t, l) == l \in held[t] /\ held' = [held EXCEPT ![t] = @ \ {l}]

\* A step lets one thread gain or lose one lock, or changes no holdings.
LEMMA HeldStep ==
  ASSUME LockInv, [Next]_vars
  PROVE  \/ held' = held
         \/ \E t \in Threads, l \in Locks : Gains(t, l) \/ Loses(t, l)
<1> USE DEF call
<1>1. ASSUME NEW t \in Threads,
             Retest(t) \/ check_priority(t) \/ ComparePriority(t) \/ Yield(t) \/ LockDown(t)
      PROVE  held' = held
  BY <1>1, Zenon DEF Retest, check_priority, ComparePriority, Yield, LockDown
<1>2. ASSUME NEW t \in Threads,
             \/ SetTryLock(t) \/ priority_donation(t) \/ RaiseHolder(t) \/ FollowChain(t)
             \/ EnlistDonor(t)
      PROVE  held' = held
  BY <1>2, Zenon DEF SetTryLock, priority_donation, RaiseHolder, FollowChain, EnlistDonor
<1>3. ASSUME NEW t \in Threads,
             \/ priority_recheck(t) \/ ClearHolder(t) \/ LockUp(t) \/ CreateUnblock(t)
             \/ CreateCompare(t) \/ thread_exit(t)
      PROVE  held' = held
  BY <1>3, Zenon DEF priority_recheck, ClearHolder, LockUp, CreateUnblock, CreateCompare, thread_exit
<1>4. ASSUME NEW t \in Threads, NEW s, sema_down(t, s) \/ sema_try_down(t, s) \/ sema_up(t, s)
      PROVE  held' = held
  BY <1>4, Zenon DEF sema_down, sema_try_down, sema_up
<1>5. ASSUME NEW t \in Threads, NEW l, lock_acquire(t, l) \/ lock_try_acquire(t, l)
      PROVE  held' = held
  BY <1>5, Zenon DEF lock_acquire, lock_try_acquire
<1>6. ASSUME NEW t \in Threads, NEW u, thread_create(t, u) \/ thread_set_priority(t, u)
      PROVE  held' = held
  BY <1>6, Zenon DEF thread_create, thread_set_priority
<1>7. ASSUME NEW s, DeviceInterrupt(s) \/ TimerInterrupt \/ IdleLoop \/ UNCHANGED vars
      PROVE  held' = held
  BY <1>7, Zenon DEF DeviceInterrupt, TimerInterrupt, IdleLoop, vars
<1>8. ASSUME NEW t \in Threads, Acquired(t) \/ TryAcquired(t)
      PROVE  \E l \in Locks : Gains(t, l)
  <2>1. arg[t] \in Locks /\ Possesses(t, arg[t]) /\ arg[t] \notin held[t]
    BY <1>8, Zenon DEF Acquired, TryAcquired, At, LockInv, LockTypeOK, WaitInv, WaitOK,
                Possesses, Owning, Waiting
  <2>2. \A u \in Threads : arg[t] \notin held[u]
    BY <2>1, Zenon DEF LockInv, PossessInv, Possesses
  <2> QED
    BY <1>8, <2>1, <2>2, Zenon DEF Acquired, TryAcquired, Gains
<1>9. ASSUME NEW t \in Threads, NEW l \in Locks, l \in held[t], ReleaseBody(t, l)
      PROVE  held' = held \/ Loses(t, l)
  BY <1>9, Zenon DEF ReleaseBody, Loses
<1>10. ASSUME NEW t \in Threads, NEW l \in Locks \cap Uses[t], lock_release(t, l)
       PROVE  held' = held \/ Loses(t, l)
  BY <1>9, <1>10, Zenon DEF lock_release
<1>11. ASSUME NEW t \in Threads, allocate_tid(t)
       PROVE  held' = held \/ Loses(t, tid_lock)
  BY <1>9, <1>11, LockAssumption, Zenon DEF allocate_tid
<1> QED
  BY <1>1, <1>2, <1>3, <1>4, <1>5, <1>6, <1>7, <1>8, <1>10, <1>11, LockAssumption, Zenon
  DEF Next, Primitive, Call

\* owner names the thread whose code holds the lock.
OwnerOK ==
  /\ owner \in [Locks -> Threads \cup {NULL}]
  /\ \A l \in Locks, t \in Threads : owner[l] = t <=> l \in held[t]

\* The owner that the abstract mutex sees is the thread that holds the lock.
LEMMA OwnerIs == LockInv => OwnerOK
<1> SUFFICES ASSUME LockInv PROVE OwnerOK
  BY Zenon
<1>1. ASSUME NEW l \in Locks
      PROVE  /\ owner[l] \in Threads \cup {NULL}
             /\ \A t \in Threads : owner[l] = t <=> l \in held[t]
  <2>1. \A t, u \in Threads : l \in held[t] /\ l \in held[u] => t = u
    BY Zenon DEF LockInv, PossessInv, Possesses
  <2>2. CASE \E t \in Threads : l \in held[t]
    <3>1. PICK o \in Threads : o = (CHOOSE t \in Threads : l \in held[t]) /\ l \in held[o]
      BY <2>2, Zenon
    <3>2. owner[l] = o
      BY <2>2, <3>1, Zenon DEF owner
    <3> QED
      BY <2>1, <3>1, <3>2, Zenon
  <2>3. CASE ~\E t \in Threads : l \in held[t]
    <3>1. owner[l] = NULL
      BY <2>3, Zenon DEF owner
    <3> QED
      BY <2>3, <3>1, NullAssumption, Zenon
  <2> QED
    BY <2>2, <2>3, Zenon
<1>2. owner = [l \in Locks |-> owner[l]]
  BY Zenon DEF owner
<1> QED
  BY <1>1, <1>2, Zenon DEF OwnerOK

\* After lock_init nobody owns a lock.
LEMMA MutexInit == Init => Abstract!Init
<1> SUFFICES ASSUME Init PROVE owner = [l \in Locks |-> NULL]
  BY Zenon DEF Abstract!Init
<1>1. \A t \in Threads : held[t] = {}
  BY Zenon DEF Init
<1> QED
  BY <1>1, Zenon DEF owner

\* A step of the locks is an Acquire, a Release or no step of the mutex.
LEMMA MutexNext ==
  ASSUME LockInv, OwnerOK, OwnerOK', [Next]_vars
  PROVE  [Abstract!Next]_owner
<1> USE NullAssumption DEF OwnerOK
<1>1. CASE held' = held
  <2>1. \A l \in Locks : owner'[l] = owner[l]
    BY <1>1
  <2>2. owner' = owner
    BY <2>1
  <2> QED
    BY <2>2, Zenon
<1>2. ASSUME NEW t \in Threads, NEW l \in Locks, Gains(t, l)
      PROVE  Abstract!Acquire(t, l) /\ owner'[l] # owner[l]
  <2>1. /\ l \in held'[t]
        /\ \A u \in Threads, m \in Locks : m # l => (m \in held'[u] <=> m \in held[u])
    BY <1>2, Zenon DEF Gains, LockInv, LockTypeOK
  <2>2. owner[l] = NULL /\ owner'[l] = t
    BY <1>2, <2>1, SMTT(30) DEF Gains
  <2>3. \A m \in Locks : m # l => owner'[m] = owner[m]
    BY <2>1
  <2>4. owner' = [owner EXCEPT ![l] = t]
    BY <2>2, <2>3
  <2> QED
    BY <2>2, <2>4, Zenon DEF Abstract!Acquire
<1>3. ASSUME NEW t \in Threads, NEW l \in Locks, Loses(t, l)
      PROVE  Abstract!Release(t, l) /\ owner'[l] # owner[l]
  <2>1. /\ \A u \in Threads : l \notin held'[u]
        /\ \A u \in Threads, m \in Locks : m # l => (m \in held'[u] <=> m \in held[u])
    <3>1. \A u \in Threads : u # t => l \notin held[u]
      BY <1>3, Zenon DEF Loses, LockInv, PossessInv, Possesses
    <3> QED
      BY <1>3, <3>1, Zenon DEF Loses, LockInv, LockTypeOK
  <2>2. owner[l] = t /\ owner'[l] = NULL
    BY <1>3, <2>1 DEF Loses
  <2>3. \A m \in Locks : m # l => owner'[m] = owner[m]
    BY <2>1
  <2>4. owner' = [owner EXCEPT ![l] = NULL]
    BY <2>2, <2>3
  <2> QED
    BY <2>2, <2>4, Zenon DEF Abstract!Release
<1> QED
  BY <1>1, <1>2, <1>3, HeldStep, Zenon DEF Abstract!Next

\* The locks implement mutexes: every behaviour of the kernel, with the thread
\* whose code holds a lock as its owner, is a behaviour of Mutex.
THEOREM MutexRefinement == Spec => ImplementsMutex
<1>1. LockInv => OwnerOK
  BY OwnerIs, Zenon
<1>2. LockInv /\ OwnerOK /\ OwnerOK' /\ [Next]_vars => [Abstract!Next]_owner
  BY MutexNext, Zenon
<1> QED
  BY <1>1, <1>2, MutexInit, LockInvariant, PTL DEF Spec, ImplementsMutex, Abstract!Spec

=============================================================================
