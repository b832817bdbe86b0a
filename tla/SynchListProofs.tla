--------------------------- MODULE SynchListProofs --------------------------
(***************************************************************************)
(* What the steps of Synch do to its lists and to the priorities, for any  *)
(* threads, locks, events and priorities: the run queue and the waiters of *)
(* every semaphore stay well formed, and so do the donations.              *)
(***************************************************************************)
EXTENDS Synch, SchedulerProofs

\* The threads that wait for s.
WaitSet(s) == {t \in Threads : status[t] = "blocked" /\ pc[t] = "retest" /\ arg[t] = s}

ListInv ==
  /\ QueueOK
  /\ waiters \in [Semas -> Seq(Threads)]
  /\ \A s \in Semas : Lists(waiters[s], WaitSet(s))

\* A thread is made by one thread_create at a time, and does not run before.
CreateInv ==
  /\ \A t \in Threads : creating[t] # NULL => status[creating[t]] = "unborn"
  /\ \A t, u \in Threads : creating[t] # NULL /\ creating[t] = creating[u] => t = u

-----------------------------------------------------------------------------
(* What the steps do to the lists.                                         *)

\* Only the running thread moves.
Unmoved == \A u \in Threads : status[u] # "running" => pc'[u] = pc[u] /\ arg'[u] = arg[u]

\* A step of the running thread moves no other.
LEMMA GotoUnmoved ==
  ASSUME LockTypeOK, QueueOK, NEW t \in Threads, current = t, NEW label, NEW x,
         Goto(t, label, x)
  PROVE  Unmoved /\ pc'[t] = label /\ arg'[t] = x
BY Zenon DEF LockTypeOK, QueueOK, Goto, Unmoved

\* Threads go between the run queue and the CPU.
Rotates ==
  \A t \in Threads : \/ status'[t] = status[t]
                     \/ {status[t], status'[t]} \subseteq {"ready", "running"}

\* No thread comes to life.
StillUnborn == \A u \in Threads : status[u] = "unborn" => status'[u] = "unborn"

\* A step that moves threads between the run queue and the CPU keeps the lists.
LEMMA RotateInv ==
  ASSUME ListInv, QueueOK', Rotates, Unmoved, waiters' = waiters
  PROVE  ListInv' /\ StillUnborn
<1>1. ASSUME NEW s \in Semas PROVE WaitSet(s)' = WaitSet(s)
  <2>1. ASSUME NEW u \in Threads
        PROVE  /\ status'[u] = "blocked" <=> status[u] = "blocked"
               /\ status[u] = "blocked" => pc'[u] = pc[u] /\ arg'[u] = arg[u]
    BY Zenon DEF Rotates, Unmoved
  <2> QED
    BY <2>1, Zenon DEF WaitSet
<1>2. StillUnborn
  BY Zenon DEF Rotates, StillUnborn
<1> QED
  BY <1>1, <1>2, Zenon DEF ListInv

\* A step that touches no list keeps the lists.
LEMMA CalmInv ==
  ASSUME ListInv, UNCHANGED <<cpu, waiters>>, Unmoved
  PROVE  ListInv' /\ StillUnborn
<1>1. QueueOK' /\ Rotates
  BY Zenon DEF ListInv, QueueOK, cpu, Rotates
<1> QED
  BY <1>1, RotateInv, Zenon

\* sema_down queues the running thread on the waiters and blocks it.
LEMMA WaitInsert ==
  ASSUME ListInv, NEW t \in Threads, current = t, NEW s \in Semas, thread_block,
         Unmoved, pc'[t] = "retest", arg'[t] = s,
         waiters' = [waiters EXCEPT ![s] = insert_by_priority(@, t, priority)]
  PROVE  ListInv' /\ StillUnborn
<1>1. /\ QueueOK' /\ status'[t] = "blocked" /\ status[t] = "running"
      /\ \A u \in Threads \ {t} : \/ status'[u] = status[u]
                                  \/ status[u] = "ready" /\ status'[u] = "running"
  BY BlockOK, Zenon DEF ListInv, QueueOK
<1>2. \A u \in Threads \ {t} :
        /\ status'[u] = "blocked" <=> status[u] = "blocked"
        /\ status[u] = "blocked" => pc'[u] = pc[u] /\ arg'[u] = arg[u]
  BY <1>1, Zenon DEF Unmoved
<1>3. t \notin WaitSet(s) /\ WaitSet(s)' = WaitSet(s) \cup {t}
  BY <1>1, <1>2 DEF WaitSet
<1>4. \A z \in Semas : z # s => WaitSet(z)' = WaitSet(z)
  BY <1>1, <1>2 DEF WaitSet
<1>5. PICK r : r = list_insert_ordered(waiters[s], t, comparePriority(priority))
  BY Zenon
<1>6. Lists(r, WaitSet(s) \cup {t}) /\ r \in Seq(Threads)
  BY <1>3, <1>5, ListsInsert DEF ListInv, Lists
<1>7. waiters' = [waiters EXCEPT ![s] = r]
  BY <1>5, Zenon DEF insert_by_priority
<1>8. waiters' \in [Semas -> Seq(Threads)]
  BY <1>6, <1>7, Zenon DEF ListInv
<1>9. ASSUME NEW z \in Semas PROVE Lists(waiters'[z], WaitSet(z)')
  <2>1. CASE z = s
    BY <1>3, <1>6, <1>7, <2>1, Zenon DEF ListInv
  <2>2. CASE z # s
    <3>1. waiters'[z] = waiters[z]
      BY <1>7, <2>2, Zenon DEF ListInv
    <3> QED
      BY <1>4, <2>2, <3>1, Zenon DEF ListInv
  <2> QED
    BY <2>1, <2>2, Zenon
<1>10. StillUnborn
  BY <1>1, Zenon DEF StillUnborn
<1> QED
  BY <1>1, <1>8, <1>9, <1>10, Zenon DEF ListInv

\* thread_exit leaves the thread blocked and on no list.
LEMMA ExitInv ==
  ASSUME ListInv, NEW t \in Threads, current = t, thread_block,
         Unmoved, pc'[t] = "exited", waiters' = waiters
  PROVE  ListInv' /\ StillUnborn
<1>1. /\ QueueOK' /\ status[t] = "running"
      /\ \A u \in Threads \ {t} : \/ status'[u] = status[u]
                                  \/ status[u] = "ready" /\ status'[u] = "running"
  BY BlockOK, Zenon DEF ListInv, QueueOK
<1>2. \A u \in Threads \ {t} :
        /\ status'[u] = "blocked" <=> status[u] = "blocked"
        /\ status[u] = "blocked" => pc'[u] = pc[u] /\ arg'[u] = arg[u]
  BY <1>1, Zenon DEF Unmoved
<1>3. \A s \in Semas : WaitSet(s)' = WaitSet(s)
  BY <1>1, <1>2, Zenon DEF WaitSet
<1>4. StillUnborn
  BY <1>1, Zenon DEF StillUnborn
<1> QED
  BY <1>1, <1>3, <1>4, Zenon DEF ListInv

\* sema_up takes a waiter of the highest priority off the waiters and makes it
\* ready, if there is one.
LEMMA UpStep ==
  ASSUME ListInv, NEW s \in Semas, priority \in [Threads -> Nat], Up(s)
  PROVE  \/ UNCHANGED <<waiters, cpu>>
         \/ \E h \in WaitSet(s), r \in Seq(Threads) :
              /\ \A u \in WaitSet(s) : priority[u] <= priority[h]
              /\ Lists(r, WaitSet(s) \ {h})
              /\ waiters' = [waiters EXCEPT ![s] = r]
              /\ thread_unblock(h)
<1>1. CASE waiters[s] = <<>>
  BY <1>1, Zenon DEF Up
<1>2. CASE waiters[s] # <<>>
  <2>1. PICK q : q = list_sort(waiters[s], comparePriority(priority))
    BY Zenon
  <2>2. Lists(q, WaitSet(s)) /\ Sorted(q, comparePriority(priority))
    BY <2>1, ListsSort, Zenon DEF ListInv
  <2>3. q # <<>>
    BY <1>2, <2>2, ListsEmpty, Zenon DEF ListInv
  <2>4. PICK h : h = Head(q) /\ h \in WaitSet(s) /\ Lists(Tail(q), WaitSet(s) \ {h})
    BY <2>2, <2>3, ListsTail, Zenon
  <2>5. Tail(q) \in Seq(Threads)
    BY <2>4, Zenon DEF Lists
  <2>6. waiters' = [waiters EXCEPT ![s] = Tail(q)] /\ thread_unblock(h)
    BY <1>2, <2>1, <2>4, Zenon DEF Up
  <2>7. ASSUME NEW u \in WaitSet(s) PROVE priority[u] <= priority[h]
    <3>1. q \in Seq(Threads) /\ Range(q) = WaitSet(s)
      BY <2>2, Zenon DEF Lists
    <3>2. <<u, h>> \notin comparePriority(priority)
      BY <2>2, <2>3, <2>4, <3>1, PriorityOrder, FrontOfSorted, Zenon DEF WeakOrder
    <3>3. h \in Threads /\ u \in Threads
      BY <2>4, Zenon DEF WaitSet
    <3> QED
      BY <3>2, <3>3 DEF comparePriority
  <2> QED
    BY <2>4, <2>5, <2>6, <2>7, Zenon
<1> QED
  BY <1>1, <1>2, Zenon

\* sema_up keeps the lists.
LEMMA UpInv ==
  ASSUME ListInv, NEW s \in Semas, priority \in [Threads -> Nat], Up(s), Unmoved
  PROVE  ListInv' /\ StillUnborn
<1>1. CASE UNCHANGED <<waiters, cpu>>
  BY <1>1, CalmInv, Zenon DEF cpu
<1>2. ASSUME NEW h \in WaitSet(s), NEW r \in Seq(Threads),
             Lists(r, WaitSet(s) \ {h}),
             waiters' = [waiters EXCEPT ![s] = r],
             thread_unblock(h)
      PROVE  ListInv' /\ StillUnborn
  <2>1. h \in Threads /\ status[h] = "blocked" /\ arg[h] = s
    BY Zenon DEF WaitSet
  <2>2. QueueOK' /\ status' = [status EXCEPT ![h] = "ready"]
    BY <1>2, <2>1, UnblockOK, Zenon DEF ListInv
  <2>3. status'[h] = "ready" /\ \A u \in Threads \ {h} : status'[u] = status[u]
    BY <2>1, <2>2, Zenon DEF ListInv, QueueOK
  <2>4. \A u \in Threads : status[u] = "blocked" => pc'[u] = pc[u] /\ arg'[u] = arg[u]
    BY Zenon DEF Unmoved
  <2>5. WaitSet(s)' = WaitSet(s) \ {h}
    BY <2>1, <2>3, <2>4, Zenon DEF WaitSet
  <2>6. \A z \in Semas : z # s => WaitSet(z)' = WaitSet(z)
    BY <2>1, <2>3, <2>4, Zenon DEF WaitSet
  <2>7. waiters' \in [Semas -> Seq(Threads)]
    BY <1>2, Zenon DEF ListInv
  <2>8. ASSUME NEW z \in Semas PROVE Lists(waiters'[z], WaitSet(z)')
    <3>1. CASE z = s
      BY <1>2, <2>5, <3>1, Zenon DEF ListInv
    <3>2. CASE z # s
      <4>1. waiters'[z] = waiters[z]
        BY <1>2, <3>2, Zenon DEF ListInv
      <4> QED
        BY <2>6, <3>2, <4>1, Zenon DEF ListInv
    <3> QED
      BY <3>1, <3>2, Zenon
  <2>9. StillUnborn
    BY <2>1, <2>3, Zenon DEF StillUnborn
  <2> QED
    BY <2>2, <2>7, <2>8, <2>9, Zenon DEF ListInv
<1> QED
  BY <1>1, <1>2, UpStep, Zenon

\* thread_create puts a thread that was on no list on the run queue.
LEMMA CreatedInv ==
  ASSUME ListInv, NEW u \in Threads, status[u] = "unborn", thread_unblock(u),
         Unmoved, waiters' = waiters
  PROVE  ListInv' /\ status' = [status EXCEPT ![u] = "ready"]
<1>1. QueueOK' /\ status' = [status EXCEPT ![u] = "ready"]
  BY UnblockOK, Zenon DEF ListInv
<1>2. status'[u] = "ready" /\ \A v \in Threads \ {u} : status'[v] = status[v]
  BY <1>1, Zenon DEF ListInv, QueueOK
<1>3. \A s \in Semas : WaitSet(s)' = WaitSet(s)
  BY <1>2, Zenon DEF WaitSet, Unmoved
<1> QED
  BY <1>1, <1>3, Zenon DEF ListInv

-----------------------------------------------------------------------------
(* The types of the priorities and of the locals.                          *)

Args == Semas \cup Threads \cup {NULL}
Donations == [cur : Threads \cup {NULL}, lock : Locks \cup {NULL},
              holder : Threads \cup {NULL}, val : Nat]

PrioType ==
  /\ priority \in [Threads -> Nat]
  /\ original_priority \in [Threads -> Nat]
  /\ donor \in [Threads -> Seq(Threads)]
  /\ try_lock \in [Threads -> Locks \cup {NULL}]

\* priority_donation writes through the holder that it has tested.
DonOK(t) ==
  /\ pc[t] = "donate" => don[t].cur \in Threads
  /\ pc[t] \in {"raise", "follow"} => don[t].lock \in Locks /\ don[t].holder \in Threads

DonInv ==
  /\ don \in [Threads -> Donations]
  /\ arg \in [Threads -> Args]
  /\ \A t \in Threads : DonOK(t)

\* t goes to a label outside priority_donation.
LEMMA DonMoves ==
  ASSUME DonInv, LockTypeOK, NEW t \in Threads, NEW label, NEW x \in Args, Goto(t, label, x),
         label \notin {"donate", "raise", "follow"}, don' = don
  PROVE  DonInv'
BY Zenon DEF DonInv, DonOK, LockTypeOK, Goto

\* Nobody moves.
LEMMA DonRests ==
  ASSUME DonInv, UNCHANGED <<pc, arg, don>>
  PROVE  DonInv'
BY Zenon DEF DonInv, DonOK

\* What the locals d are at a label.
DonAt(label, d) ==
  /\ d \in Donations
  /\ label = "donate" => d.cur \in Threads
  /\ label \in {"raise", "follow"} => d.lock \in Locks /\ d.holder \in Threads

\* t goes to a label inside priority_donation, with d as its locals.
LEMMA DonGoes ==
  ASSUME DonInv, LockTypeOK, NEW t \in Threads, NEW label, NEW x \in Args, Goto(t, label, x),
         NEW d, DonAt(label, d), don' = [don EXCEPT ![t] = d]
  PROVE  DonInv'
<1> USE DEF DonAt
<1>1. don' \in [Threads -> Donations] /\ don'[t] = d /\ pc'[t] = label
  BY Zenon DEF DonInv, LockTypeOK, Goto
<1>2. \A u \in Threads \ {t} : don'[u] = don[u] /\ pc'[u] = pc[u]
  BY Zenon DEF DonInv, LockTypeOK, Goto
<1>3. \A u \in Threads : DonOK(u)'
  BY <1>1, <1>2 DEF DonInv, DonOK
<1>4. arg' \in [Threads -> Args]
  BY Zenon DEF DonInv, Goto
<1> QED
  BY <1>1, <1>3, <1>4, Zenon DEF DonInv

\* The locals with which a turn of the loop of priority_donation starts.
LEMMA DonationType ==
  ASSUME NEW c \in Threads \cup {NULL}, NEW l \in Locks \cup {NULL}
  PROVE  DonAt("enlist", Donation(c, l)) /\ (c \in Threads => DonAt("donate", Donation(c, l)))
BY Zenon DEF Donation, Donations, DonAt

-----------------------------------------------------------------------------
(* Each step keeps the lists.                                              *)

\* What a step does that leaves the lists alone; at most it takes a unit.
Calm(t) ==
  /\ UNCHANGED <<cpu, waiters>>
  /\ current = t /\ pc[t] # "retest"
  /\ UNCHANGED <<pc, arg>> \/ \E label, x : label # "retest" /\ Goto(t, label, x)
  /\ value' = value \/ \E s : value[s] > 0 /\ value' = [value EXCEPT ![s] = @ - 1]

\* The steps of the primitives that touch no list of elem.
LEMMA CalmSteps ==
  ASSUME NEW t \in Threads
  PROVE  /\ check_priority(t) \/ ComparePriority(t) \/ CreateCompare(t) => Calm(t)
         /\ SetTryLock(t) \/ priority_donation(t) \/ RaiseHolder(t) => Calm(t)
         /\ FollowChain(t) \/ EnlistDonor(t) => Calm(t)
         /\ Acquired(t) \/ TryAcquired(t) \/ priority_recheck(t) \/ ClearHolder(t) => Calm(t)
         /\ allocate_tid(t) => Calm(t)
         /\ \A l : lock_acquire(t, l) \/ lock_try_acquire(t, l) => Calm(t)
         /\ \A l : lock_release(t, l) \/ thread_create(t, l) => Calm(t)
         /\ \A s : sema_try_down(t, s) => Calm(t)
<1> USE DEF Calm, At, Free, sema
<1>1. check_priority(t) \/ ComparePriority(t) \/ CreateCompare(t) => Calm(t)
  BY Zenon DEF check_priority, ComparePriority, CreateCompare
<1>2. SetTryLock(t) \/ priority_donation(t) \/ RaiseHolder(t) => Calm(t)
  BY Zenon DEF SetTryLock, priority_donation, RaiseHolder
<1>3. FollowChain(t) \/ EnlistDonor(t) => Calm(t)
  BY Zenon DEF FollowChain, EnlistDonor
<1>4. Acquired(t) \/ TryAcquired(t) \/ priority_recheck(t) \/ ClearHolder(t) => Calm(t)
  BY Zenon DEF Acquired, TryAcquired, priority_recheck, ClearHolder
<1>5. allocate_tid(t) => Calm(t)
  BY Zenon DEF allocate_tid, ReleaseBody
<1>6. \A l : lock_acquire(t, l) \/ lock_try_acquire(t, l) => Calm(t)
  BY Zenon DEF lock_acquire, lock_try_acquire, AcquireTest
<1>7. \A l : lock_release(t, l) \/ thread_create(t, l) => Calm(t)
  BY Zenon DEF lock_release, thread_create, ReleaseBody, AcquireTest
<1>8. \A s : sema_try_down(t, s) => Calm(t)
  BY Zenon DEF sema_try_down
<1> HIDE DEF Calm, At, Free, sema
<1> QED
  BY <1>1, <1>2, <1>3, <1>4, <1>5, <1>6, <1>7, <1>8, ZenonT(40)

\* A test of the loop of sema_down keeps the lists.
LEMMA DownInv ==
  ASSUME ListInv, LockTypeOK, NEW t \in Threads, current = t, NEW s \in Semas, DownOrBlock(t, s)
  PROVE  ListInv' /\ StillUnborn
<1>1. CASE /\ waiters' = [waiters EXCEPT ![s] = insert_by_priority(@, t, priority)]
           /\ thread_block /\ Goto(t, "retest", s)
  BY <1>1, GotoUnmoved, WaitInsert, Zenon DEF ListInv
<1>2. CASE /\ IF s \in Locks THEN Goto(t, "acquired", s) ELSE Goto(t, "run", NULL)
           /\ UNCHANGED <<waiters, cpu>>
  <2>1. Unmoved
    BY <1>2, GotoUnmoved, Zenon DEF ListInv
  <2> QED
    BY <1>2, <2>1, CalmInv, Zenon DEF cpu
<1> QED
  BY <1>1, <1>2, Zenon DEF DownOrBlock

\* Every step keeps the lists, and only thread_create brings a thread to life.
LEMMA ListInvNext ==
  ASSUME LockTypeOK, ListInv, CreateInv, PrioType, [Next]_vars
  PROVE  ListInv' /\ (StillUnborn \/ \E t \in Threads : CreateUnblock(t))
<1>1. ASSUME NEW t \in Threads, Calm(t) PROVE ListInv' /\ StillUnborn
  <2>1. Unmoved
    BY <1>1, GotoUnmoved, Zenon DEF Calm, Unmoved, ListInv
  <2> QED
    BY <1>1, <2>1, CalmInv, Zenon DEF Calm
<1>2. ASSUME NEW t \in Threads, Retest(t) \/ LockDown(t) PROVE ListInv' /\ StillUnborn
  <2>1. current = t /\ arg[t] \in Semas /\ DownOrBlock(t, arg[t])
    BY <1>2, Zenon DEF Retest, LockDown, At, LockTypeOK, Acquiring, Semas
  <2> QED
    BY <2>1, DownInv, Zenon
<1>3. ASSUME NEW t \in Threads, NEW s \in Events, sema_down(t, s) PROVE ListInv' /\ StillUnborn
  BY <1>3, DownInv, Zenon DEF sema_down, Free, At, Semas
<1>4. ASSUME NEW t \in Threads, LockUp(t) PROVE ListInv' /\ StillUnborn
  <2>1. current = t /\ arg[t] \in Semas /\ Up(arg[t]) /\ Goto(t, "check", NULL)
    BY <1>4, Zenon DEF LockUp, At, LockTypeOK, Owning, Semas
  <2>2. Unmoved
    BY <2>1, GotoUnmoved, Zenon DEF ListInv
  <2> QED
    BY <2>1, <2>2, UpInv, Zenon DEF PrioType
<1>5. ASSUME NEW t \in Threads, NEW s \in Events, sema_up(t, s) PROVE ListInv' /\ StillUnborn
  <2>1. current = t /\ s \in Semas /\ Up(s) /\ Goto(t, "check", NULL)
    BY <1>5, Zenon DEF sema_up, Free, At, Semas
  <2>2. Unmoved
    BY <2>1, GotoUnmoved, Zenon DEF ListInv
  <2> QED
    BY <2>1, <2>2, UpInv, Zenon DEF PrioType
<1>6. ASSUME NEW s \in Events, DeviceInterrupt(s) PROVE ListInv' /\ StillUnborn
  <2>1. s \in Semas /\ Up(s) /\ Unmoved
    BY <1>6, Zenon DEF DeviceInterrupt, Semas, Unmoved
  <2> QED
    BY <2>1, UpInv, Zenon DEF PrioType
<1>7. ASSUME NEW t \in Threads, Yield(t) PROVE ListInv' /\ StillUnborn
  <2>1. thread_yield(priority) /\ Goto(t, "run", NULL) /\ current = t /\ waiters' = waiters
    BY <1>7, Zenon DEF Yield, At, sema
  <2>2. Unmoved
    BY <2>1, GotoUnmoved, Zenon DEF ListInv
  <2>3. QueueOK' /\ Rotates
    BY <2>1, YieldOK, Zenon DEF ListInv, Rotates
  <2> QED
    BY <2>1, <2>2, <2>3, RotateInv, Zenon
<1>8. ASSUME NEW t \in Threads, NEW n \in NewPriorities, thread_set_priority(t, n) PROVE ListInv' /\ StillUnborn
  <2>1. UNCHANGED <<pc, arg, waiters>> /\ (thread_yield(priority') \/ UNCHANGED cpu)
    BY <1>8, Zenon DEF thread_set_priority, sema
  <2>2. Unmoved
    BY <2>1, Zenon DEF Unmoved
  <2>3. CASE thread_yield(priority')
    <3>1. QueueOK' /\ Rotates
      BY <2>3, YieldOK, Zenon DEF ListInv, Rotates
    <3> QED
      BY <2>1, <2>2, <3>1, RotateInv, Zenon
  <2>4. CASE UNCHANGED cpu
    BY <2>1, <2>2, <2>4, CalmInv, Zenon
  <2> QED
    BY <2>1, <2>3, <2>4, Zenon
<1>9. ASSUME TimerInterrupt \/ IdleLoop PROVE ListInv' /\ StillUnborn
  <2>1. UNCHANGED <<pc, arg, waiters>> /\ (thread_tick \/ idle)
    BY <1>9, Zenon DEF TimerInterrupt, IdleLoop, sema
  <2>2. Unmoved
    BY <2>1, Zenon DEF Unmoved
  <2>3. QueueOK' /\ Rotates
    BY <2>1, TickOK, IdleOK, Zenon DEF ListInv, Rotates
  <2> QED
    BY <2>1, <2>2, <2>3, RotateInv, Zenon
<1>10. ASSUME NEW t \in Threads, thread_exit(t) PROVE ListInv' /\ StillUnborn
  <2>1. current = t /\ thread_block /\ Goto(t, "exited", NULL) /\ waiters' = waiters
    BY <1>10, Zenon DEF thread_exit, Free, At, sema
  <2>2. Unmoved /\ pc'[t] = "exited"
    BY <2>1, GotoUnmoved, Zenon DEF ListInv
  <2> QED
    BY <2>1, <2>2, ExitInv, Zenon
<1>11. ASSUME NEW t \in Threads, CreateUnblock(t) PROVE ListInv'
  <2>1. /\ current = t /\ creating[t] \in Threads /\ status[creating[t]] = "unborn"
        /\ thread_unblock(creating[t]) /\ Goto(t, "created", creating[t]) /\ waiters' = waiters
    BY <1>11, Zenon DEF CreateUnblock, At, sema, LockTypeOK, CreateInv
  <2>2. Unmoved
    BY <2>1, GotoUnmoved, Zenon DEF ListInv
  <2> QED
    BY <2>1, <2>2, CreatedInv, Zenon
<1>12. ASSUME UNCHANGED vars PROVE ListInv' /\ StillUnborn
  BY <1>12, CalmInv, Zenon DEF vars, sema, Unmoved
<1>13. CASE Next
  BY <1>1, <1>2, <1>3, <1>4, <1>5, <1>6, <1>7, <1>8, <1>9, <1>10, <1>11, <1>13, CalmSteps, ZenonT(40)
  DEF Next, Primitive, Call
<1> QED
  BY <1>12, <1>13, Zenon

-----------------------------------------------------------------------------
(* Each step keeps the rest of the invariant.                              *)

\* Every step keeps the threads that are being made apart.
LEMMA CreateInvNext ==
  ASSUME LockTypeOK, ListInv, CreateInv, PrioType, [Next]_vars
  PROVE  CreateInv'
<1> USE NullAssumption DEF call
<1>1. ASSUME NEW t \in Threads, NEW u \in Threads, thread_create(t, u) PROVE CreateInv'
  <2>1. /\ creating' = [creating EXCEPT ![t] = u] /\ status' = status
        /\ status[u] = "unborn" /\ \A v \in Threads : creating[v] # u
    BY <1>1, Zenon DEF thread_create, cpu
  <2> QED
    BY <2>1, SMTT(30) DEF CreateInv, LockTypeOK
<1>2. ASSUME NEW t \in Threads, CreateUnblock(t) PROVE CreateInv'
  <2>1. /\ creating' = [creating EXCEPT ![t] = NULL] /\ creating[t] # NULL
        /\ status' = [status EXCEPT ![creating[t]] = "ready"]
    BY <1>2, Zenon DEF CreateUnblock, thread_unblock
  <2>2. creating'[t] = NULL /\ \A v \in Threads \ {t} : creating'[v] = creating[v]
    BY <2>1, Zenon DEF LockTypeOK
  <2>3. \A v \in Threads : v # creating[t] => status'[v] = status[v]
    BY <2>1, Zenon DEF ListInv, QueueOK
  <2> QED
    BY <2>1, <2>2, <2>3 DEF CreateInv, LockTypeOK
<1>3. ASSUME creating' = creating, StillUnborn PROVE CreateInv'
  BY <1>3 DEF CreateInv, LockTypeOK, StillUnborn
<1>4. \/ creating' = creating
      \/ \E t \in Threads : CreateUnblock(t) \/ \E u \in Threads : thread_create(t, u)
  <2>1. ASSUME NEW t \in Threads,
               \/ Retest(t) \/ check_priority(t) \/ ComparePriority(t) \/ Yield(t)
               \/ LockDown(t) \/ LockUp(t) \/ CreateCompare(t)
        PROVE  creating' = creating
    BY <2>1, Zenon DEF Retest, check_priority, ComparePriority, Yield, LockDown, LockUp, CreateCompare
  <2>2. ASSUME NEW t \in Threads,
               \/ SetTryLock(t) \/ priority_donation(t) \/ RaiseHolder(t) \/ FollowChain(t)
               \/ EnlistDonor(t) \/ priority_recheck(t) \/ ClearHolder(t)
        PROVE  creating' = creating
    BY <2>2, Zenon DEF SetTryLock, priority_donation, RaiseHolder, FollowChain, EnlistDonor,
                priority_recheck, ClearHolder
  <2>3. ASSUME NEW t \in Threads, NEW x,
               \/ Acquired(t) \/ TryAcquired(t) \/ allocate_tid(t) \/ lock_release(t, x)
               \/ lock_acquire(t, x) \/ lock_try_acquire(t, x)
        PROVE  creating' = creating
    BY <2>3, Zenon DEF Acquired, TryAcquired, allocate_tid, lock_release, ReleaseBody,
                lock_acquire, lock_try_acquire
  <2>4. ASSUME NEW t \in Threads, NEW x,
               \/ sema_down(t, x) \/ sema_try_down(t, x) \/ sema_up(t, x)
               \/ thread_set_priority(t, x) \/ thread_exit(t)
        PROVE  creating' = creating
    BY <2>4, Zenon DEF sema_down, sema_try_down, sema_up, thread_set_priority, thread_exit
  <2>5. ASSUME NEW x, DeviceInterrupt(x) \/ TimerInterrupt \/ IdleLoop \/ UNCHANGED vars
        PROVE  creating' = creating
    BY <2>5, Zenon DEF DeviceInterrupt, TimerInterrupt, IdleLoop, vars
  <2> QED
    BY <2>1, <2>2, <2>3, <2>4, <2>5, Zenon DEF Next, Primitive, Call
<1> QED
  BY <1>1, <1>2, <1>3, <1>4, ListInvNext, Zenon

\* Every step keeps the types of the priorities and of the donor lists.
LEMMA PrioTypeNext ==
  ASSUME LockTypeOK, DonInv, PrioType, [Next]_vars
  PROVE  PrioType'
<1> USE DEF PrioType
<1>1. ASSUME UNCHANGED <<priority, original_priority, donor, try_lock>> PROVE PrioType'
  BY <1>1, Zenon
<1>2. ASSUME NEW t \in Threads, SetTryLock(t) \/ Acquired(t) PROVE PrioType'
  <2>1. UNCHANGED <<priority, original_priority, donor>>
    BY <1>2, Zenon DEF SetTryLock, Acquired
  <2>2. try_lock' = [try_lock EXCEPT ![t] = arg[t]] \/ try_lock' = [try_lock EXCEPT ![t] = NULL]
    BY <1>2, Zenon DEF SetTryLock, Acquired
  <2>3. SetTryLock(t) => arg[t] \in Locks
    BY Zenon DEF SetTryLock, At, LockTypeOK, Acquiring
  <2>4. try_lock' \in [Threads -> Locks \cup {NULL}]
    BY <1>2, <2>3, Zenon DEF SetTryLock, Acquired
  <2> QED
    BY <2>1, <2>4, Zenon
<1>3. ASSUME NEW t \in Threads, RaiseHolder(t) PROVE PrioType'
  <2>1. don[t].val \in Nat
    BY Zenon DEF DonInv, Donations
  <2> QED
    BY <1>3, <2>1, Zenon DEF RaiseHolder
<1>4. ASSUME NEW t \in Threads, EnlistDonor(t) PROVE PrioType'
  <2>1. UNCHANGED <<priority, original_priority, try_lock>>
    BY <1>4, Zenon DEF EnlistDonor
  <2>2. CASE donor' = donor
    BY <2>1, <2>2, Zenon
  <2>3. CASE donor' # donor
    <3>1. PICK h \in Threads : donor' = [donor EXCEPT ![h] = list_insert_ordered(@, t, donor_order)]
      BY <1>4, <2>3, Zenon DEF EnlistDonor, At, LockTypeOK, Acquiring
    <3>2. PICK r : r = list_insert_ordered(donor[h], t, donor_order)
      BY Zenon
    <3>3. r \in Seq(Threads)
      BY <3>2, InsertContent, Zenon
    <3> QED
      BY <2>1, <3>1, <3>2, <3>3, Zenon
  <2> QED
    BY <2>2, <2>3, Zenon
<1>5. ASSUME NEW t \in Threads, NEW l, ReleaseBody(t, l) PROVE PrioType'
  <2>1. UNCHANGED <<priority, original_priority, try_lock>>
    BY <1>5, Zenon DEF ReleaseBody
  <2>2. PICK keep, r : /\ r = RemoveExcept(donor[t], keep)
                       /\ donor' = donor \/ donor' = [donor EXCEPT ![t] = r]
    BY <1>5, Zenon DEF ReleaseBody
  <2>3. r \in Seq(Threads)
    BY <2>2, RemoveContent, Zenon
  <2> QED
    BY <2>1, <2>2, <2>3, Zenon
<1>6. ASSUME NEW t \in Threads, priority_recheck(t) PROVE PrioType'
  <2>1. donor[t] # <<>> => Head(donor[t]) \in Threads
    BY TailElements, Zenon
  <2>2. PICK v \in Nat : priority' = [priority EXCEPT ![t] = v]
    BY <1>6, <2>1, Zenon DEF priority_recheck
  <2> QED
    BY <1>6, <2>2 DEF priority_recheck
<1>7. ASSUME NEW t \in Threads, NEW n \in NewPriorities, thread_set_priority(t, n) PROVE PrioType'
  <2>1. n \in Nat
    BY DataAssumption, Zenon
  <2> QED
    BY <1>7, <2>1, Zenon DEF thread_set_priority
<1> HIDE DEF PrioType
<1> USE DEF prio
<1>8. ASSUME NEW t \in Threads,
             \/ Retest(t) \/ check_priority(t) \/ ComparePriority(t) \/ Yield(t)
             \/ LockDown(t) \/ LockUp(t) \/ CreateCompare(t)
      PROVE  PrioType'
  BY <1>1, <1>8, Zenon
  DEF Retest, check_priority, ComparePriority, Yield, LockDown, LockUp, CreateCompare
<1>9. ASSUME NEW t \in Threads,
             \/ priority_donation(t) \/ FollowChain(t) \/ TryAcquired(t) \/ ClearHolder(t)
             \/ CreateUnblock(t) \/ thread_exit(t)
      PROVE  PrioType'
  BY <1>1, <1>9, Zenon
  DEF priority_donation, FollowChain, TryAcquired, ClearHolder, CreateUnblock, thread_exit
<1>10. ASSUME NEW t \in Threads, NEW x,
              \/ lock_acquire(t, x) \/ lock_try_acquire(t, x) \/ thread_create(t, x)
              \/ sema_down(t, x) \/ sema_try_down(t, x) \/ sema_up(t, x)
       PROVE  PrioType'
  BY <1>1, <1>10, Zenon
  DEF lock_acquire, lock_try_acquire, thread_create, sema_down, sema_try_down, sema_up
<1>11. ASSUME NEW x, DeviceInterrupt(x) \/ TimerInterrupt \/ IdleLoop \/ UNCHANGED vars
       PROVE  PrioType'
  BY <1>1, <1>11, Zenon DEF DeviceInterrupt, TimerInterrupt, IdleLoop, vars
<1>12. ASSUME NEW t \in Threads, NEW l, lock_release(t, l) \/ allocate_tid(t) PROVE PrioType'
  BY <1>5, <1>12, Zenon DEF lock_release, allocate_tid
<1> QED
  BY <1>2, <1>3, <1>4, <1>6, <1>7, <1>8, <1>9, <1>10, <1>11, <1>12, ZenonT(40) DEF Next, Primitive, Call

\* The locals of priority_donation keep their meaning.
LEMMA DonInvNext ==
  ASSUME LockTypeOK, QueueOK, PrioType, DonInv, [Next]_vars
  PROVE  DonInv'
<1>1. ASSUME NEW t \in Threads, don' = don,
             UNCHANGED <<pc, arg>> \/ \E label : \E x \in Args :
               Goto(t, label, x) /\ label \notin {"donate", "raise", "follow"}
      PROVE  DonInv'
  BY <1>1, DonMoves, DonRests, Zenon
<1>2. NULL \in Args /\ Locks \subseteq Args /\ Semas \subseteq Args /\ Threads \subseteq Args
      /\ tid_lock \in Args
  BY LockAssumption, Zenon DEF Args, Semas
<1>3. \A t \in Threads : arg[t] \in Args
  BY Zenon DEF DonInv
<1> USE DEF prio
<1>4. ASSUME NEW t \in Threads, NEW s \in Semas, DownOrBlock(t, s), don' = don PROVE DonInv'
  BY <1>1, <1>2, <1>4 DEF DownOrBlock
<1>5. ASSUME NEW t \in Threads, Retest(t) \/ LockDown(t) PROVE DonInv'
  <2>1. arg[t] \in Semas
    BY <1>5, Zenon DEF Retest, LockDown, At, LockTypeOK, Acquiring, Semas
  <2> QED
    BY <1>4, <1>5, <2>1, Zenon DEF Retest, LockDown
<1>6. ASSUME NEW t \in Threads, NEW s \in Events,
             sema_down(t, s) \/ sema_try_down(t, s) \/ sema_up(t, s)
      PROVE  DonInv'
  BY <1>1, <1>2, <1>4, <1>6 DEF sema_down, sema_try_down, sema_up, Semas
<1>7. ASSUME NEW t \in Threads, check_priority(t) PROVE DonInv'
  <2>1. ready_list # <<>> => Head(ready_list) \in Threads
    BY TailElements, Zenon DEF QueueOK, Lists
  <2>2. PICK x \in Args : Goto(t, "compare", x) /\ don' = don
    BY <1>2, <1>7, <2>1, ZenonT(40) DEF check_priority
  <2> QED
    BY <1>1, <2>2, SMTT(30)
<1>8. ASSUME NEW t \in Threads,
             ComparePriority(t) \/ Yield(t) \/ CreateCompare(t) \/ LockUp(t) \/ thread_exit(t)
      PROVE  DonInv'
  BY <1>1, <1>2, <1>8, SMTT(30) DEF ComparePriority, Yield, CreateCompare, LockUp, thread_exit
<1>9. ASSUME NEW t \in Threads,
             Acquired(t) \/ TryAcquired(t) \/ priority_recheck(t) \/ ClearHolder(t)
      PROVE  DonInv'
  BY <1>1, <1>2, <1>3, <1>9, SMTT(30) DEF Acquired, TryAcquired, priority_recheck, ClearHolder
<1>10. ASSUME NEW t \in Threads, CreateUnblock(t) PROVE DonInv'
  <2>1. creating[t] \in Args
    BY <1>2, Zenon DEF LockTypeOK
  <2> QED
    BY <1>1, <1>10, <2>1, SMTT(30) DEF CreateUnblock
<1>11. ASSUME NEW t \in Threads, NEW l \in Locks, ReleaseBody(t, l) PROVE DonInv'
  BY <1>1, <1>2, <1>11 DEF ReleaseBody
<1>12. ASSUME NEW t \in Threads, allocate_tid(t) PROVE DonInv'
  BY <1>11, <1>12, LockAssumption, ZenonT(40) DEF allocate_tid
<1>13. ASSUME NEW t \in Threads, NEW l \in Locks, AcquireTest(t, l), don' = don PROVE DonInv'
  BY <1>1, <1>2, <1>13, SMTT(30) DEF AcquireTest
<1>14. ASSUME NEW t \in Threads, NEW u \in Threads, thread_create(t, u) PROVE DonInv'
  BY <1>13, <1>14, LockAssumption, ZenonT(40) DEF thread_create
<1>15. ASSUME NEW t \in Threads, NEW l \in Locks,
              lock_acquire(t, l) \/ lock_try_acquire(t, l) \/ lock_release(t, l)
       PROVE  DonInv'
  BY <1>1, <1>2, <1>11, <1>13, <1>15, SMTT(30) DEF lock_acquire, lock_try_acquire, lock_release
<1>16. ASSUME NEW t \in Threads, EnlistDonor(t) PROVE DonInv'
  <2>1. don' = don /\ (UNCHANGED <<pc, arg>> \/ Goto(t, "down", arg[t]))
    BY <1>16, Zenon DEF EnlistDonor
  <2> QED
    BY <1>1, <1>3, <2>1, SMTT(30)
<1>17. ASSUME NEW x, \/ DeviceInterrupt(x) \/ TimerInterrupt \/ IdleLoop \/ UNCHANGED vars
                     \/ \E t \in Threads : thread_set_priority(t, x)
       PROVE  DonInv'
  <2>1. UNCHANGED <<pc, arg, don>>
    BY <1>17, Zenon DEF DeviceInterrupt, TimerInterrupt, IdleLoop, vars, thread_set_priority
  <2> QED
    BY <2>1, DonRests, Zenon
<1>18. ASSUME NEW t \in Threads, SetTryLock(t) PROVE DonInv'
  <2>1. arg[t] \in Locks
    BY <1>18, Zenon DEF SetTryLock, At, LockTypeOK, Acquiring
  <2>2. DonAt("donate", Donation(t, arg[t]))
    BY <2>1, DonationType, Zenon
  <2>3. Goto(t, "donate", arg[t]) /\ don' = [don EXCEPT ![t] = Donation(t, arg[t])]
    BY <1>18, Zenon DEF SetTryLock
  <2> QED
    BY <1>3, <2>2, <2>3, DonGoes, Zenon
<1>19. ASSUME NEW t \in Threads, FollowChain(t) PROVE DonInv'
  <2>1. PICK h \in {don[t].holder, holder[don[t].lock]} :
          \/ UNCHANGED <<pc, arg, don>>
          \/ /\ h # NULL
             /\ don' = [don EXCEPT ![t] = Donation(h, try_lock[h])]
             /\ Goto(t, "donate", arg[t])
    BY <1>19, Zenon DEF FollowChain
  <2>2. don[t].holder \in Threads /\ don[t].lock \in Locks
    BY <1>19, Zenon DEF FollowChain, At, DonInv, DonOK
  <2>3. h \in Threads \cup {NULL}
    BY <2>1, <2>2, SMTT(30) DEF LockTypeOK
  <2>4. CASE UNCHANGED <<pc, arg, don>>
    BY <2>4, DonRests, Zenon
  <2>5. CASE h # NULL /\ don' = [don EXCEPT ![t] = Donation(h, try_lock[h])]
             /\ Goto(t, "donate", arg[t])
    <3>1. h \in Threads /\ try_lock[h] \in Locks \cup {NULL}
      BY <2>3, <2>5, Zenon DEF PrioType
    <3>2. DonAt("donate", Donation(h, try_lock[h]))
      BY <3>1, DonationType, Zenon
    <3> QED
      BY <1>3, <2>5, <3>1, <3>2, DonGoes, ZenonT(40)
  <2> QED
    BY <2>1, <2>4, <2>5, Zenon
<1>20. ASSUME NEW t \in Threads, RaiseHolder(t) PROVE DonInv'
  <2>1. don' = don /\ Goto(t, "follow", arg[t]) /\ pc[t] = "raise"
    BY <1>20, Zenon DEF RaiseHolder, At
  <2>2. don' = [don EXCEPT ![t] = don[t]]
    BY <2>1, Zenon DEF DonInv
  <2>3. DonAt("follow", don[t])
    BY <2>1, Zenon DEF DonInv, DonOK, DonAt
  <2> QED
    BY <1>3, <2>1, <2>2, <2>3, DonGoes, ZenonT(40)
<1>21. ASSUME NEW t \in Threads, priority_donation(t) PROVE DonInv'
  <2>1. PICK h : h = IF don[t].lock = NULL THEN NULL ELSE holder[don[t].lock]
    BY Zenon
  <2>2. don[t] \in Donations /\ don[t].cur \in Threads
    BY <1>21, Zenon DEF priority_donation, At, DonInv, DonOK
  <2>3. h \in Threads \cup {NULL} /\ (h # NULL => don[t].lock \in Locks)
    BY <2>1, <2>2, Zenon DEF LockTypeOK, Donations
  <2>4. CASE /\ h # NULL /\ Goto(t, "raise", arg[t])
             /\ don' = [don EXCEPT ![t].holder = h, ![t].val = priority[don[t].cur]]
    <3>1. PICK d : d = [don[t] EXCEPT !.holder = h, !.val = priority[don[t].cur]]
      BY Zenon
    <3>2. don' = [don EXCEPT ![t] = d]
      BY <2>4, <3>1, Zenon DEF DonInv
    <3>3. DonAt("raise", d)
      BY <2>2, <2>3, <2>4, <3>1, Zenon DEF Donations, PrioType, DonAt
    <3> QED
      BY <1>3, <2>4, <3>2, <3>3, DonGoes, ZenonT(40)
  <2>5. CASE don' = [don EXCEPT ![t] = Donation(NULL, NULL)] /\ Goto(t, "enlist", arg[t])
    <3>1. DonAt("enlist", Donation(NULL, NULL))
      BY DonationType, Zenon
    <3> QED
      BY <1>3, <2>5, <3>1, DonGoes, Zenon
  <2> QED
    BY <1>21, <2>1, <2>4, <2>5 DEF priority_donation
<1> QED
  BY <1>5, <1>6, <1>7, <1>8, <1>9, <1>10, <1>12, <1>14, <1>15, <1>16, <1>17, <1>18,
     <1>19, <1>20, <1>21, ZenonT(40)
  DEF Next, Primitive, Call

=============================================================================
