------------------------------- MODULE Mutex -------------------------------
(***************************************************************************)
(* What the locks of threads/synch.c promise to the code that uses them:   *)
(* a lock goes from free to one owner and from that owner back to free.    *)
(***************************************************************************)
CONSTANTS Threads, Locks, NULL

VARIABLE owner

Init == owner = [l \in Locks |-> NULL]

Acquire(t, l) ==
  /\ owner[l] = NULL
  /\ owner' = [owner EXCEPT ![l] = t]

Release(t, l) ==
  /\ owner[l] = t
  /\ owner' = [owner EXCEPT ![l] = NULL]

\* A step changes the owner of a lock, from or to NULL.
Next ==
  \E l \in Locks :
    /\ owner'[l] # owner[l]
    /\ \E t \in Threads : Acquire(t, l) \/ Release(t, l)

Spec == Init /\ [][Next]_owner
=============================================================================
