------------------------------- MODULE Monitor -------------------------------
(***************************************************************************)
(* A lock and a condition variable as their users see them: waiting gives  *)
(* up the lock and joins the waiters in one step, and a signal takes one   *)
(* of the waiters with the highest priority out.                           *)
(***************************************************************************)
EXTENDS Naturals

CONSTANTS Threads, prio, NoThread

VARIABLES holder, waiting, woken

vars == <<holder, waiting, woken>>

Init == holder = NoThread /\ waiting = {} /\ woken = {}

\* By a thread that wants the lock, or by one that was signalled.
Enter(t) ==
  /\ holder = NoThread /\ t \notin waiting
  /\ holder' = t /\ woken' = woken \ {t}
  /\ UNCHANGED waiting

Leave(t) ==
  /\ holder = t /\ holder' = NoThread
  /\ UNCHANGED <<waiting, woken>>

Wait(t) ==
  /\ holder = t /\ holder' = NoThread
  /\ waiting' = waiting \cup {t}
  /\ UNCHANGED woken

Signal(t) ==
  /\ holder = t
  /\ \E w \in waiting :
       /\ \A u \in waiting : prio[u] <= prio[w]
       /\ waiting' = waiting \ {w} /\ woken' = woken \cup {w}
  /\ UNCHANGED holder

Next == \E t \in Threads : Enter(t) \/ Leave(t) \/ Wait(t) \/ Signal(t)

Spec == Init /\ [][Next]_vars
=============================================================================
