------------------------------- MODULE Palloc -------------------------------
(***************************************************************************)
(* The page allocator, threads/palloc.c, on one pool, bit by bit of its    *)
(* used_map (lib/kernel/bitmap.c).  Allocation scans the map for a group   *)
(* of free pages and marks it, under the pool's lock; freeing takes no     *)
(* lock, since the scheduler frees the page of a dead thread with          *)
(* interrupts off: it clears bits while another thread is scanning.        *)
(***************************************************************************)
EXTENDS Integers

CONSTANTS Procs,
          PageCnt,       \* pages in the pool
          Counts,        \* group sizes asked for
          Nobody

PoolConstants == PageCnt \in Nat /\ Counts \subseteq Nat \ {0} /\ Nobody \notin Procs

VARIABLES used_map, lock,
          stage, cnt, i, j,    \* a call: its group size, the group and bit it looks at
          owned,            \* groups a process has been given: first page and size
          room              \* was there a group when the scan began?

pool == <<used_map, lock, stage, cnt, i, j, owned, room>>

PoolPages == 0 .. PageCnt - 1

PoolInit == /\ used_map = [b \in PoolPages |-> FALSE]
        /\ lock = Nobody
        /\ stage = [p \in Procs |-> "idle"]
        /\ cnt = [p \in Procs |-> 0]
        /\ i = [p \in Procs |-> 0] /\ j = [p \in Procs |-> 0]
        /\ owned = [p \in Procs |-> {}]
        /\ room = [p \in Procs |-> FALSE]

Group(start, n) == start .. start + n - 1
FreeGroup(n) == \E s \in 0 .. PageCnt - n : \A b \in Group(s, n) : ~used_map[b]

Enter(p, l) == stage' = [stage EXCEPT ![p] = l]

(* A call's locals are gone when it returns.                               *)
Return(p) == /\ Enter(p, "idle")
             /\ cnt' = [cnt EXCEPT ![p] = 0] /\ i' = [i EXCEPT ![p] = 0]
             /\ j' = [j EXCEPT ![p] = 0] /\ room' = [room EXCEPT ![p] = FALSE]

palloc_get_multiple(p) == /\ stage[p] = "idle"
                          /\ \E n \in Counts : cnt' = [cnt EXCEPT ![p] = n]
                          /\ Enter(p, "lock")
                          /\ UNCHANGED <<used_map, lock, i, j, owned, room>>

(* Slip: the scan starts without the lock.                                 *)
lock_acquire_not(p) == /\ stage[p] = "lock"
                       /\ lock' = p /\ Enter(p, "scan")
                       /\ i' = [i EXCEPT ![p] = 0] /\ j' = [j EXCEPT ![p] = 0]
                       /\ room' = [room EXCEPT ![p] = FreeGroup(cnt[p])]
                       /\ UNCHANGED <<used_map, cnt, owned>>

lock_acquire(p) == /\ stage[p] = "lock" /\ lock = Nobody
                   /\ lock' = p /\ Enter(p, "scan")
                   /\ i' = [i EXCEPT ![p] = 0] /\ j' = [j EXCEPT ![p] = 0]
                   /\ room' = [room EXCEPT ![p] = FreeGroup(cnt[p])]
                   /\ UNCHANGED <<used_map, cnt, owned>>

(* Slip: the last group of the pool is not tried.                          *)
InMap_last(p) == i[p] < PageCnt - cnt[p]

(* bitmap_scan: i <= last.                                                 *)
InMap(p) == i[p] <= PageCnt - cnt[p]

(* bitmap_contains looks at one bit of the group at i: a used one moves    *)
(* the scan to the next group.                                             *)
bitmap_test(p) == /\ stage[p] = "scan" /\ InMap(p) /\ j[p] < cnt[p]
                  /\ IF used_map[i[p] + j[p]]
                     THEN i' = [i EXCEPT ![p] = @ + 1] /\ j' = [j EXCEPT ![p] = 0]
                     ELSE j' = [j EXCEPT ![p] = @ + 1] /\ UNCHANGED i
                  /\ UNCHANGED <<used_map, lock, stage, cnt, owned, room>>

BITMAP_ERROR(p) == /\ stage[p] = "scan" /\ ~InMap(p)
                   /\ lock' = Nobody /\ Enter(p, "null")
                   /\ UNCHANGED <<used_map, cnt, i, j, owned, room>>

found(p) == /\ stage[p] = "scan" /\ InMap(p) /\ j[p] = cnt[p]
            /\ j' = [j EXCEPT ![p] = 0] /\ Enter(p, "mark")
            /\ UNCHANGED <<used_map, lock, cnt, i, owned, room>>

(* Slip: the last page of the group is not marked.                         *)
bitmap_mark_short(p) == /\ stage[p] = "mark" /\ j[p] < cnt[p]
                        /\ used_map' = IF j[p] = cnt[p] - 1 THEN used_map
                                       ELSE [used_map EXCEPT ![i[p] + j[p]] = TRUE]
                        /\ j' = [j EXCEPT ![p] = @ + 1]
                        /\ UNCHANGED <<lock, stage, cnt, i, owned, room>>

(* bitmap_set_multiple (idx, cnt, true), one atomic OR for every bit.      *)
bitmap_mark(p) == /\ stage[p] = "mark" /\ j[p] < cnt[p]
                  /\ used_map' = [used_map EXCEPT ![i[p] + j[p]] = TRUE]
                  /\ j' = [j EXCEPT ![p] = @ + 1]
                  /\ UNCHANGED <<lock, stage, cnt, i, owned, room>>

lock_release(p) == /\ stage[p] = "mark" /\ j[p] = cnt[p]
                   /\ lock' = Nobody /\ Return(p)
                   /\ owned' = [owned EXCEPT ![p] = @ \cup {<<i[p], cnt[p]>>}]
                   /\ UNCHANGED used_map

null_returned(p) == /\ stage[p] = "null"
                    /\ Return(p)
                    /\ UNCHANGED <<used_map, lock, owned>>

(* A process gives a group back: it must not use the pages from here on.   *)
palloc_free_multiple(p) ==
  /\ stage[p] = "idle"
  /\ \E g \in owned[p] :
       /\ owned' = [owned EXCEPT ![p] = @ \ {g}]
       /\ i' = [i EXCEPT ![p] = g[1]] /\ cnt' = [cnt EXCEPT ![p] = g[2]]
  /\ j' = [j EXCEPT ![p] = 0] /\ Enter(p, "free")
  /\ UNCHANGED <<used_map, lock, room>>

bitmap_reset(p) == /\ stage[p] = "free" /\ j[p] < cnt[p]
                   /\ used_map' = [used_map EXCEPT ![i[p] + j[p]] = FALSE]
                   /\ j' = [j EXCEPT ![p] = @ + 1]
                   /\ UNCHANGED <<lock, stage, cnt, i, owned, room>>

freed(p) == /\ stage[p] = "free" /\ j[p] = cnt[p]
            /\ Return(p)
            /\ UNCHANGED <<used_map, lock, owned>>

PoolNext == \E p \in Procs :
          \/ palloc_get_multiple(p) \/ lock_acquire(p) \/ bitmap_test(p)
          \/ BITMAP_ERROR(p) \/ found(p) \/ bitmap_mark(p) \/ lock_release(p)
          \/ null_returned(p) \/ palloc_free_multiple(p) \/ bitmap_reset(p)
          \/ freed(p)

PoolSpec == PoolInit /\ [][PoolNext]_pool
-----------------------------------------------------------------------------
PagesOf(g) == Group(g[1], g[2])
Held(p) == UNION {PagesOf(g) : g \in owned[p]}

(* No page is given to two processes, or twice to one: the unlocked frees  *)
(* can make a scan miss a page but never take one that is in use.          *)
PagesDisjoint == /\ \A p, q \in Procs : p # q => Held(p) \cap Held(q) = {}
                 /\ \A p \in Procs : \A g, h \in owned[p] :
                      g # h => PagesOf(g) \cap PagesOf(h) = {}

(* The assertion of palloc_free_multiple: every page of a group that is    *)
(* handed out, or about to be freed, is marked used; and when no call is   *)
(* under way no other page is.                                             *)
OwnedMarked == /\ \A p \in Procs :
                    /\ \A b \in Held(p) : used_map[b]
                    /\ stage[p] = "free" => \A b \in Group(i[p] + j[p], cnt[p] - j[p]) : used_map[b]
               /\ (\A p \in Procs : stage[p] = "idle") =>
                    \A b \in PoolPages : used_map[b] => \E p \in Procs : b \in Held(p)

(* "If too few pages are available, returns a null pointer"                *)
(* (palloc_get_multiple): only then, even when pages are freed under the   *)
(* scan.                                                                   *)
NullOnlyIfFull == \A p \in Procs : stage[p] = "null" => ~room[p]

PagesExclusive == PagesDisjoint /\ OwnedMarked /\ NullOnlyIfFull
=============================================================================
