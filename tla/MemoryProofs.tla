---------------------------- MODULE MemoryProofs ----------------------------
(***************************************************************************)
(* Memory, for any processes, threads and pools.  The page allocator: the  *)
(* groups that palloc_get_multiple finds in the bitmap, which others clear *)
(* without the pool's lock.  Address spaces: the pages that load and       *)
(* install_page take and process_exit gives back, the page tables and the  *)
(* TLB, while the timer switches between threads.                          *)
(***************************************************************************)
EXTENDS Integers, Pagedir, Palloc, TLAPS

-----------------------------------------------------------------------------
(* The page allocator.                                                     *)

PoolLabels == {"idle", "lock", "scan", "mark", "null", "free"}
Groups == {g \in Nat \X (Nat \ {0}) : g[1] + g[2] <= PageCnt}

PoolType ==
  /\ used_map \in [PoolPages -> BOOLEAN]
  /\ lock \in Procs \cup {Nobody}
  /\ stage \in [Procs -> PoolLabels]
  /\ cnt \in [Procs -> Nat] /\ i \in [Procs -> Nat] /\ j \in [Procs -> Nat]
  /\ owned \in [Procs -> SUBSET Groups]
  /\ room \in [Procs -> BOOLEAN]

\* Where a call is in the map.
Inside(p) ==
  /\ stage[p] \in {"scan", "mark"} <=> lock = p
  /\ stage[p] \in {"lock", "scan", "mark"} => cnt[p] > 0
  /\ stage[p] \in {"scan", "mark", "free"} => j[p] <= cnt[p]
  /\ stage[p] \in {"mark", "free"} => i[p] + cnt[p] <= PageCnt

\* A page that p has in a group, is about to free or has marked.
Claims(p, b) ==
  \/ \E g \in owned[p] : b \in PagesOf(g)
  \/ stage[p] = "free" /\ b \in Group(i[p] + j[p], cnt[p] - j[p])
  \/ stage[p] = "mark" /\ b \in Group(i[p], j[p])

\* A page is claimed by one process at most,
Apart ==
  \A p, q \in Procs : p # q => \A b \in PoolPages : ~(Claims(p, b) /\ Claims(q, b))

\* and once.
Once(p) ==
  \A g \in owned[p] :
    /\ \A h \in owned[p] : g # h => PagesOf(g) \cap PagesOf(h) = {}
    /\ stage[p] = "free" => PagesOf(g) \cap Group(i[p] + j[p], cnt[p] - j[p]) = {}
    /\ stage[p] = "mark" => PagesOf(g) \cap Group(i[p], j[p]) = {}

\* The pages marked are those claimed.
Exact == \A b \in PoolPages : used_map[b] <=> \E p \in Procs : Claims(p, b)

\* What a scan has seen, and what is left to mark, stays free; and if there was
\* room, there is some from i on.
Scanned(p) ==
  /\ stage[p] = "scan" /\ InMap(p) => \A b \in Group(i[p], j[p]) : ~used_map[b]
  /\ stage[p] = "mark" => \A b \in Group(i[p] + j[p], cnt[p] - j[p]) : ~used_map[b]
  /\ stage[p] = "scan" /\ room[p] =>
       \E s \in i[p] .. PageCnt - cnt[p] : \A b \in Group(s, cnt[p]) : ~used_map[b]
  /\ stage[p] = "null" => ~room[p]

Mine(p) == Inside(p) /\ Scanned(p) /\ Once(p)

\* The inductive invariant.
PoolInv == PoolType /\ Apart /\ Exact /\ \A p \in Procs : Mine(p)

\* A step of p leaves the calls and the groups of the others alone, and takes or
\* gives back the lock.
Moves(p) ==
  /\ \A q \in Procs \ {p} :
       /\ stage'[q] = stage[q] /\ cnt'[q] = cnt[q] /\ i'[q] = i[q] /\ j'[q] = j[q]
       /\ owned'[q] = owned[q] /\ room'[q] = room[q]
  /\ lock' = lock \/ {lock, lock'} \subseteq {p, Nobody}

\* It changes the mark of one page at most, and what it claims accordingly.
Claimed(p) ==
  \/ /\ used_map' = used_map
     /\ \A b \in PoolPages : Claims(p, b)' <=> Claims(p, b)
  \/ \E c \in PoolPages :
       /\ lock = p /\ ~used_map[c] /\ used_map' = [used_map EXCEPT ![c] = TRUE]
       /\ \A b \in PoolPages : Claims(p, b)' <=> Claims(p, b) \/ b = c
  \/ \E c \in PoolPages :
       /\ Claims(p, c) /\ used_map' = [used_map EXCEPT ![c] = FALSE]
       /\ \A b \in PoolPages : Claims(p, b)' <=> Claims(p, b) /\ b # c

\* The pages of a group.
LEMMA GroupIs ==
  ASSUME NEW x \in Int, NEW n \in Int
  PROVE  \A b : b \in Group(x, n) <=> b \in Int /\ x <= b /\ b < x + n
BY DEF Group

\* No pages are an empty group.
LEMMA EmptyGroup ==
  ASSUME NEW x \in Int
  PROVE  Group(x, 0) = {}
BY DEF Group

\* What the other processes rely on survives a step of p.
LEMMA OthersKeep ==
  ASSUME PoolConstants, PoolInv, NEW p \in Procs, Moves(p), Claimed(p),
         NEW q \in Procs \ {p}
  PROVE  Mine(q)' /\ \A b : Claims(q, b)' <=> Claims(q, b)
<1>1. /\ stage'[q] = stage[q] /\ cnt'[q] = cnt[q] /\ i'[q] = i[q] /\ j'[q] = j[q]
      /\ owned'[q] = owned[q] /\ room'[q] = room[q]
  BY Zenon DEF Moves
<1>2. Inside(q) /\ Scanned(q) /\ Once(q)
  BY Zenon DEF PoolInv, Mine
<1>3. Once(q)' /\ \A b : Claims(q, b)' <=> Claims(q, b)
  BY <1>1, <1>2, Zenon DEF Once, Claims
<1>4. lock = q <=> lock' = q
  BY Zenon DEF Moves, PoolConstants
<1>5. Inside(q)'
  BY <1>1, <1>2, <1>4, Zenon DEF Inside
<1>6. lock = q => \A b \in PoolPages : used_map'[b] => used_map[b]
  BY Zenon DEF Claimed, PoolInv, PoolType
<1>7. /\ cnt[q] \in Nat /\ i[q] \in Nat /\ j[q] \in Nat
      /\ stage[q] \in {"scan", "mark"} => j[q] <= cnt[q] /\ lock = q
      /\ stage[q] = "mark" => i[q] + cnt[q] <= PageCnt
      /\ PageCnt \in Nat /\ PoolPages = 0..(PageCnt - 1)
  BY <1>2, Zenon DEF Inside, PoolInv, PoolType, PoolConstants, PoolPages
<1>8. Scanned(q)'
  <2>1. ASSUME stage[q] = "scan", InMap(q), NEW b \in Group(i[q], j[q]) PROVE ~used_map'[b]
    <3>1. b \in PoolPages
      BY <1>7, <2>1, GroupIs DEF InMap
    <3> QED
      BY <1>2, <1>6, <1>7, <2>1, <3>1, Zenon DEF Scanned
  <2>2. ASSUME stage[q] = "mark", NEW b \in Group(i[q] + j[q], cnt[q] - j[q]) PROVE ~used_map'[b]
    <3>1. b \in PoolPages
      BY <1>7, <2>2, GroupIs
    <3> QED
      BY <1>2, <1>6, <1>7, <2>2, <3>1, Zenon DEF Scanned
  <2>3. ASSUME stage[q] = "scan", room[q]
        PROVE  \E s \in i[q] .. PageCnt - cnt[q] : \A b \in Group(s, cnt[q]) : ~used_map'[b]
    <3>1. PICK s \in i[q] .. PageCnt - cnt[q] : \A b \in Group(s, cnt[q]) : ~used_map[b]
      BY <1>2, <2>3, Zenon DEF Scanned
    <3>2. s \in Int /\ 0 <= s /\ s + cnt[q] <= PageCnt
      BY <1>7
    <3>3. \A b \in Group(s, cnt[q]) : b \in PoolPages
      <4>1. \A b \in Group(s, cnt[q]) : b \in Int /\ s <= b /\ b < s + cnt[q]
        BY <1>7, <3>2, GroupIs
      <4> QED
        BY <1>7, <3>2, <4>1
    <3> QED
      BY <1>6, <1>7, <2>3, <3>1, <3>3, Zenon
  <2>4. stage[q] = "null" => ~room[q]
    BY <1>2, Zenon DEF Scanned
  <2>5. InMap(q)' <=> InMap(q)
    BY <1>1, Zenon DEF InMap
  <2> QED
    BY <1>1, <2>1, <2>2, <2>3, <2>4, <2>5, Zenon DEF Scanned
<1> QED
  BY <1>3, <1>5, <1>8, Zenon DEF Mine

\* So a step of p keeps the invariant if it keeps what p relies on.
LEMMA PoolKeeps ==
  ASSUME PoolConstants, PoolInv, NEW p \in Procs, Moves(p), Claimed(p), PoolType', Mine(p)'
  PROVE  PoolInv'
<1>1. \A q \in Procs \ {p} : Mine(q)' /\ \A b : Claims(q, b)' <=> Claims(q, b)
  BY OthersKeep, Zenon
<1>2. \A b \in PoolPages : ~used_map[b] => \A q \in Procs : ~Claims(q, b)
  BY Zenon DEF PoolInv, Exact
<1>3. /\ \A q, r \in Procs : q # r => \A b \in PoolPages : ~(Claims(q, b) /\ Claims(r, b))
      /\ \A b \in PoolPages : used_map[b] <=> \E q \in Procs : Claims(q, b)
      /\ used_map \in [PoolPages -> BOOLEAN]
  BY Zenon DEF PoolInv, Apart, Exact, PoolType
<1>4. /\ \A q, r \in Procs : q # r => \A b \in PoolPages : ~(Claims(q, b)' /\ Claims(r, b)')
      /\ \A b \in PoolPages : used_map'[b] <=> \E q \in Procs : Claims(q, b)'
  <2>1. CASE used_map' = used_map /\ \A b \in PoolPages : Claims(p, b)' <=> Claims(p, b)
    BY <1>1, <1>3, <2>1
  <2>2. CASE \E c \in PoolPages :
               /\ ~used_map[c] /\ used_map' = [used_map EXCEPT ![c] = TRUE]
               /\ \A b \in PoolPages : Claims(p, b)' <=> Claims(p, b) \/ b = c
    <3>1. PICK c \in PoolPages :
            /\ ~used_map[c] /\ used_map' = [used_map EXCEPT ![c] = TRUE]
            /\ \A b \in PoolPages : Claims(p, b)' <=> Claims(p, b) \/ b = c
      BY <2>2, Zenon
    <3>2. \A b \in PoolPages : used_map'[b] <=> used_map[b] \/ b = c
      BY <1>3, <3>1, Zenon
    <3> QED
      BY <1>1, <1>2, <1>3, <3>1, <3>2
  <2>3. CASE \E c \in PoolPages :
               /\ Claims(p, c) /\ used_map' = [used_map EXCEPT ![c] = FALSE]
               /\ \A b \in PoolPages : Claims(p, b)' <=> Claims(p, b) /\ b # c
    <3>1. PICK c \in PoolPages :
            /\ Claims(p, c) /\ used_map' = [used_map EXCEPT ![c] = FALSE]
            /\ \A b \in PoolPages : Claims(p, b)' <=> Claims(p, b) /\ b # c
      BY <2>3, Zenon
    <3>2. \A b \in PoolPages : used_map'[b] <=> used_map[b] /\ b # c
      BY <1>3, <3>1, Zenon
    <3>3. \A q \in Procs \ {p} : ~Claims(q, c)
      BY <1>3, <3>1, Zenon
    <3> QED
      BY <1>1, <1>3, <3>1, <3>2, <3>3
  <2> QED
    BY <2>1, <2>2, <2>3, Zenon DEF Claimed
<1>5. PoolPages' = PoolPages
  BY Zenon DEF PoolPages
<1> QED
  BY <1>1, <1>4, <1>5, Zenon DEF PoolInv, Apart, Exact

\* A call that does not change the map: it begins, takes the lock, or finds no room.
LEMMA PoolCalls ==
  ASSUME PoolConstants, PoolInv, NEW p \in Procs,
         \/ palloc_get_multiple(p) \/ lock_acquire(p)
         \/ BITMAP_ERROR(p) \/ null_returned(p) \/ freed(p)
  PROVE  PoolInv'
<1> USE DEF Enter, Return
<1>0. Mine(p) /\ PoolType
  BY Zenon DEF PoolInv
<1>1. PoolType'
  <2>1. PageCnt \in Nat /\ Counts \subseteq Nat
    BY Zenon DEF PoolConstants
  <2>2. ASSUME palloc_get_multiple(p) PROVE PoolType'
    BY <1>0, <2>1, <2>2, Zenon DEF PoolType, PoolLabels, palloc_get_multiple
  <2>3. ASSUME lock_acquire(p) PROVE PoolType'
    <3>1. FreeGroup(cnt[p]) \in BOOLEAN
      BY Zenon DEF FreeGroup
    <3> QED
      BY <1>0, <2>3, <3>1, Zenon DEF PoolType, PoolLabels, lock_acquire
  <2>4. ASSUME BITMAP_ERROR(p) PROVE PoolType'
    BY <1>0, <2>4, Zenon DEF PoolType, PoolLabels, BITMAP_ERROR
  <2>5. ASSUME null_returned(p) \/ freed(p) PROVE PoolType'
    <3>1. room' = [room EXCEPT ![p] = FALSE] /\ room \in [Procs -> BOOLEAN]
      BY <1>0, <2>5, Zenon DEF PoolType, null_returned, freed
    <3>2. room' \in [Procs -> BOOLEAN]
      BY <3>1, Zenon
    <3> QED
      BY <1>0, <2>5, <3>2 DEF PoolType, PoolLabels, null_returned, freed
  <2> QED
    BY <2>2, <2>3, <2>4, <2>5, Zenon
<1>2. used_map' = used_map /\ owned' = owned
  BY Zenon DEF palloc_get_multiple, lock_acquire, BITMAP_ERROR, null_returned,
         freed
<1>3. Moves(p)
  BY <1>0 DEF Moves, PoolType, palloc_get_multiple, lock_acquire,
              BITMAP_ERROR, null_returned, freed, Mine, Inside
<1>4. /\ stage'[p] \notin {"mark", "free"}
      /\ stage[p] # "mark" /\ (stage[p] = "free" => j[p] = cnt[p])
  BY <1>0, Zenon DEF PoolType, palloc_get_multiple, lock_acquire, BITMAP_ERROR,
              null_returned, freed
<1>5. Once(p)' /\ \A b \in PoolPages : Claims(p, b)' <=> Claims(p, b)
  <2>1. stage[p] = "free" => Group(i[p] + j[p], cnt[p] - j[p]) = {}
    <3>1. cnt[p] \in Nat /\ i[p] \in Nat /\ j[p] \in Nat
      BY <1>0, Zenon DEF PoolType
    <3>2. stage[p] = "free" => cnt[p] - j[p] = 0
      BY <1>4, <3>1
    <3>3. Group(i[p] + j[p], 0) = {}
      BY <3>1, EmptyGroup
    <3> QED
      BY <3>2, <3>3, Zenon
  <2> QED
    BY <1>0, <1>2, <1>4, <2>1, Zenon DEF Mine, Once, Claims
<1>6. Inside(p)' /\ Scanned(p)'
  <2>1. ASSUME palloc_get_multiple(p) PROVE Inside(p)' /\ Scanned(p)'
    BY <1>0, <2>1 DEF PoolType, palloc_get_multiple, PoolConstants, Mine, Inside, Scanned
  <2>2. ASSUME lock_acquire(p) PROVE Inside(p)' /\ Scanned(p)'
    <3>1. /\ stage'[p] = "scan" /\ lock' = p /\ i'[p] = 0 /\ j'[p] = 0 /\ cnt'[p] = cnt[p]
          /\ cnt[p] \in Nat /\ cnt[p] > 0
          /\ room'[p] = FreeGroup(cnt[p])
      BY <1>0, <2>2, Zenon DEF PoolType, lock_acquire, Mine, Inside
    <3>2. Group(0, 0) = {}
      BY EmptyGroup
    <3> QED
      BY <1>2, <3>1, <3>2 DEF Inside, Scanned, FreeGroup
  <2>3. ASSUME BITMAP_ERROR(p) PROVE Inside(p)' /\ Scanned(p)'
    <3>1. stage[p] = "scan" /\ i[p] > PageCnt - cnt[p] /\ room'[p] = room[p]
          /\ stage'[p] = "null" /\ lock' = Nobody
      BY <1>0, <2>3 DEF PoolType, BITMAP_ERROR, InMap, PoolConstants
    <3>2. i[p] .. PageCnt - cnt[p] = {}
      BY <1>0, <3>1 DEF PoolType, PoolConstants
    <3>3. ~room[p]
      BY <1>0, <3>1, <3>2, Zenon DEF Mine, Scanned
    <3> QED
      BY <3>1, <3>3, Zenon DEF Inside, Scanned, PoolConstants
  <2>4. ASSUME null_returned(p) \/ freed(p) PROVE Inside(p)' /\ Scanned(p)'
    BY <1>0, <2>4, Zenon DEF PoolType, null_returned, freed, Mine, Inside, Scanned
  <2> QED
    BY <2>1, <2>2, <2>3, <2>4, Zenon
<1> QED
  BY <1>1, <1>2, <1>3, <1>5, <1>6, PoolKeeps, Zenon DEF Claimed, Mine

\* bitmap_scan looks at a bit, and goes on.
LEMMA PoolScans ==
  ASSUME PoolConstants, PoolInv, NEW p \in Procs, bitmap_test(p) \/ found(p)
  PROVE  PoolInv'
<1> USE DEF Enter
<1>0. Mine(p) /\ PoolType /\ PageCnt \in Nat
  BY Zenon DEF PoolInv, PoolConstants
<1>1. /\ stage[p] = "scan" /\ stage'[p] \in {"scan", "mark"} /\ lock' = lock /\ lock = p
      /\ used_map' = used_map /\ owned' = owned /\ cnt' = cnt /\ room' = room
      /\ i[p] \in Nat /\ cnt[p] \in Nat /\ j[p] \in Nat /\ cnt[p] > 0 /\ j[p] <= cnt[p]
      /\ i[p] + cnt[p] <= PageCnt
  BY <1>0 DEF bitmap_test, found, InMap, PoolType, Mine, Inside
<1>2. PoolType' /\ Moves(p)
  BY <1>0 DEF PoolType, PoolLabels, Moves, bitmap_test, found
<1>3. ASSUME bitmap_test(p) PROVE Inside(p)' /\ Scanned(p)' /\ stage' = stage
  <2>1. stage' = stage /\ j[p] < cnt[p]
    BY <1>3, Zenon DEF bitmap_test
  <2>2. CASE used_map[i[p] + j[p]]
    <3>1. i'[p] = i[p] + 1 /\ j'[p] = 0
      BY <1>0, <1>3, <2>2, Zenon DEF PoolType, bitmap_test
    <3>2. Group(i[p] + 1, 0) = {}
      BY <1>1, EmptyGroup
    <3>3. ASSUME room[p]
          PROVE  \E s \in i[p] + 1 .. PageCnt - cnt[p] : \A b \in Group(s, cnt[p]) : ~used_map[b]
      <4>1. PICK s \in i[p] .. PageCnt - cnt[p] : \A b \in Group(s, cnt[p]) : ~used_map[b]
        BY <1>0, <1>1, <3>3, Zenon DEF Mine, Scanned
      <4>2. i[p] + j[p] \in Group(i[p], cnt[p])
        BY <1>1, <2>1, GroupIs
      <4>3. s # i[p]
        BY <2>2, <4>1, <4>2, Zenon
      <4> QED
        BY <1>0, <1>1, <4>1, <4>3
    <3> QED
      BY <1>1, <2>1, <3>1, <3>2, <3>3 DEF Inside, Scanned
  <2>3. CASE ~used_map[i[p] + j[p]]
    <3>1. i'[p] = i[p] /\ j'[p] = j[p] + 1
      BY <1>0, <1>3, <2>3, Zenon DEF PoolType, bitmap_test
    <3>2. \A b \in Group(i[p], j[p]) : ~used_map[b]
      BY <1>0, <1>1, <1>3, Zenon DEF Mine, Scanned, bitmap_test
    <3>3. \A b \in Group(i[p], j[p] + 1) : b \in Group(i[p], j[p]) \/ b = i[p] + j[p]
      BY <1>1, GroupIs
    <3>4. \A b \in Group(i[p], j[p] + 1) : ~used_map[b]
      BY <2>3, <3>2, <3>3, Zenon
    <3> QED
      BY <1>0, <1>1, <2>1, <3>1, <3>4 DEF Mine, Inside, Scanned
  <2> QED
    BY <2>1, <2>2, <2>3, Zenon
<1>4. ASSUME found(p) PROVE Inside(p)' /\ Scanned(p)' /\ stage'[p] = "mark" /\ j'[p] = 0
  <2>1. stage'[p] = "mark" /\ j'[p] = 0 /\ i'[p] = i[p] /\ j[p] = cnt[p]
    BY <1>0, <1>4, Zenon DEF PoolType, found
  <2>2. \A b \in Group(i[p], cnt[p]) : ~used_map[b]
    BY <1>0, <1>1, <1>4, <2>1, Zenon DEF Mine, Scanned, found
  <2>3. i[p] + 0 = i[p] /\ cnt[p] - 0 = cnt[p]
    BY <1>1
  <2> QED
    BY <1>1, <2>1, <2>2, <2>3 DEF Inside, Scanned
<1>5. Once(p)' /\ \A b \in PoolPages : Claims(p, b)' <=> Claims(p, b)
  <2>1. stage'[p] = "mark" => Group(i'[p], j'[p]) = {}
    <3>1. stage'[p] = "mark" => j'[p] = 0 /\ i'[p] \in Nat
      BY <1>1, <1>2, <1>3, <1>4, Zenon DEF PoolType
    <3> QED
      BY <3>1, EmptyGroup
  <2> QED
    BY <1>0, <1>1, <2>1, Zenon DEF Mine, Once, Claims
<1> QED
  BY <1>1, <1>2, <1>3, <1>4, <1>5, PoolKeeps, Zenon DEF Claimed, Mine

\* bitmap_set_multiple marks a page of the group it has found.
LEMMA PoolMarks ==
  ASSUME PoolConstants, PoolInv, NEW p \in Procs, bitmap_mark(p)
  PROVE  PoolInv'
<1>0. Mine(p) /\ PoolType /\ PageCnt \in Nat
  BY Zenon DEF PoolInv, PoolConstants
<1>1. PICK c : c = i[p] + j[p]
  BY Zenon
<1>2. /\ stage[p] = "mark" /\ lock = p /\ j[p] < cnt[p] /\ used_map' = [used_map EXCEPT ![c] = TRUE]
      /\ j'[p] = j[p] + 1 /\ i[p] \in Nat /\ cnt[p] \in Nat /\ j[p] \in Nat
      /\ i[p] + cnt[p] <= PageCnt
      /\ UNCHANGED <<lock, stage, cnt, i, owned, room>>
  BY <1>0, <1>1, Zenon DEF bitmap_mark, PoolType, Mine, Inside
<1>3. c \in PoolPages /\ c \in Group(i[p] + j[p], cnt[p] - j[p])
  BY <1>0, <1>1, <1>2 DEF PoolPages, Group
<1>4. ~used_map[c]
  BY <1>0, <1>2, <1>3, Zenon DEF Mine, Scanned
<1>5. PoolType' /\ Moves(p)
  <2>1. used_map' \in [PoolPages -> BOOLEAN]
    BY <1>0, <1>2, Zenon DEF PoolType
  <2> QED
    BY <1>0, <1>2, <2>1 DEF PoolType, Moves, bitmap_mark, PoolPages
<1>6. \A b : b \in Group(i'[p], j'[p]) <=> b \in Group(i[p], j[p]) \/ b = c
  BY <1>1, <1>2, GroupIs
<1>7. \A b : b \in Group(i'[p] + j'[p], cnt'[p] - j'[p]) =>
               b \in Group(i[p] + j[p], cnt[p] - j[p]) /\ b # c /\ b \in PoolPages
  BY <1>0, <1>1, <1>2, GroupIs DEF PoolPages
<1>8. Inside(p)' /\ Scanned(p)'
  <2>1. \A b \in Group(i[p] + j[p], cnt[p] - j[p]) : ~used_map[b]
    BY <1>0, <1>2, Zenon DEF Mine, Scanned
  <2>2. \A b \in PoolPages : b # c => used_map'[b] = used_map[b]
    BY <1>0, <1>2, Zenon DEF PoolType
  <2>3. \A b \in Group(i'[p] + j'[p], cnt'[p] - j'[p]) : ~used_map'[b]
    BY <1>7, <2>1, <2>2, Zenon
  <2> QED
    BY <1>0, <1>2, <2>3 DEF Mine, Inside, Scanned
<1>9. Once(p)' /\ \A b \in PoolPages : Claims(p, b)' <=> Claims(p, b) \/ b = c
  <2>1. \A g \in owned[p] : c \notin PagesOf(g)
    BY <1>3, <1>4, Zenon DEF PoolInv, Exact, Claims
  <2> QED
    BY <1>0, <1>2, <1>6, <2>1 DEF Mine, Once, Claims
<1> QED
  BY <1>2, <1>3, <1>4, <1>5, <1>8, <1>9, PoolKeeps, Zenon DEF Claimed, Mine

\* bitmap_set_multiple clears a page of a group that is being freed.
LEMMA PoolResets ==
  ASSUME PoolConstants, PoolInv, NEW p \in Procs, bitmap_reset(p)
  PROVE  PoolInv'
<1>0. Mine(p) /\ PoolType /\ PageCnt \in Nat
  BY Zenon DEF PoolInv, PoolConstants
<1>1. PICK c : c = i[p] + j[p]
  BY Zenon
<1>2. /\ stage[p] = "free" /\ j[p] < cnt[p] /\ used_map' = [used_map EXCEPT ![c] = FALSE]
      /\ j'[p] = j[p] + 1 /\ i[p] \in Nat /\ cnt[p] \in Nat /\ j[p] \in Nat
      /\ i[p] + cnt[p] <= PageCnt
      /\ UNCHANGED <<lock, stage, cnt, i, owned, room>>
  BY <1>0, <1>1, Zenon DEF bitmap_reset, PoolType, Mine, Inside
<1>3. c \in PoolPages /\ c \in Group(i[p] + j[p], cnt[p] - j[p])
  BY <1>0, <1>1, <1>2 DEF PoolPages, Group
<1>4. Claims(p, c)
  BY <1>2, <1>3, Zenon DEF Claims
<1>5. PoolType' /\ Moves(p)
  <2>1. used_map' \in [PoolPages -> BOOLEAN]
    BY <1>0, <1>2, Zenon DEF PoolType
  <2> QED
    BY <1>0, <1>2, <2>1, SMTT(30) DEF PoolType, Moves, bitmap_reset, PoolPages
<1>6. \A b : b \in Group(i'[p] + j'[p], cnt'[p] - j'[p]) <=>
               b \in Group(i[p] + j[p], cnt[p] - j[p]) /\ b # c
  BY <1>1, <1>2, SMTT(30) DEF Group
<1>7. Inside(p)' /\ Scanned(p)'
  BY <1>0, <1>2, SMTT(30) DEF Mine, Inside, Scanned
<1>8. Once(p)' /\ \A b \in PoolPages : Claims(p, b)' <=> Claims(p, b) /\ b # c
  <2>1. \A g \in owned[p] : c \notin PagesOf(g)
    BY <1>0, <1>2, <1>3, Zenon DEF Mine, Once
  <2> QED
    BY <1>0, <1>2, <1>6, <2>1, Zenon DEF Mine, Once, Claims
<1> QED
  BY <1>2, <1>3, <1>4, <1>5, <1>7, <1>8, PoolKeeps, Zenon DEF Claimed, Mine

\* palloc_get_multiple returns the group it has marked.
LEMMA PoolGives ==
  ASSUME PoolConstants, PoolInv, NEW p \in Procs, lock_release(p)
  PROVE  PoolInv'
<1> USE DEF Enter, Return
<1>0. Mine(p) /\ PoolType
  BY Zenon DEF PoolInv
<1>1. PICK new : new = <<i[p], cnt[p]>>
  BY Zenon
<1>2. /\ stage[p] = "mark" /\ lock = p /\ j[p] = cnt[p] /\ used_map' = used_map
      /\ stage'[p] = "idle" /\ lock' = Nobody /\ owned'[p] = owned[p] \cup {new}
      /\ i[p] \in Nat /\ cnt[p] \in Nat \ {0} /\ i[p] + cnt[p] <= PageCnt
  BY <1>0, <1>1 DEF lock_release, PoolType, Mine, Inside
<1>3. new \in Groups /\ PagesOf(new) = Group(i[p], j[p])
  BY <1>1, <1>2, Zenon DEF Groups, PagesOf
<1>4. PoolType' /\ Moves(p)
  <2>1. owned' = [owned EXCEPT ![p] = owned[p] \cup {new}] /\ owned \in [Procs -> SUBSET Groups]
    BY <1>0, <1>1, Zenon DEF lock_release, PoolType
  <2>2. owned' \in [Procs -> SUBSET Groups]
    BY <1>3, <2>1, Zenon
  <2>3. room' = [room EXCEPT ![p] = FALSE] /\ room \in [Procs -> BOOLEAN]
    BY <1>0, Zenon DEF lock_release, PoolType
  <2>4. room' \in [Procs -> BOOLEAN]
    BY <2>3, Zenon
  <2>5. Moves(p)
    BY <1>0, <1>2, <2>1, <2>3 DEF Moves, PoolType, lock_release
  <2> QED
    BY <1>0, <1>2, <2>2, <2>4, <2>5, Zenon DEF PoolType, PoolLabels, lock_release, PoolPages
<1>5. Inside(p)' /\ Scanned(p)'
  BY <1>2, Zenon DEF Inside, Scanned, PoolConstants
<1>6. Once(p)'
  BY <1>0, <1>2, <1>3 DEF Mine, Once
<1>7. \A b \in PoolPages : Claims(p, b)' <=> Claims(p, b)
  BY <1>2, <1>3, Zenon DEF Claims
<1> QED
  BY <1>2, <1>4, <1>5, <1>6, <1>7, PoolKeeps, Zenon DEF Claimed, Mine

\* palloc_free_multiple takes a group back.
LEMMA PoolFrees ==
  ASSUME PoolConstants, PoolInv, NEW p \in Procs, palloc_free_multiple(p)
  PROVE  PoolInv'
<1> USE DEF Enter
<1>0. Mine(p) /\ PoolType
  BY Zenon DEF PoolInv
<1>1. PICK g \in owned[p] :
        /\ owned' = [owned EXCEPT ![p] = @ \ {g}]
        /\ i' = [i EXCEPT ![p] = g[1]] /\ cnt' = [cnt EXCEPT ![p] = g[2]]
  BY Zenon DEF palloc_free_multiple
<1>2. g \in Groups
  BY <1>0, <1>1, Zenon DEF PoolType
<1>3. g[1] \in Nat /\ g[2] \in Nat \ {0} /\ g[1] + g[2] <= PageCnt
  BY <1>2, Zenon DEF Groups
<1>4. /\ stage[p] = "idle" /\ stage'[p] = "free" /\ lock' = lock /\ lock # p /\ used_map' = used_map
      /\ i'[p] = g[1] /\ cnt'[p] = g[2] /\ j'[p] = 0 /\ owned'[p] = owned[p] \ {g} /\ room' = room
  BY <1>0, <1>1, Zenon DEF palloc_free_multiple, PoolType, Mine, Inside
<1>5. PoolType' /\ Moves(p)
  <2>1. owned' \in [Procs -> SUBSET Groups]
    BY <1>0, <1>1, Zenon DEF PoolType
  <2>2. Moves(p)
    BY <1>0, <1>1 DEF Moves, PoolType, palloc_free_multiple
  <2> QED
    BY <1>0, <1>1, <1>3, <2>1, <2>2, Zenon DEF PoolType, PoolLabels, palloc_free_multiple, PoolPages
<1>6. Inside(p)' /\ Scanned(p)'
  BY <1>3, <1>4 DEF Inside, Scanned
<1>7. Group(i'[p] + j'[p], cnt'[p] - j'[p]) = PagesOf(g)
  <2>1. g[1] + 0 = g[1] /\ g[2] - 0 = g[2]
    BY <1>3
  <2> QED
    BY <1>4, <2>1, Zenon DEF PagesOf
<1>8. Once(p)'
  BY <1>0, <1>1, <1>4, <1>7, Zenon DEF Mine, Once
<1>9. \A b \in PoolPages : Claims(p, b)' <=> Claims(p, b)
  BY <1>1, <1>4, <1>7, Zenon DEF Claims
<1> QED
  BY <1>4, <1>5, <1>6, <1>8, <1>9, PoolKeeps, Zenon DEF Claimed, Mine

\* At first every page is free.
LEMMA PoolStart == ASSUME PoolConstants, PoolInit PROVE PoolInv
<1>1. PoolType
  BY Zenon DEF PoolInit, PoolType, PoolLabels
<1>2. \A p \in Procs : Mine(p) /\ \A b : ~Claims(p, b)
  BY ZenonT(40) DEF PoolInit, Mine, Inside, Scanned, Once, Claims, PoolConstants
<1>3. Exact /\ Apart
  BY <1>2, Zenon DEF PoolInit, Exact, Apart
<1> QED
  BY <1>1, <1>2, <1>3, Zenon DEF PoolInv

\* Each step keeps the invariant.
LEMMA PoolStep == ASSUME PoolConstants, PoolInv, [PoolNext]_pool PROVE PoolInv'
<1>1. CASE UNCHANGED pool
  <2>1. \A p \in Procs : (Mine(p)' <=> Mine(p)) /\ \A b : Claims(p, b)' <=> Claims(p, b)
    BY <1>1 DEF pool, Mine, Inside, Scanned, Once, Claims, InMap
  <2> QED
    BY <1>1, <2>1, Zenon DEF pool, PoolInv, PoolType, Exact, Apart, PoolPages
<1>2. CASE PoolNext
  BY <1>2, PoolCalls, PoolScans, PoolMarks, PoolResets, PoolGives, PoolFrees, Zenon DEF PoolNext
<1> QED
  BY <1>1, <1>2, Zenon

\* No page is given to two processes, or twice to one, those handed out are marked
\* and no other is left marked, and a null pointer means that there was no room,
\* for any number of pages and processes and although pages are freed during scans.
THEOREM PagesExclusiveHolds == ASSUME PoolConstants PROVE PoolSpec => []PagesExclusive
<1>1. ASSUME PoolInv PROVE PagesExclusive
  <2>1. \A p \in Procs : \A b : b \in Held(p) <=> \E g \in owned[p] : b \in PagesOf(g)
    BY Zenon DEF Held
  <2>2. \A p \in Procs : \A b \in Held(p) : b \in PoolPages /\ Claims(p, b)
    <3>1. \A g \in Groups : \A b \in PagesOf(g) : b \in PoolPages
      BY DEF Groups, PagesOf, Group, PoolPages, PoolConstants
    <3>2. \A p \in Procs : owned[p] \subseteq Groups
      BY <1>1, Zenon DEF PoolInv, PoolType
    <3> QED
      BY <2>1, <3>1, <3>2, Zenon DEF Claims
  <2>3. PagesDisjoint
    <3>1. \A p, q \in Procs : p # q => Held(p) \cap Held(q) = {}
      BY <1>1, <2>2, Zenon DEF PoolInv, Apart
    <3> QED
      BY <1>1, <3>1, Zenon DEF PagesDisjoint, PoolInv, Mine, Once
  <2>4. \A p \in Procs : stage[p] = "free" =>
          \A b \in Group(i[p] + j[p], cnt[p] - j[p]) : b \in PoolPages /\ Claims(p, b)
    <3> SUFFICES ASSUME NEW p \in Procs, stage[p] = "free",
                        NEW b \in Group(i[p] + j[p], cnt[p] - j[p])
                 PROVE  b \in PoolPages /\ Claims(p, b)
      BY Zenon
    <3>1. /\ i[p] \in Nat /\ j[p] \in Nat /\ cnt[p] \in Nat /\ i[p] + cnt[p] <= PageCnt
          /\ PageCnt \in Nat
      BY <1>1, Zenon DEF PoolInv, PoolType, Mine, Inside, PoolConstants
    <3> QED
      BY <3>1 DEF Claims, PoolPages, Group
  <2>5. ASSUME \A p \in Procs : stage[p] = "idle"
        PROVE  \A b \in PoolPages : used_map[b] => \E p \in Procs : b \in Held(p)
    BY <1>1, <2>1, <2>5, Zenon DEF PoolInv, Exact, Claims
  <2>6. OwnedMarked
    BY <1>1, <2>2, <2>4, <2>5, Zenon DEF OwnedMarked, PoolInv, Exact
  <2>7. NullOnlyIfFull
    BY <1>1, Zenon DEF PoolInv, Mine, Scanned, NullOnlyIfFull
  <2> QED
    BY <2>3, <2>6, <2>7, Zenon DEF PagesExclusive
<1> QED
  BY <1>1, PoolStart, PoolStep, PTL DEF PoolSpec

-----------------------------------------------------------------------------
(* Address spaces.                                                        *)

PagingLabels == {"load", "activate", "run", "exit", "deactivate", "destroy", "done"}
Entries == [page : UserPool \cup {NULL}, P : BOOLEAN, W : BOOLEAN, A : BOOLEAN, D : BOOLEAN]

\* The types; an entry that is present maps a page.
PagingType ==
  /\ free \subseteq Pages
  /\ dir \in [Pages -> [PdNos -> KernelPool \cup {NULL}]]
  /\ table \in [Pages -> [PtNos -> Entries]]
  /\ \A q \in Pages, k \in PtNos : table[q][k].P => table[q][k].page # NULL
  /\ pagedir \in [Threads -> KernelPool \cup {NULL}]
  /\ pd \in [Threads -> KernelPool \cup {NULL}]
  /\ pc \in [Threads -> PagingLabels]
  /\ cpu \in Threads /\ cr3 \in KernelPool \cup {NULL}
  /\ \A c \in tlb : c.user \in UserPages

\* The directory a thread has, also while it destroys it; its page tables; the user
\* pages that they map.
DirOf(t) == IF pd[t] # NULL THEN pd[t] ELSE pagedir[t]
TableOf(t, k) == IF DirOf(t) = NULL THEN NULL ELSE dir[DirOf(t)][k]
EntryOf(t, k, l) == IF TableOf(t, k) = NULL THEN NoEntry ELSE table[TableOf(t, k)][l]
PageOf(t, k, l) == IF EntryOf(t, k, l).P THEN EntryOf(t, k, l).page ELSE NULL

\* When a thread has a directory.
Stage ==
  \A t \in Threads :
    /\ pc[t] \in {"activate", "run"} => pagedir[t] # NULL
    /\ pc[t] \notin {"activate", "run", "exit"} => pagedir[t] = NULL
    /\ pc[t] \in {"deactivate", "destroy"} <=> pd[t] # NULL

\* The processor works with the directory of its thread or with the kernel's.
Active ==
  /\ cr3 \in {NULL, pagedir[cpu]} \/ (pc[cpu] = "deactivate" /\ cr3 = pd[cpu])
  /\ pc[cpu] = "run" => cr3 = pagedir[cpu]
  /\ cr3 = NULL => tlb = {}

\* Nothing is shared: each page is in one place or free.
NotShared ==
  \A t, u \in Threads :
    /\ t # u /\ DirOf(t) # NULL => DirOf(t) # DirOf(u)
    /\ \A k \in PdNos : TableOf(t, k) # NULL =>
         /\ TableOf(t, k) # DirOf(u)
         /\ \A m \in PdNos : <<t, k>> # <<u, m>> => TableOf(t, k) # TableOf(u, m)
         /\ \A l \in PtNos : PageOf(t, k, l) # NULL =>
              \A m \in PdNos, n \in PtNos :
                <<t, k, l>> # <<u, m, n>> => PageOf(t, k, l) # PageOf(u, m, n)

\* A page that is in use is not in the pool, ...
NotFree ==
  \A t \in Threads :
    /\ DirOf(t) \notin free
    /\ \A k \in PdNos : TableOf(t, k) \notin free
    /\ \A k \in PdNos, l \in PtNos : PageOf(t, k, l) \notin free

\* ... and one that is in neither has been leaked: there is none.
NotLost ==
  \A p \in Pages \ free : \E t \in Threads :
    \/ DirOf(t) = p
    \/ \E k \in PdNos : TableOf(t, k) = p \/ \E l \in PtNos : PageOf(t, k, l) = p

\* The inductive invariant.
PagingInv == PagingType /\ Stage /\ Active /\ NotShared /\ NotFree /\ NotLost /\ TlbCoherent

\* Pages is a disjoint union, and NULL is no page.
LEMMA Pools ==
  ASSUME Constants
  PROVE  /\ \A p : p \in Pages <=> p \in KernelPool \/ p \in UserPool
         /\ \A p \in KernelPool : p \notin UserPool /\ p # NULL
         /\ \A p \in UserPool : p # NULL
BY Zenon DEF Constants, Pages

\* The empty entry.
LEMMA EmptyEntry ==
  /\ NoEntry \in Entries /\ ~NoEntry.P
  /\ \A p \in UserPool, w \in BOOLEAN :
       /\ NewEntry(p, w) \in Entries
       /\ NewEntry(p, w).P /\ NewEntry(p, w).page = p
BY Zenon DEF NoEntry, NewEntry, Entries

\* What the places hold.
LEMMA Places ==
  ASSUME Constants, PagingType
  PROVE  \A t \in Threads :
           /\ DirOf(t) \in KernelPool \cup {NULL}
           /\ \A k \in PdNos :
                /\ TableOf(t, k) \in KernelPool \cup {NULL}
                /\ \A l \in PtNos :
                     /\ EntryOf(t, k, l) \in Entries
                     /\ EntryOf(t, k, l).P => EntryOf(t, k, l).page # NULL
                     /\ PageOf(t, k, l) \in UserPool \cup {NULL}
                     /\ EntryOf(t, k, l).P <=> PageOf(t, k, l) # NULL
<1> SUFFICES ASSUME NEW t \in Threads
             PROVE  /\ DirOf(t) \in KernelPool \cup {NULL}
                    /\ \A k \in PdNos :
                         /\ TableOf(t, k) \in KernelPool \cup {NULL}
                         /\ \A l \in PtNos :
                              /\ EntryOf(t, k, l) \in Entries
                              /\ EntryOf(t, k, l).P => EntryOf(t, k, l).page # NULL
                              /\ PageOf(t, k, l) \in UserPool \cup {NULL}
                              /\ EntryOf(t, k, l).P <=> PageOf(t, k, l) # NULL
  BY Zenon
<1>1. DirOf(t) \in KernelPool \cup {NULL}
  BY Zenon DEF DirOf, PagingType
<1>2. ASSUME NEW k \in PdNos PROVE TableOf(t, k) \in KernelPool \cup {NULL}
  BY <1>1, Pools DEF TableOf, PagingType
<1>3. ASSUME NEW k \in PdNos, NEW l \in PtNos
      PROVE  /\ EntryOf(t, k, l) \in Entries
             /\ EntryOf(t, k, l).P => EntryOf(t, k, l).page # NULL
  <2>1. CASE TableOf(t, k) = NULL
    BY <2>1, EmptyEntry, Zenon DEF EntryOf
  <2>2. CASE TableOf(t, k) # NULL
    BY <1>2, <2>2, Pools DEF EntryOf, PagingType
  <2> QED
    BY <2>1, <2>2, Zenon
<1>4. ASSUME NEW k \in PdNos, NEW l \in PtNos
      PROVE  /\ PageOf(t, k, l) \in UserPool \cup {NULL}
             /\ EntryOf(t, k, l).P <=> PageOf(t, k, l) # NULL
  BY <1>3, Zenon DEF PageOf, Entries
<1> QED
  BY <1>1, <1>2, <1>3, <1>4, Zenon

\* The entries of a thread's directory, by their user pages.
LEMMA EntryIs ==
  ASSUME NEW t \in Threads, NEW v \in UserPages, DirOf(t) # NULL
  PROVE  /\ v[1] \in PdNos /\ v[2] \in PtNos /\ v = <<v[1], v[2]>>
         /\ Table(DirOf(t), v) = TableOf(t, v[1])
         /\ Entry(DirOf(t), v) = EntryOf(t, v[1], v[2])
BY DEF UserPages, Table, Entry, TableOf, EntryOf

\* Who has a directory.
LEMMA WhoHas ==
  ASSUME Stage, NEW d \in Directories
  PROVE  \E t \in Threads : d = DirOf(t) /\ d # NULL /\ d = pagedir[t]
BY Zenon DEF Directories, Stage, DirOf

\* The active directory is that of the running thread.
LEMMA ActiveIs ==
  ASSUME PagingType, Stage, Active, cr3 # NULL
  PROVE  cr3 = DirOf(cpu) /\ DirOf(cpu) # NULL
BY Zenon DEF Stage, Active, DirOf, PagingType

\* Pages stay where they are.
SamePlaces ==
  \A t \in Threads :
    /\ DirOf(t)' = DirOf(t)
    /\ \A k \in PdNos : TableOf(t, k)' = TableOf(t, k)
    /\ \A k \in PdNos, l \in PtNos : PageOf(t, k, l)' = PageOf(t, k, l)

\* So who owns which page is settled by where the pages are.
LEMMA SameAccount ==
  ASSUME NotShared, NotFree, NotLost, SamePlaces, free' = free
  PROVE  NotShared' /\ NotFree' /\ NotLost'
<1>1. NotShared'
  BY DEF NotShared, SamePlaces
<1>2. NotFree'
  BY Zenon DEF NotFree, SamePlaces
<1>3. NotLost'
  <2> SUFFICES ASSUME NEW p \in Pages \ free
               PROVE  \E t \in Threads :
                        \/ DirOf(t)' = p
                        \/ \E k \in PdNos : TableOf(t, k)' = p \/ \E l \in PtNos : PageOf(t, k, l)' = p
    BY Zenon DEF NotLost
  <2> QED
    BY DEF NotLost, SamePlaces
<1> QED
  BY <1>1, <1>2, <1>3, Zenon

\* A translation in the TLB is that of the running thread's page tables.
Agrees(c, e) == e.P /\ e.page = c.page /\ e.W = c.W /\ e.A /\ (c.D => e.D)
Coherent(c) == Agrees(c, EntryOf(cpu, c.user[1], c.user[2]))

\* What TlbCoherent says, in terms of the thread that runs.
LEMMA TlbIs ==
  ASSUME PagingType, Stage, Active, TlbCoherent, NEW c \in tlb
  PROVE  cr3 # NULL /\ cr3 = DirOf(cpu) /\ Coherent(c) /\ c.user \in UserPages
<1>1. cr3 # NULL
  BY Zenon DEF Active
<1>2. cr3 = DirOf(cpu) /\ DirOf(cpu) # NULL /\ cpu \in Threads /\ c.user \in UserPages
  BY <1>1, ActiveIs, Zenon DEF PagingType
<1>3. Entry(cr3, c.user) = EntryOf(cpu, c.user[1], c.user[2])
  BY <1>2, EntryIs, Zenon
<1> QED
  BY <1>1, <1>2, <1>3, Zenon DEF TlbCoherent, Coherent, Agrees

\* And the converse, after a step.
LEMMA TlbBack ==
  ASSUME PagingType', Stage', Active', \A c \in tlb' : Coherent(c)'
  PROVE  TlbCoherent'
<1> SUFFICES ASSUME NEW c \in tlb'
             PROVE  Agrees(c, Entry(cr3, c.user)')
  BY Zenon DEF TlbCoherent, Agrees
<1>1. cr3' # NULL
  BY Zenon DEF Active
<1>2. /\ cr3' = (IF pd'[cpu'] # NULL THEN pd'[cpu'] ELSE pagedir'[cpu'])
      /\ cpu' \in Threads /\ c.user \in UserPages
  BY <1>1, Zenon DEF Stage, Active, PagingType
<1>3. Entry(cr3, c.user)' = EntryOf(cpu, c.user[1], c.user[2])'
  BY <1>1, <1>2, Zenon DEF Entry, Table, EntryOf, TableOf, DirOf
<1> QED
  BY <1>3, Zenon DEF Coherent

\* An entry that is set is one entry of one directory.
Sets(w, k, l, e) ==
  /\ TableOf(w, k) # NULL /\ (e.P => e.page # NULL)
  /\ table' = [table EXCEPT ![TableOf(w, k)][l] = e]
  /\ dir' = dir /\ pagedir' = pagedir /\ pd' = pd

\* No other translation changes, because page tables are not shared.
LEMMA SetEntryIs ==
  ASSUME Constants, PagingType, NotShared,
         NEW w \in Threads, NEW k \in PdNos, NEW l \in PtNos, NEW e \in Entries,
         Sets(w, k, l, e)
  PROVE  /\ table' \in [Pages -> [PtNos -> Entries]]
         /\ \A q \in Pages, n \in PtNos : table'[q][n].P => table'[q][n].page # NULL
         /\ \A t \in Threads : /\ DirOf(t)' = DirOf(t)
                               /\ \A m \in PdNos : TableOf(t, m)' = TableOf(t, m)
         /\ EntryOf(w, k, l)' = e
         /\ \A t \in Threads, m \in PdNos, n \in PtNos :
              <<t, m, n>> # <<w, k, l>> => EntryOf(t, m, n)' = EntryOf(t, m, n)
<1> USE DEF Sets
<1>1. TableOf(w, k) \in KernelPool /\ TableOf(w, k) \in Pages
  BY Places, Pools, Zenon
<1>2. /\ table' \in [Pages -> [PtNos -> Entries]]
      /\ table'[TableOf(w, k)][l] = e
      /\ \A q \in Pages, n \in PtNos :
           <<q, n>> # <<TableOf(w, k), l>> => table'[q][n] = table[q][n]
  <2>1. table[TableOf(w, k)] \in [PtNos -> Entries]
    BY <1>1, Zenon DEF PagingType
  <2>2. table' = [table EXCEPT ![TableOf(w, k)] = [table[TableOf(w, k)] EXCEPT ![l] = e]]
    BY Zenon
  <2>3. [table[TableOf(w, k)] EXCEPT ![l] = e] \in [PtNos -> Entries]
    BY <2>1, Zenon
  <2>4. /\ table' \in [Pages -> [PtNos -> Entries]]
        /\ table'[TableOf(w, k)] = [table[TableOf(w, k)] EXCEPT ![l] = e]
        /\ \A q \in Pages \ {TableOf(w, k)} : table'[q] = table[q]
    BY <1>1, <2>2, <2>3 DEF PagingType
  <2> QED
    BY <2>1, <2>4
<1>3. \A q \in Pages, n \in PtNos : table'[q][n].P => table'[q][n].page # NULL
  BY <1>2 DEF PagingType
<1>4. \A t \in Threads : DirOf(t)' = DirOf(t) /\ \A m \in PdNos : TableOf(t, m)' = TableOf(t, m)
  BY Zenon DEF DirOf, TableOf
<1>5. EntryOf(w, k, l)' = e
  BY <1>2, <1>4, Zenon DEF EntryOf
<1>6. ASSUME NEW t \in Threads, NEW m \in PdNos, NEW n \in PtNos, <<t, m, n>> # <<w, k, l>>
      PROVE  EntryOf(t, m, n)' = EntryOf(t, m, n)
  <2>1. CASE TableOf(t, m) = NULL
    BY <1>4, <2>1, Zenon DEF EntryOf
  <2>2. CASE TableOf(t, m) # NULL
    <3>1. TableOf(t, m) \in Pages
      BY <2>2, Places, Pools, Zenon
    <3>2. <<TableOf(t, m), n>> # <<TableOf(w, k), l>>
      BY <1>6, <2>2, Zenon DEF NotShared
    <3> QED
      BY <1>2, <1>4, <2>2, <3>1, <3>2 DEF EntryOf
  <2> QED
    BY <2>1, <2>2, Zenon
<1> QED
  BY <1>2, <1>3, <1>4, <1>5, <1>6, Zenon

\* What leaves the memory alone leaves the account alone.
LEMMA MemorySame ==
  ASSUME PagingInv, UNCHANGED memory, \A t \in Threads : DirOf(t)' = DirOf(t)
  PROVE  /\ NotShared' /\ NotFree' /\ NotLost'
         /\ \A t \in Threads, k \in PdNos, l \in PtNos : EntryOf(t, k, l)' = EntryOf(t, k, l)
<1>1. \A t \in Threads, k \in PdNos : TableOf(t, k)' = TableOf(t, k)
  BY Zenon DEF TableOf, memory
<1>2. \A t \in Threads, k \in PdNos, l \in PtNos : EntryOf(t, k, l)' = EntryOf(t, k, l)
  BY <1>1, Zenon DEF EntryOf, memory
<1>3. SamePlaces /\ free' = free
  BY <1>1, <1>2, Zenon DEF SamePlaces, PageOf, memory
<1> QED
  BY <1>2, <1>3, SameAccount, Zenon DEF PagingInv

\* A switch of threads, and the steps of a process that touch no page.
LEMMA SwitchStep ==
  ASSUME Constants, PagingInv, NEW t \in Threads,
         \/ process_activate(t) \/ Activate(t) \/ Deactivate(t)
  PROVE  PagingInv'
<1> USE DEF At, Goto, pagedir_activate, memory,
            process_activate, Activate, Deactivate
<1>1. /\ UNCHANGED memory /\ pagedir' = pagedir /\ pd' = pd /\ tlb' = {}
      /\ \A u \in Threads : DirOf(u)' = DirOf(u)
  BY Zenon DEF DirOf
<1>2. /\ cpu' = t /\ pc' \in [Threads -> PagingLabels]
      /\ \A u \in Threads \ {t} : pc'[u] = pc[u]
      /\ \/ pc'[t] = pc[t] /\ cr3' = pagedir[t]
         \/ pc[t] = "activate" /\ pc'[t] = "run" /\ cr3' = pagedir[t]
         \/ pc[t] = "deactivate" /\ pc'[t] = "destroy" /\ cr3' = NULL
  BY Zenon DEF PagingInv, PagingType, PagingLabels
<1>3. PagingType'
  BY <1>1, <1>2, Zenon DEF PagingInv, PagingType
<1>4. Stage'
  BY <1>1, <1>2, Zenon DEF PagingInv, Stage
<1>5. Active'
  BY <1>1, <1>2, Zenon DEF PagingInv, Stage, Active
<1>6. TlbCoherent'
  BY <1>1, Zenon DEF TlbCoherent
<1> QED
  BY <1>1, <1>3, <1>4, <1>5, <1>6, MemorySame, Zenon DEF PagingInv

\* The end of a process, and its next life, up to the pages it has.
LEMMA ExitStep ==
  ASSUME Constants, PagingInv, NEW t \in Threads,
         \/ exit(t) \/ process_exit(t) \/ NewProcess(t)
         \/ At(t, "run") /\ Goto(t, "exit")
            /\ UNCHANGED <<memory, pagedir, pd, cpu, cr3, tlb>>
  PROVE  PagingInv'
<1> USE DEF At, Goto, memory,
            exit, process_exit, NewProcess
<1>1. /\ UNCHANGED memory /\ cpu' = cpu /\ cr3' = cr3 /\ tlb' = tlb /\ cpu = t
      /\ pc' \in [Threads -> PagingLabels]
      /\ pagedir' \in [Threads -> KernelPool \cup {NULL}] /\ pd' \in [Threads -> KernelPool \cup {NULL}]
      /\ \A u \in Threads \ {t} : pc'[u] = pc[u] /\ pagedir'[u] = pagedir[u] /\ pd'[u] = pd[u]
  BY ZenonT(40) DEF PagingInv, PagingType, PagingLabels
<1>2. \/ pagedir' = pagedir /\ pd' = pd /\ pc[t] = "run" /\ pc'[t] = "exit"
      \/ pagedir' = pagedir /\ pd' = pd /\ pc[t] = "done" /\ pc'[t] = "load"
      \/ /\ pc[t] = "exit" /\ pagedir'[t] = NULL /\ pd'[t] = pagedir[t]
         /\ pc'[t] = IF pagedir[t] = NULL THEN "done" ELSE "deactivate"
  BY Zenon DEF PagingInv, PagingType
<1>3. \A u \in Threads : DirOf(u)' = DirOf(u)
  BY <1>1, <1>2 DEF DirOf, PagingInv, Stage
<1>4. PagingType'
  BY <1>1 DEF PagingInv, PagingType
<1>5. Stage'
  BY <1>1, <1>2 DEF PagingInv, Stage
<1>6. Active'
  BY <1>1, <1>2, Zenon DEF PagingInv, Stage, Active
<1>7. TlbCoherent'
  <2>1. ASSUME NEW c \in tlb' PROVE Coherent(c)'
    <3>1. Coherent(c) /\ c.user[1] \in PdNos /\ c.user[2] \in PtNos /\ cpu \in Threads
      BY <1>1, TlbIs, Zenon DEF PagingInv, UserPages, PagingType
    <3> QED
      BY <1>1, <1>3, <3>1, MemorySame DEF Coherent
  <2> QED
    BY <1>4, <1>5, <1>6, <2>1, TlbBack, ZenonT(40)
<1> QED
  BY <1>1, <1>3, <1>4, <1>5, <1>6, <1>7, MemorySame, Zenon DEF PagingInv

\* A new directory.
LEMMA CreateStep ==
  ASSUME Constants, PagingInv, NEW t \in Threads, pagedir_create(t)
  PROVE  PagingInv'
<1> USE DEF At, Goto, pagedir_create
<1>1. PagingType /\ Stage /\ Active /\ NotShared /\ NotFree /\ NotLost /\ TlbCoherent
  BY Zenon DEF PagingInv
<1>2. pc[t] = "load" /\ cpu = t /\ pagedir[t] = NULL /\ pd[t] = NULL /\ DirOf(t) = NULL
  BY <1>1, Zenon DEF Stage, DirOf
<1>3. CASE UNCHANGED <<free, dir, pagedir>> /\ pc' = [pc EXCEPT ![t] = "exit"]
  <2>1. /\ UNCHANGED memory /\ pd' = pd /\ cpu' = cpu /\ cr3' = cr3 /\ tlb' = tlb
        /\ \A u \in Threads : DirOf(u)' = DirOf(u)
    BY <1>3, Zenon DEF memory, DirOf
  <2>2. /\ pc' \in [Threads -> PagingLabels]
        /\ pc'[t] = "exit" /\ \A u \in Threads \ {t} : pc'[u] = pc[u]
    BY <1>1, <1>3, Zenon DEF PagingType, PagingLabels
  <2>3. PagingType'
    BY <1>1, <1>3, <2>1, <2>2 DEF PagingType, memory
  <2>4. Stage' /\ Active'
    BY <1>1, <1>2, <1>3, <2>1, <2>2 DEF Stage, Active
  <2>5. tlb = {}
    BY <1>1, <1>2, Zenon DEF Active
  <2>6. TlbCoherent'
    BY <2>1, <2>5, Zenon DEF TlbCoherent
  <2> QED
    BY <2>1, <2>3, <2>4, <2>6, MemorySame, Zenon DEF PagingInv
<1>4. ASSUME NEW p \in palloc_get_page(KernelPool),
             free' = free \ {p}, dir' = [dir EXCEPT ![p] = NoDir],
             pagedir' = [pagedir EXCEPT ![t] = p], pc' = [pc EXCEPT ![t] = "activate"]
      PROVE  PagingInv'
  <2>1. p \in free /\ p \in KernelPool /\ p \in Pages /\ p # NULL /\ p \notin UserPool
    BY <1>4, Pools, Zenon DEF palloc_get_page
  <2>2. table' = table /\ pd' = pd /\ cpu' = cpu /\ cr3' = cr3 /\ tlb' = tlb
    BY Zenon
  <2>3. /\ dir' \in [Pages -> [PdNos -> KernelPool \cup {NULL}]]
        /\ \A k \in PdNos : dir'[p][k] = NULL
        /\ \A q \in Pages \ {p} : dir'[q] = dir[q]
    BY <1>1, <1>4, <2>1, Zenon DEF PagingType, NoDir
  <2>4. /\ pagedir' \in [Threads -> KernelPool \cup {NULL}] /\ pc' \in [Threads -> PagingLabels]
        /\ pagedir'[t] = p /\ pc'[t] = "activate"
        /\ \A u \in Threads \ {t} : pagedir'[u] = pagedir[u] /\ pc'[u] = pc[u]
    BY <1>1, <1>4, <2>1 DEF PagingType, PagingLabels
  <2>5. PagingType'
    BY <1>1, <1>4, <2>2, <2>3, <2>4 DEF PagingType
  <2>6. Stage' /\ Active'
    BY <1>1, <1>2, <2>1, <2>2, <2>4 DEF Stage, Active
  <2>7. DirOf(t)' = p /\ \A u \in Threads \ {t} : DirOf(u)' = DirOf(u)
    BY <1>2, <2>1, <2>2, <2>4, Zenon DEF DirOf
  <2>8. \A u \in Threads, k \in PdNos : TableOf(u, k)' = TableOf(u, k)
    <3>1. \A k \in PdNos : TableOf(t, k)' = NULL /\ TableOf(t, k) = NULL
      BY <1>2, <2>1, <2>3, <2>7, Zenon DEF TableOf
    <3>2. \A u \in Threads \ {t}, k \in PdNos : TableOf(u, k)' = TableOf(u, k)
      <4>1. \A u \in Threads \ {t} : DirOf(u) # NULL => DirOf(u) \in Pages \ {p}
        BY <1>1, <2>1, Places, Pools, ZenonT(40) DEF NotFree
      <4> QED
        BY <2>3, <2>7, <4>1, Zenon DEF TableOf
    <3> QED
      BY <3>1, <3>2, Zenon
  <2>9. \A u \in Threads, k \in PdNos, l \in PtNos : PageOf(u, k, l)' = PageOf(u, k, l)
    BY <2>2, <2>8 DEF PageOf, EntryOf
  <2>10. NotShared'
    <3>1. \A u \in Threads : DirOf(u) # p /\ \A k \in PdNos : TableOf(u, k) # p
      BY <1>1, <2>1 DEF NotFree
    <3> QED
      BY <1>1, <2>1, <2>7, <2>8, <2>9, <3>1 DEF NotShared
  <2>11. NotFree'
    BY <1>1, <1>4, <2>7, <2>8, <2>9 DEF NotFree
  <2>12. NotLost'
    <3> SUFFICES ASSUME NEW r \in Pages \ free'
                 PROVE  \E u \in Threads :
                          \/ DirOf(u)' = r
                          \/ \E k \in PdNos : TableOf(u, k)' = r \/ \E l \in PtNos : PageOf(u, k, l)' = r
      BY Zenon DEF NotLost
    <3>1. CASE r = p
      BY <2>7, <3>1, Zenon
    <3>2. CASE r # p
      <4>1. PICK u \in Threads :
              \/ DirOf(u) = r
              \/ \E k \in PdNos : TableOf(u, k) = r \/ \E l \in PtNos : PageOf(u, k, l) = r
        BY <1>1, <1>4, <3>2, Zenon DEF NotLost
      <4>2. DirOf(u) = r => DirOf(u)' = r
        BY <1>2, <2>7, Pools, Zenon
      <4> QED
        BY <2>8, <2>9, <4>1, <4>2
    <3> QED
      BY <3>1, <3>2, Zenon
  <2>13. TlbCoherent'
    BY <1>1, <1>2, <2>2, Zenon DEF TlbCoherent, Active
  <2> QED
    BY <2>5, <2>6, <2>10, <2>11, <2>12, <2>13, Zenon DEF PagingInv
<1> QED
  BY <1>3, <1>4, Zenon

\* A free page p is mapped by the table q, which is there or was free as well.
LEMMA FillAccount ==
  ASSUME Constants, PagingType, NotShared, NotFree, NotLost,
         NEW w \in Threads, NEW k \in PdNos, NEW l \in PtNos,
         NEW p \in free \cap UserPool, NEW q \in KernelPool,
         q = TableOf(w, k) \/ (TableOf(w, k) = NULL /\ q \in free),
         PageOf(w, k, l) = NULL, DirOf(w) # NULL,
         \A t \in Threads : DirOf(t)' = DirOf(t),
         TableOf(w, k)' = q, PageOf(w, k, l)' = p,
         \A t \in Threads, m \in PdNos : <<t, m>> # <<w, k>> => TableOf(t, m)' = TableOf(t, m),
         \A t \in Threads, m \in PdNos, n \in PtNos :
           <<t, m, n>> # <<w, k, l>> => PageOf(t, m, n)' = PageOf(t, m, n),
         free' = free \ {p, q}
  PROVE  NotShared' /\ NotFree' /\ NotLost'
<1>1. p # NULL /\ q # NULL
  BY Pools, Zenon
<1>2. \A t \in Threads, m \in PdNos :
        /\ TableOf(t, m) # NULL => TableOf(t, m)' = TableOf(t, m)
        /\ TableOf(t, m)' = TableOf(t, m) \/ (<<t, m>> = <<w, k>> /\ TableOf(t, m)' = q /\ q \in free)
  BY Zenon
<1>3. \A t \in Threads, m \in PdNos, n \in PtNos :
        /\ PageOf(t, m, n) # NULL => PageOf(t, m, n)' = PageOf(t, m, n)
        /\ PageOf(t, m, n)' = PageOf(t, m, n) \/ (<<t, m, n>> = <<w, k, l>> /\ PageOf(t, m, n)' = p)
  BY Zenon
<1>4. NotShared'
  <2>1. ASSUME NEW t \in Threads, NEW u \in Threads, t # u, DirOf(t)' # NULL
        PROVE  DirOf(t)' # DirOf(u)'
    BY <2>1 DEF NotShared
  <2>2. ASSUME NEW t \in Threads, NEW m \in PdNos, TableOf(t, m)' # NULL
        PROVE  \A u \in Threads : TableOf(t, m)' # DirOf(u)'
    BY <1>2, <2>2 DEF NotShared, NotFree
  <2>3. ASSUME NEW t \in Threads, NEW m \in PdNos, TableOf(t, m)' # NULL,
               NEW u \in Threads, NEW n \in PdNos, <<t, m>> # <<u, n>>
        PROVE  TableOf(t, m)' # TableOf(u, n)'
    <3>1. \/ TableOf(t, m)' = TableOf(t, m) /\ TableOf(u, n)' = TableOf(u, n)
          \/ <<t, m>> = <<w, k>> /\ TableOf(t, m)' = q /\ q \in free /\ TableOf(u, n)' = TableOf(u, n)
          \/ <<u, n>> = <<w, k>> /\ TableOf(u, n)' = q /\ q \in free /\ TableOf(t, m)' = TableOf(t, m)
      BY <1>2, <2>3, Zenon
    <3> QED
      BY <2>3, <3>1 DEF NotShared, NotFree
  <2>4. ASSUME NEW t \in Threads, NEW m \in PdNos, NEW h \in PtNos, PageOf(t, m, h)' # NULL,
               NEW u \in Threads, NEW n \in PdNos, NEW o \in PtNos, <<t, m, h>> # <<u, n, o>>
        PROVE  PageOf(t, m, h)' # PageOf(u, n, o)'
    <3>1. \/ PageOf(t, m, h)' = PageOf(t, m, h) /\ PageOf(u, n, o)' = PageOf(u, n, o)
          \/ PageOf(t, m, h)' = p /\ PageOf(u, n, o)' = PageOf(u, n, o)
          \/ PageOf(u, n, o)' = p /\ PageOf(t, m, h)' = PageOf(t, m, h)
      BY <1>3, <2>4
    <3>2. PageOf(t, m, h) # NULL => TableOf(t, m) # NULL
      BY EmptyEntry, Zenon DEF PageOf, EntryOf
    <3> QED
      BY <2>4, <3>1, <3>2 DEF NotShared, NotFree
  <2> QED
    BY <2>1, <2>2, <2>3, <2>4 DEF NotShared
<1>5. NotFree'
  BY <1>2, <1>3 DEF NotFree
<1>6. NotLost'
  <2> SUFFICES ASSUME NEW r \in Pages \ free'
               PROVE  \E u \in Threads :
                        \/ DirOf(u)' = r
                        \/ \E m \in PdNos : TableOf(u, m)' = r \/ \E n \in PtNos : PageOf(u, m, n)' = r
    BY Zenon DEF NotLost
  <2>1. CASE r \in {p, q}
    BY <2>1, Zenon
  <2>2. CASE r \notin {p, q}
    <3>1. PICK u \in Threads :
            \/ DirOf(u) = r
            \/ \E m \in PdNos : TableOf(u, m) = r \/ \E n \in PtNos : PageOf(u, m, n) = r
      BY <2>2, Zenon DEF NotLost
    <3>2. r # NULL
      BY Pools, Zenon
    <3> QED
      BY <1>2, <1>3, <3>1, <3>2
  <2> QED
    BY <2>1, <2>2, Zenon
<1> QED
  BY <1>4, <1>5, <1>6, Zenon

\* install_page.
LEMMA SetPageStep ==
  ASSUME Constants, PagingInv, NEW t \in Threads, NEW v \in UserPages,
         NEW b \in BOOLEAN, pagedir_set_page(t, v, b)
  PROVE  PagingInv'
<1> USE DEF At
<1>1. PagingType /\ Stage /\ Active /\ NotShared /\ NotFree /\ NotLost /\ TlbCoherent
  BY Zenon DEF PagingInv
<1>2. /\ cpu = t /\ pc[t] = "run" /\ ~Entry(pagedir[t], v).P
      /\ UNCHANGED <<pagedir, pd, pc, cpu, cr3, tlb>>
  BY Zenon DEF pagedir_set_page
<1>3. pagedir[t] = DirOf(t) /\ DirOf(t) # NULL /\ cr3 = DirOf(t)
  BY <1>1, <1>2, Zenon DEF Stage, Active, DirOf
<1>4. PICK k \in PdNos, l \in PtNos : v = <<k, l>> /\ v[1] = k /\ v[2] = l
  BY DEF UserPages
<1>5. /\ Table(pagedir[t], v) = TableOf(t, k)
      /\ ~EntryOf(t, k, l).P /\ PageOf(t, k, l) = NULL
  BY <1>2, <1>3, <1>4, EntryIs, Zenon DEF PageOf
<1>6. \A u \in Threads : DirOf(u)' = DirOf(u)
  BY <1>2, Zenon DEF DirOf
<1>7. PICK p \in palloc_get_page(UserPool) :
        \/ /\ TableOf(t, k) # NULL
           /\ table' = [table EXCEPT ![TableOf(t, k)][l] = NewEntry(p, b)]
           /\ free' = free \ {p} /\ dir' = dir
        \/ /\ TableOf(t, k) = NULL
           /\ \E q \in palloc_get_page(KernelPool) :
                /\ dir' = [dir EXCEPT ![DirOf(t)][k] = q]
                /\ table' = [table EXCEPT ![q] =
                               [NoTable EXCEPT ![l] = NewEntry(p, b)]]
                /\ free' = free \ {p, q}
  BY <1>3, <1>4, <1>5, Zenon DEF pagedir_set_page, SetEntry
<1>8. /\ p \in free \cap UserPool /\ p # NULL
      /\ NewEntry(p, b) \in Entries /\ NewEntry(p, b).P
      /\ NewEntry(p, b).page = p
  BY Pools, EmptyEntry, Zenon DEF palloc_get_page
<1> DEFINE Filled ==
      /\ free' \subseteq Pages
      /\ dir' \in [Pages -> [PdNos -> KernelPool \cup {NULL}]]
      /\ table' \in [Pages -> [PtNos -> Entries]]
      /\ \A q \in Pages, n \in PtNos : table'[q][n].P => table'[q][n].page # NULL
      /\ NotShared' /\ NotFree' /\ NotLost'
      /\ \A m \in PdNos, n \in PtNos :
           <<m, n>> # <<k, l>> => EntryOf(t, m, n)' = EntryOf(t, m, n)
<1>9. Filled
  <2>1. CASE /\ TableOf(t, k) # NULL
             /\ table' = [table EXCEPT ![TableOf(t, k)][l] = NewEntry(p, b)]
             /\ free' = free \ {p} /\ dir' = dir
    <3>1. /\ table' \in [Pages -> [PtNos -> Entries]]
          /\ \A q \in Pages, n \in PtNos : table'[q][n].P => table'[q][n].page # NULL
          /\ \A u \in Threads, m \in PdNos : TableOf(u, m)' = TableOf(u, m)
          /\ EntryOf(t, k, l)' = NewEntry(p, b)
          /\ \A u \in Threads, m \in PdNos, n \in PtNos :
               <<u, m, n>> # <<t, k, l>> => EntryOf(u, m, n)' = EntryOf(u, m, n)
      <4>1. PICK e \in Entries : e = NewEntry(p, b)
        BY <1>8, Zenon
      <4>2. e.P => e.page # NULL
        BY <1>8, <4>1, Zenon
      <4>3. Sets(t, k, l, e)
        BY <1>2, <2>1, <4>1, <4>2, Zenon DEF Sets
      <4>4. /\ table' \in [Pages -> [PtNos -> Entries]]
            /\ \A q \in Pages, n \in PtNos : table'[q][n].P => table'[q][n].page # NULL
            /\ \A u \in Threads, m \in PdNos : TableOf(u, m)' = TableOf(u, m)
            /\ EntryOf(t, k, l)' = e
            /\ \A u \in Threads, m \in PdNos, n \in PtNos :
                 <<u, m, n>> # <<t, k, l>> => EntryOf(u, m, n)' = EntryOf(u, m, n)
        BY <1>1, <4>3, SetEntryIs
      <4> QED
        BY <4>1, <4>4, Zenon
    <3>2. /\ PageOf(t, k, l)' = p
          /\ \A u \in Threads, m \in PdNos, n \in PtNos :
               <<u, m, n>> # <<t, k, l>> => PageOf(u, m, n)' = PageOf(u, m, n)
      BY <1>8, <3>1, Zenon DEF PageOf
    <3>3. TableOf(t, k) \in KernelPool /\ TableOf(t, k) \notin free
      BY <1>1, <2>1, Places, Zenon DEF NotFree
    <3>4. free' = free \ {p, TableOf(t, k)}
      BY <2>1, <3>3, Zenon
    <3>5. /\ DirOf(t) # NULL /\ PageOf(t, k, l) = NULL /\ p \in free \cap UserPool
          /\ \A u \in Threads : DirOf(u)' = DirOf(u)
          /\ TableOf(t, k)' = TableOf(t, k)
          /\ \A u \in Threads, m \in PdNos : <<u, m>> # <<t, k>> => TableOf(u, m)' = TableOf(u, m)
      BY <1>3, <1>5, <1>6, <1>8, <3>1, Zenon
    <3>6. NotShared' /\ NotFree' /\ NotLost'
      BY <1>1, <3>2, <3>3, <3>4, <3>5, FillAccount, Zenon
    <3> QED
      BY <1>1, <2>1, <3>1, <3>6, Zenon DEF PagingType
  <2>2. ASSUME TableOf(t, k) = NULL, NEW q \in palloc_get_page(KernelPool),
               dir' = [dir EXCEPT ![DirOf(t)][k] = q],
               table' = [table EXCEPT ![q] = [NoTable EXCEPT ![l] = NewEntry(p, b)]],
               free' = free \ {p, q}
        PROVE  Filled
    <3>1. q \in KernelPool /\ q \in free /\ q # NULL /\ q \in Pages
      BY <2>2, Pools, Zenon DEF palloc_get_page
    <3>2. DirOf(t) \in Pages /\ dir[DirOf(t)] \in [PdNos -> KernelPool \cup {NULL}]
      BY <1>1, <1>3, Places, Pools, Zenon DEF PagingType
    <3>3. /\ dir' \in [Pages -> [PdNos -> KernelPool \cup {NULL}]]
          /\ dir'[DirOf(t)][k] = q
          /\ \A d \in Pages, m \in PdNos : <<d, m>> # <<DirOf(t), k>> => dir'[d][m] = dir[d][m]
      <4>1. dir' = [dir EXCEPT ![DirOf(t)] = [dir[DirOf(t)] EXCEPT ![k] = q]]
        BY <2>2, Zenon
      <4>2. [dir[DirOf(t)] EXCEPT ![k] = q] \in [PdNos -> KernelPool \cup {NULL}]
        BY <3>1, <3>2, Zenon
      <4>3. /\ dir' \in [Pages -> [PdNos -> KernelPool \cup {NULL}]]
            /\ dir'[DirOf(t)] = [dir[DirOf(t)] EXCEPT ![k] = q]
            /\ \A d \in Pages \ {DirOf(t)} : dir'[d] = dir[d]
        BY <1>1, <3>2, <4>1, <4>2, Zenon DEF PagingType
      <4> QED
        BY <3>2, <4>3, Zenon
    <3>4. PICK new : new = [NoTable EXCEPT ![l] = NewEntry(p, b)]
      BY Zenon
    <3>5. /\ new \in [PtNos -> Entries] /\ new[l] = NewEntry(p, b)
          /\ \A n \in PtNos \ {l} : new[n] = NoEntry
      BY <1>8, <3>4, EmptyEntry, Zenon DEF NoTable
    <3>6. /\ table' \in [Pages -> [PtNos -> Entries]] /\ table'[q] = new
          /\ \A d \in Pages \ {q} : table'[d] = table[d]
      BY <1>1, <2>2, <3>1, <3>4, <3>5, Zenon DEF PagingType
    <3>7. \A d \in Pages, n \in PtNos : table'[d][n].P => table'[d][n].page # NULL
      <4>1. \A n \in PtNos : new[n].P => new[n].page # NULL
        BY <1>8, <3>5, EmptyEntry, Zenon
      <4>2. \A d \in Pages, n \in PtNos : table[d][n].P => table[d][n].page # NULL
        BY <1>1, Zenon DEF PagingType
      <4>3. ASSUME NEW d \in Pages, NEW n \in PtNos, table'[d][n].P
            PROVE  table'[d][n].page # NULL
        <5>1. CASE d = q
          BY <3>6, <4>1, <4>3, <5>1, Zenon
        <5>2. CASE d # q
          BY <3>6, <4>2, <4>3, <5>2, Zenon
        <5> QED
          BY <5>1, <5>2, Zenon
      <4> QED
        BY <4>3, Zenon
    <3>8. /\ TableOf(t, k)' = q
          /\ \A u \in Threads, m \in PdNos : <<u, m>> # <<t, k>> => TableOf(u, m)' = TableOf(u, m)
      <4>1. \A u \in Threads : DirOf(u) # NULL => DirOf(u) \in Pages
        BY <1>1, Places, Pools, Zenon
      <4>2. \A u \in Threads \ {t} : DirOf(u) # DirOf(t)
        BY <1>1, <1>3, Zenon DEF NotShared
      <4> QED
        BY <1>3, <1>6, <3>3, <4>1, <4>2, Zenon DEF TableOf
    <3>9. /\ EntryOf(t, k, l)' = NewEntry(p, b) /\ EntryOf(t, k, l) = NoEntry
          /\ \A n \in PtNos \ {l} : EntryOf(t, k, n)' = NoEntry /\ EntryOf(t, k, n) = NoEntry
      BY <2>2, <3>1, <3>5, <3>6, <3>8, Zenon DEF EntryOf
    <3>10. \A u \in Threads, m \in PdNos, n \in PtNos :
             <<u, m>> # <<t, k>> => EntryOf(u, m, n)' = EntryOf(u, m, n)
      <4>1. \A u \in Threads, m \in PdNos : TableOf(u, m) # NULL => TableOf(u, m) \in Pages \ {q}
        BY <1>1, <3>1, Places, Pools DEF NotFree
      <4> QED
        BY <3>6, <3>8, <4>1, Zenon DEF EntryOf
    <3>11. \A u \in Threads, m \in PdNos, n \in PtNos :
             <<u, m, n>> # <<t, k, l>> => EntryOf(u, m, n)' = EntryOf(u, m, n)
      BY <3>9, <3>10, Zenon
    <3>12. /\ PageOf(t, k, l)' = p
           /\ \A u \in Threads, m \in PdNos, n \in PtNos :
                <<u, m, n>> # <<t, k, l>> => PageOf(u, m, n)' = PageOf(u, m, n)
      BY <1>8, <3>9, <3>11 DEF PageOf
    <3>13. NotShared' /\ NotFree' /\ NotLost'
      BY <1>1, <1>3, <1>5, <1>6, <1>8, <2>2, <3>1, <3>8, <3>12, FillAccount, Zenon
    <3>14. free' \subseteq Pages
      BY <1>1, <2>2, Zenon DEF PagingType
    <3> QED
      BY <3>3, <3>6, <3>7, <3>11, <3>13, <3>14, Zenon
  <2> QED
    BY <1>7, <2>1, <2>2, Zenon
<1>10. PagingType'
  BY <1>1, <1>2, <1>9, Zenon DEF PagingType
<1>11. Stage' /\ Active'
  BY <1>1, <1>2, Zenon DEF Stage, Active
<1>12. TlbCoherent'
  <2>1. ASSUME NEW c \in tlb' PROVE Coherent(c)'
    <3>1. Coherent(c) /\ c.user[1] \in PdNos /\ c.user[2] \in PtNos
      BY <1>1, <1>2, <2>1, TlbIs, Zenon DEF UserPages
    <3>2. <<c.user[1], c.user[2]>> # <<k, l>>
      BY <1>2, <1>5, <3>1, Zenon DEF Coherent, Agrees
    <3> QED
      BY <1>2, <1>9, <3>1, <3>2, Zenon DEF Coherent
  <2> QED
    BY <1>10, <1>11, <2>1, TlbBack, Zenon
<1> QED
  BY <1>9, <1>10, <1>11, <1>12, Zenon DEF PagingInv

\* An entry whose bits are set maps the page it mapped before.
LEMMA BitsAccount ==
  ASSUME Constants, PagingInv, NEW w \in Threads, NEW k \in PdNos, NEW l \in PtNos,
         NEW e \in Entries, Sets(w, k, l, e), free' = free,
         e.P = EntryOf(w, k, l).P, e.page = EntryOf(w, k, l).page
  PROVE  /\ table' \in [Pages -> [PtNos -> Entries]]
         /\ \A q \in Pages, n \in PtNos : table'[q][n].P => table'[q][n].page # NULL
         /\ NotShared' /\ NotFree' /\ NotLost'
         /\ EntryOf(w, k, l)' = e
         /\ \A t \in Threads, m \in PdNos, n \in PtNos :
              <<t, m, n>> # <<w, k, l>> => EntryOf(t, m, n)' = EntryOf(t, m, n)
<1>1. /\ table' \in [Pages -> [PtNos -> Entries]]
      /\ \A q \in Pages, n \in PtNos : table'[q][n].P => table'[q][n].page # NULL
      /\ \A t \in Threads : /\ DirOf(t)' = DirOf(t)
                            /\ \A m \in PdNos : TableOf(t, m)' = TableOf(t, m)
      /\ EntryOf(w, k, l)' = e
      /\ \A t \in Threads, m \in PdNos, n \in PtNos :
           <<t, m, n>> # <<w, k, l>> => EntryOf(t, m, n)' = EntryOf(t, m, n)
  BY SetEntryIs DEF PagingInv
<1>2. SamePlaces
  BY <1>1 DEF SamePlaces, PageOf
<1> QED
  BY <1>1, <1>2, SameAccount, Zenon DEF PagingInv

\* pagedir_set_dirty and pagedir_set_accessed.
LEMMA BitsStep ==
  ASSUME Constants, PagingInv, NEW d \in Directories, NEW v \in UserPages,
         NEW b \in BOOLEAN, pagedir_set_dirty(d, v, b) \/ pagedir_set_accessed(d, v, b)
  PROVE  PagingInv'
<1>1. PagingType /\ Stage /\ Active /\ NotShared /\ TlbCoherent
  BY Zenon DEF PagingInv
<1>2. PICK w \in Threads : d = DirOf(w) /\ DirOf(w) # NULL
  BY <1>1, WhoHas, Zenon
<1>3. PICK k \in PdNos, l \in PtNos :
        /\ v = <<k, l>> /\ v[1] = k /\ v[2] = l
        /\ Table(d, v) = TableOf(w, k) /\ Entry(d, v) = EntryOf(w, k, l)
  BY <1>2, EntryIs, Zenon
<1>4. PICK e : /\ \/ e = [EntryOf(w, k, l) EXCEPT !.D = b] /\ SetBits(d, v, e, ~b)
                  \/ e = [EntryOf(w, k, l) EXCEPT !.A = b] /\ SetBits(d, v, e, ~b)
  BY <1>3, Zenon DEF pagedir_set_dirty, pagedir_set_accessed
<1>5. /\ e \in Entries /\ e.P = EntryOf(w, k, l).P /\ e.page = EntryOf(w, k, l).page
      /\ e.W = EntryOf(w, k, l).W
      /\ b => (EntryOf(w, k, l).A => e.A) /\ (EntryOf(w, k, l).D => e.D)
      /\ EntryOf(w, k, l).P => EntryOf(w, k, l).page # NULL
  <2>1. EntryOf(w, k, l) \in Entries /\ (EntryOf(w, k, l).P => EntryOf(w, k, l).page # NULL)
    BY <1>1, Places, Zenon
  <2> QED
    BY <1>4, <2>1, Zenon DEF Entries
<1>6. /\ Sets(w, k, l, e) /\ free' = free /\ UNCHANGED <<pagedir, pd, pc, cpu>> /\ dir' = dir
      /\ IF ~b /\ cr3 = d THEN cr3' = cr3 /\ tlb' = {} ELSE cr3' = cr3 /\ tlb' = tlb
  BY <1>3, <1>4, <1>5, Zenon DEF SetBits, SetEntry, invalidate_pagedir,
                          pagedir_activate, Sets
<1>7. /\ table' \in [Pages -> [PtNos -> Entries]]
      /\ \A q \in Pages, n \in PtNos : table'[q][n].P => table'[q][n].page # NULL
      /\ NotShared' /\ NotFree' /\ NotLost'
      /\ EntryOf(w, k, l)' = e
      /\ \A t \in Threads, m \in PdNos, n \in PtNos :
           <<t, m, n>> # <<w, k, l>> => EntryOf(t, m, n)' = EntryOf(t, m, n)
  BY <1>5, <1>6, BitsAccount
<1>8. PagingType'
  BY <1>1, <1>6, <1>7, Zenon DEF PagingType
<1>9. Stage' /\ Active'
  BY <1>1, <1>6, Zenon DEF Stage, Active
<1>10. TlbCoherent'
  <2>1. ASSUME NEW c \in tlb' PROVE Coherent(c)'
    <3>1. /\ Coherent(c) /\ c.user[1] \in PdNos /\ c.user[2] \in PtNos /\ cpu \in Threads
          /\ cr3 = DirOf(cpu) /\ ~(~b /\ cr3 = d)
      BY <1>1, <1>6, <2>1, TlbIs, Zenon DEF UserPages, PagingType
    <3>2. CASE <<cpu, c.user[1], c.user[2]>> = <<w, k, l>>
      <4>1. b /\ Agrees(c, EntryOf(w, k, l))
        BY <1>2, <3>1, <3>2, Zenon DEF Coherent
      <4>2. Agrees(c, e)
        BY <1>5, <4>1, Zenon DEF Agrees
      <4> QED
        BY <1>6, <1>7, <3>2, <4>2, Zenon DEF Coherent
    <3>3. CASE <<cpu, c.user[1], c.user[2]>> # <<w, k, l>>
      BY <1>6, <1>7, <3>1, <3>3, Zenon DEF Coherent
    <3> QED
      BY <3>2, <3>3, Zenon
  <2> QED
    BY <1>8, <1>9, <2>1, TlbBack, Zenon
<1> QED
  BY <1>7, <1>8, <1>9, <1>10, Zenon DEF PagingInv

\* The processor's accesses.
LEMMA AccessStep ==
  ASSUME Constants, PagingInv, NEW t \in Threads, NEW v \in UserPages,
         NEW write \in BOOLEAN, Access(t, v, write)
  PROVE  PagingInv'
<1>1. PagingType /\ Stage /\ Active /\ NotShared /\ TlbCoherent
  BY Zenon DEF PagingInv
<1>2. cpu = t /\ pc[t] = "run" /\ UNCHANGED <<free, dir, pagedir, pd, cpu, cr3>>
  BY Zenon DEF Access, At
<1>3. cr3 = DirOf(t) /\ DirOf(t) # NULL
  BY <1>1, <1>2, Zenon DEF Stage, Active, DirOf
<1>4. PICK k \in PdNos, l \in PtNos :
        /\ v = <<k, l>> /\ v[1] = k /\ v[2] = l
        /\ Table(cr3, v) = TableOf(t, k) /\ Entry(cr3, v) = EntryOf(t, k, l)
  BY <1>3, EntryIs, Zenon
<1>5. CASE Goto(t, "exit") /\ UNCHANGED <<table, tlb>>
  BY <1>2, <1>5, ExitStep, Zenon DEF At, memory
<1>6. ASSUME ~(Goto(t, "exit") /\ UNCHANGED <<table, tlb>>)
      PROVE  PagingInv'
  <2>1. PICK e : e = [EntryOf(t, k, l) EXCEPT !.A = TRUE, !.D = EntryOf(t, k, l).D \/ write]
    BY Zenon
  <2>2. /\ EntryOf(t, k, l).P /\ pc' = pc
        /\ table' = [table EXCEPT ![TableOf(t, k)][l] = e]
        /\ tlb' = (tlb \ Cached(v)) \cup
                  {[user |-> v, page |-> EntryOf(t, k, l).page, W |-> EntryOf(t, k, l).W,
                    D |-> EntryOf(t, k, l).D \/ write]}
    <3>1. /\ Entry(cr3, v).P /\ pc' = pc
          /\ SetEntry(cr3, v, [Entry(cr3, v) EXCEPT !.A = TRUE, !.D = Entry(cr3, v).D \/ write])
          /\ tlb' = (tlb \ Cached(v)) \cup
                    {[user |-> v, page |-> Entry(cr3, v).page, W |-> Entry(cr3, v).W,
                      D |-> Entry(cr3, v).D \/ write]}
      BY <1>6, Zenon DEF Access
    <3> QED
      BY <1>4, <2>1, <3>1, ZenonT(40) DEF SetEntry
  <2>3. EntryOf(t, k, l) \in Entries /\ EntryOf(t, k, l).page # NULL /\ TableOf(t, k) # NULL
    BY <1>1, <2>2, Places, EmptyEntry, Zenon DEF EntryOf
  <2>4. /\ e \in Entries /\ e.P = EntryOf(t, k, l).P /\ e.page = EntryOf(t, k, l).page
        /\ e.W = EntryOf(t, k, l).W /\ e.A /\ e.D = (EntryOf(t, k, l).D \/ write)
    BY <2>1, <2>3, Zenon DEF Entries
  <2>5. Sets(t, k, l, e)
    BY <1>2, <2>2, <2>3, <2>4, Zenon DEF Sets
  <2>6. /\ table' \in [Pages -> [PtNos -> Entries]]
        /\ \A q \in Pages, n \in PtNos : table'[q][n].P => table'[q][n].page # NULL
        /\ NotShared' /\ NotFree' /\ NotLost'
        /\ EntryOf(t, k, l)' = e
        /\ \A u \in Threads, m \in PdNos, n \in PtNos :
             <<u, m, n>> # <<t, k, l>> => EntryOf(u, m, n)' = EntryOf(u, m, n)
    BY <1>2, <2>4, <2>5, BitsAccount, SMTT(30)
  <2>7. PagingType'
    <3>1. \A c \in tlb' : c.user \in UserPages
      BY <1>1, <2>2 DEF PagingType
    <3> QED
      BY <1>1, <1>2, <2>2, <2>6, <3>1, Zenon DEF PagingType
  <2>8. Stage' /\ Active'
    BY <1>1, <1>2, <1>3, <2>2, Zenon DEF Stage, Active
  <2>9. TlbCoherent'
    <3>1. ASSUME NEW c \in tlb \ Cached(v) PROVE Coherent(c)'
      <4>1. Coherent(c) /\ c.user \in UserPages /\ c.user # v
        BY <1>1, TlbIs, Zenon DEF Cached
      <4>2. c.user[1] \in PdNos /\ c.user[2] \in PtNos /\ <<c.user[1], c.user[2]>> # <<k, l>>
        BY <1>4, <4>1, SMTT(30) DEF UserPages
      <4> QED
        BY <1>2, <2>6, <4>1, <4>2, Zenon DEF Coherent
    <3>2. ASSUME NEW c, c = [user |-> v, page |-> EntryOf(t, k, l).page, W |-> EntryOf(t, k, l).W,
                             D |-> EntryOf(t, k, l).D \/ write]
          PROVE  Coherent(c)'
      <4>1. Agrees(c, e)
        BY <2>2, <2>4, <3>2, Zenon DEF Agrees
      <4>2. c.user[1] = k /\ c.user[2] = l
        BY <1>4, <3>2, Zenon
      <4> QED
        BY <1>2, <2>6, <4>1, <4>2, Zenon DEF Coherent
    <3>3. \A c \in tlb' : Coherent(c)'
      BY <2>2, <3>1, <3>2, Zenon
    <3> QED
      BY <2>7, <2>8, <3>3, TlbBack, Zenon
  <2> QED
    BY <2>6, <2>7, <2>8, <2>9, Zenon DEF PagingInv
<1> QED
  BY <1>5, <1>6, Zenon

\* A page is unmapped and given back.
LEMMA ClearStep ==
  ASSUME Constants, PagingInv, NEW d \in Directories, NEW v \in UserPages,
         pagedir_clear_page(d, v)
  PROVE  PagingInv'
<1>1. PagingType /\ Stage /\ Active /\ NotShared /\ NotFree /\ NotLost /\ TlbCoherent
  BY Zenon DEF PagingInv
<1>2. PICK w \in Threads : d = DirOf(w) /\ DirOf(w) # NULL
  BY <1>1, WhoHas, Zenon
<1>3. PICK k \in PdNos, l \in PtNos :
        /\ v = <<k, l>> /\ v[1] = k /\ v[2] = l
        /\ Table(d, v) = TableOf(w, k) /\ Entry(d, v) = EntryOf(w, k, l)
  BY <1>2, EntryIs, Zenon
<1>4. PICK e : e = [EntryOf(w, k, l) EXCEPT !.P = FALSE]
  BY Zenon
<1>5. PICK p : p = EntryOf(w, k, l).page
  BY Zenon
<1>6. /\ EntryOf(w, k, l).P /\ table' = [table EXCEPT ![TableOf(w, k)][l] = e]
      /\ free' = free \cup {p} /\ UNCHANGED <<dir, pagedir, pd, pc, cpu>>
      /\ cr3' = cr3 /\ tlb' = IF cr3 = d THEN {} ELSE tlb
  BY <1>3, <1>4, <1>5, Zenon DEF pagedir_clear_page, SetEntry, invalidate_pagedir,
                          pagedir_activate
<1>7. /\ EntryOf(w, k, l) \in Entries /\ p \in UserPool /\ p # NULL /\ PageOf(w, k, l) = p
      /\ TableOf(w, k) # NULL /\ p \notin KernelPool
  <2>1. EntryOf(w, k, l) \in Entries /\ p # NULL /\ PageOf(w, k, l) = p
    BY <1>1, <1>5, <1>6, Places, Zenon DEF PageOf
  <2>2. p \in UserPool /\ p \notin KernelPool
    BY <1>5, <2>1, Pools, Zenon DEF Entries
  <2> QED
    BY <1>6, <2>1, <2>2, EmptyEntry, Zenon DEF EntryOf
<1>8. e \in Entries /\ ~e.P
  BY <1>4, <1>7, Zenon DEF Entries
<1>9. Sets(w, k, l, e)
  BY <1>6, <1>7, <1>8, Zenon DEF Sets
<1>10. /\ table' \in [Pages -> [PtNos -> Entries]]
       /\ \A q \in Pages, n \in PtNos : table'[q][n].P => table'[q][n].page # NULL
       /\ \A t \in Threads : /\ DirOf(t)' = DirOf(t)
                             /\ \A m \in PdNos : TableOf(t, m)' = TableOf(t, m)
       /\ EntryOf(w, k, l)' = e
       /\ \A t \in Threads, m \in PdNos, n \in PtNos :
            <<t, m, n>> # <<w, k, l>> => EntryOf(t, m, n)' = EntryOf(t, m, n)
  BY <1>1, <1>8, <1>9, SetEntryIs
<1>11. /\ PageOf(w, k, l)' = NULL
       /\ \A t \in Threads, m \in PdNos, n \in PtNos :
            /\ <<t, m, n>> # <<w, k, l>> => PageOf(t, m, n)' = PageOf(t, m, n)
            /\ PageOf(t, m, n)' # NULL => PageOf(t, m, n)' = PageOf(t, m, n) /\ PageOf(t, m, n) # p
  <2>1. /\ PageOf(w, k, l)' = NULL
        /\ \A t \in Threads, m \in PdNos, n \in PtNos :
             <<t, m, n>> # <<w, k, l>> => PageOf(t, m, n)' = PageOf(t, m, n)
    BY <1>8, <1>10 DEF PageOf
  <2>2. \A t \in Threads, m \in PdNos, n \in PtNos :
          <<t, m, n>> # <<w, k, l>> => PageOf(t, m, n) # p
    BY <1>1, <1>7, Zenon DEF NotShared
  <2> QED
    BY <2>1, <2>2
<1>12. NotShared'
  <2>1. ASSUME NEW t \in Threads, NEW u \in Threads,
               NEW k1 \in PdNos, NEW l1 \in PtNos, PageOf(t, k1, l1)' # NULL,
               NEW m \in PdNos, NEW n \in PtNos, <<t, k1, l1>> # <<u, m, n>>
        PROVE  PageOf(t, k1, l1)' # PageOf(u, m, n)'
    <3>1. PageOf(t, k1, l1)' = PageOf(t, k1, l1) /\ TableOf(t, k1) # NULL
      BY <1>11, <2>1, EmptyEntry, Zenon DEF PageOf, EntryOf
    <3>2. CASE PageOf(u, m, n)' = NULL
      BY <2>1, <3>2, Zenon
    <3>3. CASE PageOf(u, m, n)' # NULL
      <4>1. PageOf(u, m, n)' = PageOf(u, m, n) /\ PageOf(t, k1, l1) # NULL
        BY <1>11, <2>1, <3>1, <3>3, Zenon
      <4> QED
        BY <1>1, <2>1, <3>1, <4>1, Zenon DEF NotShared
    <3> QED
      BY <3>2, <3>3, Zenon
  <2> QED
    BY <1>1, <1>10, <2>1 DEF NotShared
<1>13. NotFree'
  <2>1. \A t \in Threads : DirOf(t) # p /\ \A m \in PdNos : TableOf(t, m) # p
    BY <1>1, <1>7, Places, Zenon
  <2>2. NULL \notin free'
    BY <1>1, <1>6, <1>7, Pools, Zenon DEF PagingType
  <2>3. ASSUME NEW t \in Threads
        PROVE  /\ DirOf(t)' \notin free'
               /\ \A m \in PdNos : TableOf(t, m)' \notin free'
    <3>1. /\ DirOf(t)' = DirOf(t) /\ DirOf(t) \notin free /\ DirOf(t) # p
          /\ \A m \in PdNos : /\ TableOf(t, m)' = TableOf(t, m) /\ TableOf(t, m) \notin free
                              /\ TableOf(t, m) # p
      BY <1>1, <1>10, <2>1, Zenon DEF NotFree
    <3>2. free' = free \cup {p}
      BY <1>6, Zenon
    <3> QED
      BY <3>1, <3>2, Zenon
  <2>4. ASSUME NEW t \in Threads, NEW m \in PdNos, NEW n \in PtNos
        PROVE  PageOf(t, m, n)' \notin free'
    <3>1. CASE PageOf(t, m, n)' = NULL
      BY <2>2, <3>1, Zenon
    <3>2. CASE PageOf(t, m, n)' # NULL
      BY <1>1, <1>6, <1>11, <3>2, ZenonT(40) DEF NotFree
    <3> QED
      BY <3>1, <3>2, Zenon
  <2> QED
    BY <2>3, <2>4, Zenon DEF NotFree
<1>14. NotLost'
  <2> SUFFICES ASSUME NEW r \in Pages \ free'
               PROVE  \E u \in Threads :
                        \/ DirOf(u)' = r
                        \/ \E m \in PdNos : TableOf(u, m)' = r \/ \E n \in PtNos : PageOf(u, m, n)' = r
    BY Zenon DEF NotLost
  <2>1. PICK u \in Threads :
          \/ DirOf(u) = r
          \/ \E m \in PdNos : TableOf(u, m) = r \/ \E n \in PtNos : PageOf(u, m, n) = r
    BY <1>1, <1>6, Zenon DEF NotLost
  <2>2. r # p
    BY <1>6, Zenon
  <2>3. \A m \in PdNos, n \in PtNos : PageOf(u, m, n) = r => PageOf(u, m, n)' = r
    BY <1>7, <1>11, <2>2, Zenon
  <2> QED
    BY <1>10, <2>1, <2>3, Zenon
<1>15. PagingType'
  BY <1>1, <1>6, <1>7, <1>10, Pools, Zenon DEF PagingType
<1>16. Stage' /\ Active'
  BY <1>1, <1>6, Zenon DEF Stage, Active
<1>17. TlbCoherent'
  <2>1. ASSUME NEW c \in tlb' PROVE Coherent(c)'
    <3>1. /\ Coherent(c) /\ c.user[1] \in PdNos /\ c.user[2] \in PtNos /\ cpu \in Threads
          /\ cr3 = DirOf(cpu) /\ cr3 # d
      BY <1>1, <1>6, <2>1, TlbIs, Zenon DEF UserPages, PagingType
    <3> QED
      BY <1>2, <1>6, <1>10, <3>1, Zenon DEF Coherent
  <2> QED
    BY <1>15, <1>16, <2>1, TlbBack, Zenon
<1> QED
  BY <1>12, <1>13, <1>14, <1>15, <1>16, <1>17, Zenon DEF PagingInv

\* What pagedir_destroy gives back is what its process has.
LEMMA FreedIs ==
  ASSUME Constants, PagingType, NEW t \in Threads, DirOf(t) # NULL
  PROVE  \A p : p \in Freed(DirOf(t)) <=>
                  /\ p # NULL
                  /\ \/ p = DirOf(t)
                     \/ \E k \in PdNos : p = TableOf(t, k) \/ \E l \in PtNos : p = PageOf(t, k, l)
<1>1. /\ DirOf(t) \in Pages /\ dir[DirOf(t)] \in [PdNos -> KernelPool \cup {NULL}]
      /\ \A k \in PdNos : TableOf(t, k) = dir[DirOf(t)][k]
  BY Places, Pools, Zenon DEF PagingType, TableOf
<1>2. \A q : q \in Tables(DirOf(t)) <=> q # NULL /\ \E k \in PdNos : q = TableOf(t, k)
  BY <1>1, Zenon DEF Tables
<1>3. ASSUME NEW p
      PROVE  (\E q \in Tables(DirOf(t)) : \E l \in PtNos : table[q][l].P /\ table[q][l].page = p)
               <=> \E k \in PdNos, l \in PtNos : p = PageOf(t, k, l) /\ p # NULL
  <2>1. ASSUME NEW q \in Tables(DirOf(t)), NEW l \in PtNos, table[q][l].P, table[q][l].page = p
        PROVE  \E k \in PdNos, n \in PtNos : p = PageOf(t, k, n) /\ p # NULL
    <3>1. PICK k \in PdNos : q = TableOf(t, k) /\ q # NULL
      BY <1>2, Zenon
    <3>2. EntryOf(t, k, l) = table[q][l]
      BY <3>1, Zenon DEF EntryOf
    <3>3. EntryOf(t, k, l).P => PageOf(t, k, l) # NULL
      BY Places, Zenon
    <3> QED
      BY <2>1, <3>2, <3>3, Zenon DEF PageOf
  <2>2. ASSUME NEW k \in PdNos, NEW l \in PtNos, p = PageOf(t, k, l), p # NULL
        PROVE  \E q \in Tables(DirOf(t)) : \E n \in PtNos : table[q][n].P /\ table[q][n].page = p
    <3>1. EntryOf(t, k, l).P /\ EntryOf(t, k, l).page = p /\ TableOf(t, k) # NULL
      BY <2>2, EmptyEntry, Zenon DEF PageOf, EntryOf
    <3>2. TableOf(t, k) \in Tables(DirOf(t)) /\ EntryOf(t, k, l) = table[TableOf(t, k)][l]
      BY <1>2, <3>1, Zenon DEF EntryOf
    <3> QED
      BY <3>1, <3>2, Zenon
  <2> QED
    BY <2>1, <2>2, Zenon
<1>4. \A k \in PdNos, l \in PtNos : PageOf(t, k, l) # NULL => PageOf(t, k, l) \in Pages
  BY Places, Pools, Zenon
<1> QED
  BY <1>2, <1>3, <1>4 DEF Freed, Referenced

\* Two threads have no page in common.
LEMMA NothingShared ==
  ASSUME Constants, PagingType, NotShared, NEW t \in Threads, NEW u \in Threads, t # u,
         DirOf(t) # NULL
  PROVE  /\ DirOf(u) \notin Freed(DirOf(t))
         /\ \A k \in PdNos : TableOf(u, k) \notin Freed(DirOf(t))
         /\ \A k \in PdNos, l \in PtNos : PageOf(u, k, l) \notin Freed(DirOf(t))
<1>1. \A p \in Freed(DirOf(t)) :
        /\ p # NULL
        /\ p = DirOf(t) \/ \E k \in PdNos : p = TableOf(t, k) \/ \E l \in PtNos : p = PageOf(t, k, l)
  BY FreedIs, Zenon
<1>2. /\ DirOf(u) \in KernelPool \cup {NULL}
      /\ \A k \in PdNos : TableOf(u, k) \in KernelPool \cup {NULL}
      /\ \A k \in PdNos, l \in PtNos : PageOf(u, k, l) \in UserPool \cup {NULL}
  BY Places, Zenon
<1>3. /\ DirOf(t) \in KernelPool \cup {NULL}
      /\ \A k \in PdNos : TableOf(t, k) \in KernelPool \cup {NULL}
      /\ \A k \in PdNos, l \in PtNos : PageOf(t, k, l) \in UserPool \cup {NULL}
  BY Places, Zenon
<1>4. DirOf(u) \notin Freed(DirOf(t))
  BY <1>1, <1>2, <1>3, Pools DEF NotShared
<1>5. \A k \in PdNos : TableOf(u, k) \notin Freed(DirOf(t))
  BY <1>1, <1>2, <1>3, Pools DEF NotShared
<1>6. ASSUME NEW k \in PdNos, NEW l \in PtNos, PageOf(u, k, l) \in Freed(DirOf(t))
      PROVE  FALSE
  <2>1. PICK m \in PdNos, n \in PtNos : PageOf(u, k, l) = PageOf(t, m, n) /\ PageOf(t, m, n) # NULL
    BY <1>1, <1>2, <1>3, <1>6, Pools, SMTT(30)
  <2>2. TableOf(t, m) # NULL
    BY <2>1, EmptyEntry, Zenon DEF PageOf, EntryOf
  <2> QED
    BY <2>1, <2>2, Zenon DEF NotShared
<1> QED
  BY <1>4, <1>5, <1>6, Zenon

\* The end of process_exit.
LEMMA DestroyStep ==
  ASSUME Constants, PagingInv, NEW t \in Threads, pagedir_destroy(t)
  PROVE  PagingInv'
<1>1. PagingType /\ Stage /\ Active /\ NotShared /\ NotFree /\ NotLost /\ TlbCoherent
  BY Zenon DEF PagingInv
<1>2. cpu = t /\ pc[t] = "destroy" /\ pd[t] # NULL /\ pagedir[t] = NULL /\ DirOf(t) = pd[t]
  BY <1>1, Zenon DEF pagedir_destroy, At, Stage, DirOf
<1>3. PICK gone : gone = Freed(DirOf(t))
  BY Zenon
<1>4. /\ free' = free \cup gone
      /\ dir' = [p \in Pages |-> IF p \in gone THEN NoDir ELSE dir[p]]
      /\ table' = [p \in Pages |-> IF p \in gone THEN NoTable ELSE table[p]]
      /\ pd' = [pd EXCEPT ![t] = NULL] /\ pc' = [pc EXCEPT ![t] = "done"]
      /\ UNCHANGED <<pagedir, cpu, cr3, tlb>>
  BY <1>2, <1>3, Zenon DEF pagedir_destroy, Goto
<1>5. \A p \in gone : p \in Pages
  <2>1. \A p \in gone :
          /\ p # NULL
          /\ p = DirOf(t) \/ \E k \in PdNos : p = TableOf(t, k) \/ \E l \in PtNos : p = PageOf(t, k, l)
    BY <1>1, <1>2, <1>3, FreedIs
  <2> QED
    BY <1>1, <2>1, Places, Pools, SMTT(30)
<1>6. PagingType'
  <2>1. dir' \in [Pages -> [PdNos -> KernelPool \cup {NULL}]]
    BY <1>1, <1>4, Zenon DEF PagingType, NoDir
  <2>2. NoTable \in [PtNos -> Entries] /\ \A k \in PtNos : ~NoTable[k].P
    BY EmptyEntry, Zenon DEF NoTable
  <2>3. table' \in [Pages -> [PtNos -> Entries]]
    BY <1>1, <1>4, <2>2, Zenon DEF PagingType
  <2>4. ASSUME NEW q \in Pages, NEW k \in PtNos, table'[q][k].P
        PROVE  table'[q][k].page # NULL
    <3>1. CASE q \in gone
      BY <1>4, <2>2, <2>4, <3>1, Zenon
    <3>2. CASE q \notin gone
      BY <1>1, <1>4, <2>4, <3>2, Zenon DEF PagingType
    <3> QED
      BY <3>1, <3>2, Zenon
  <2>5. pd' \in [Threads -> KernelPool \cup {NULL}] /\ pc' \in [Threads -> PagingLabels]
    BY <1>1, <1>4, Zenon DEF PagingType, PagingLabels
  <2> QED
    BY <1>1, <1>4, <1>5, <2>1, <2>3, <2>4, <2>5, Zenon DEF PagingType
<1>7. /\ pd'[t] = NULL /\ pc'[t] = "done"
      /\ \A u \in Threads \ {t} : pd'[u] = pd[u] /\ pc'[u] = pc[u]
  BY <1>1, <1>4, Zenon DEF PagingType
<1>8. cr3 = NULL /\ tlb = {}
  BY <1>1, <1>2, Zenon DEF Active
<1>9. Stage' /\ Active'
  BY <1>1, <1>2, <1>4, <1>7, <1>8 DEF Stage, Active
<1>10. TlbCoherent'
  BY <1>4, <1>8, Zenon DEF TlbCoherent
<1>11. DirOf(t)' = NULL /\ \A u \in Threads \ {t} : DirOf(u)' = DirOf(u)
  BY <1>2, <1>4, <1>7, Zenon DEF DirOf
<1>12. \A u \in Threads \ {t}, k \in PdNos : TableOf(u, k)' = TableOf(u, k)
  <2>1. \A u \in Threads \ {t} :
          DirOf(u) # NULL => DirOf(u) \in Pages /\ dir'[DirOf(u)] = dir[DirOf(u)]
    BY <1>1, <1>2, <1>3, <1>4, NothingShared, Places, Pools, Zenon
  <2> QED
    BY <1>11, <2>1, Zenon DEF TableOf
<1>13. \A u \in Threads \ {t}, k \in PdNos, l \in PtNos : PageOf(u, k, l)' = PageOf(u, k, l)
  <2>1. \A u \in Threads \ {t}, k \in PdNos :
          TableOf(u, k) # NULL =>
            TableOf(u, k) \in Pages /\ table'[TableOf(u, k)] = table[TableOf(u, k)]
    BY <1>1, <1>2, <1>3, <1>4, NothingShared, Places, Pools, Zenon
  <2>2. \A u \in Threads \ {t}, k \in PdNos, l \in PtNos : EntryOf(u, k, l)' = EntryOf(u, k, l)
    BY <1>12, <2>1, Zenon DEF EntryOf
  <2> QED
    BY <2>2, Zenon DEF PageOf
<1>14. \A k \in PdNos : TableOf(t, k)' = NULL /\ \A l \in PtNos : PageOf(t, k, l)' = NULL
  BY <1>11, EmptyEntry, Zenon DEF TableOf, EntryOf, PageOf
<1>15. NotShared'
  BY <1>1, <1>11, <1>12, <1>13, <1>14 DEF NotShared
<1>16. NotFree'
  <2>1. NULL \notin free'
    BY <1>1, <1>4, <1>5, Pools, Zenon DEF PagingType
  <2>2. ASSUME NEW u \in Threads \ {t}
        PROVE  /\ DirOf(u)' \notin free'
               /\ \A k \in PdNos : TableOf(u, k)' \notin free'
               /\ \A k \in PdNos, l \in PtNos : PageOf(u, k, l)' \notin free'
    <3>1. /\ DirOf(u) \notin gone
          /\ \A k \in PdNos : TableOf(u, k) \notin gone
          /\ \A k \in PdNos, l \in PtNos : PageOf(u, k, l) \notin gone
      BY <1>1, <1>2, <1>3, NothingShared, Zenon
    <3> QED
      BY <1>1, <1>4, <1>11, <1>12, <1>13, <3>1, Zenon DEF NotFree
  <2> QED
    BY <1>11, <1>14, <2>1, <2>2, Zenon DEF NotFree
<1>17. NotLost'
  <2> SUFFICES ASSUME NEW r \in Pages \ free'
               PROVE  \E u \in Threads :
                        \/ DirOf(u)' = r
                        \/ \E m \in PdNos : TableOf(u, m)' = r \/ \E n \in PtNos : PageOf(u, m, n)' = r
    BY Zenon DEF NotLost
  <2>1. PICK u \in Threads :
          \/ DirOf(u) = r
          \/ \E m \in PdNos : TableOf(u, m) = r \/ \E n \in PtNos : PageOf(u, m, n) = r
    BY <1>1, <1>4, Zenon DEF NotLost
  <2>2. u # t
    BY <1>1, <1>2, <1>3, <1>4, <2>1, FreedIs, Pools, Zenon
  <2> QED
    BY <1>11, <1>12, <1>13, <2>1, <2>2, Zenon
<1> QED
  BY <1>6, <1>9, <1>10, <1>15, <1>16, <1>17, Zenon DEF PagingInv

\* All pages are free at the start.
LEMMA PagingStart == ASSUME Constants, Init PROVE PagingInv
<1>1. \A t \in Threads : DirOf(t) = NULL /\ pagedir[t] = NULL /\ pd[t] = NULL /\ pc[t] = "load"
  BY Zenon DEF Init, DirOf
<1>2. \A t \in Threads, k \in PdNos : TableOf(t, k) = NULL /\ \A l \in PtNos : PageOf(t, k, l) = NULL
  BY <1>1, EmptyEntry, Zenon DEF TableOf, EntryOf, PageOf
<1>3. NULL \notin free
  BY Pools, Zenon DEF Init
<1>4. PagingType
  <2>1. NoTable \in [PtNos -> Entries] /\ \A k \in PtNos : ~NoTable[k].P
    BY EmptyEntry, Zenon DEF NoTable
  <2>2. NoDir \in [PdNos -> KernelPool \cup {NULL}]
    BY Zenon DEF NoDir
  <2> QED
    BY <2>1, <2>2, Zenon DEF Init, PagingType, PagingLabels
<1>5. Stage /\ Active
  BY <1>1, Zenon DEF Init, Stage, Active
<1>6. NotShared /\ NotFree /\ NotLost
  BY <1>1, <1>2, <1>3, Zenon DEF NotShared, NotFree, NotLost, Init
<1>7. TlbCoherent
  BY Zenon DEF Init, TlbCoherent
<1> QED
  BY <1>4, <1>5, <1>6, <1>7, Zenon DEF PagingInv

\* Every step keeps the account of the pages.
LEMMA PagingStep ==
  ASSUME Constants, PagingInv, [Next]_vars
  PROVE  PagingInv'
<1>1. CASE UNCHANGED vars
  <2>1. UNCHANGED <<free, dir, table, pagedir, pd, pc, cpu, cr3, tlb>>
    BY <1>1, Zenon DEF vars, memory
  <2>2. \A t \in Threads : DirOf(t)' = DirOf(t)
    BY <2>1, Zenon DEF DirOf
  <2>3. NotShared' /\ NotFree' /\ NotLost'
    BY <2>1, <2>2, MemorySame, Zenon DEF memory
  <2>4. PagingType'
    BY <2>1, Zenon DEF PagingInv, PagingType
  <2>5. Stage' /\ Active'
    BY <2>1, Zenon DEF PagingInv, Stage, Active
  <2>6. TlbCoherent'
    BY <2>1, Zenon DEF PagingInv, TlbCoherent, Entry, Table
  <2> QED
    BY <2>3, <2>4, <2>5, <2>6, Zenon DEF PagingInv
<1>2. ASSUME NEW t \in Threads,
             \/ process_activate(t) \/ pagedir_create(t) \/ Activate(t)
             \/ exit(t) \/ process_exit(t) \/ Deactivate(t)
             \/ pagedir_destroy(t) \/ NewProcess(t)
      PROVE  PagingInv'
  BY <1>2, SwitchStep, ExitStep, CreateStep, DestroyStep, Zenon
<1>3. ASSUME NEW t \in Threads, NEW v \in UserPages, NEW b \in BOOLEAN,
             pagedir_set_page(t, v, b) \/ Access(t, v, b)
      PROVE  PagingInv'
  BY <1>3, SetPageStep, AccessStep, Zenon
<1>4. ASSUME NEW d \in Directories, NEW v \in UserPages,
             \/ pagedir_clear_page(d, v)
             \/ \E b \in BOOLEAN : pagedir_set_dirty(d, v, b) \/ pagedir_set_accessed(d, v, b)
      PROVE  PagingInv'
  BY <1>4, ClearStep, BitsStep, Zenon
<1> QED
  BY <1>1, <1>2, <1>3, <1>4, Zenon DEF Next

\* However many processes are loaded, run, fault and exit, and wherever the timer switches
\* between them: the processor never works with a page directory that has been freed, the
\* TLB never disagrees with the page tables, and each page of the two pools is free or in
\* exactly one place of one address space, so that process_exit gives all of them back.
THEOREM AddressSpacesSoundHolds ==
  ASSUME Constants
  PROVE  Spec => []AddressSpacesSound
<1>1. ASSUME PagingInv PROVE AddressSpacesSound
  <2>1. PagingType /\ Stage /\ Active /\ NotShared /\ NotFree /\ NotLost /\ TlbCoherent
    BY <1>1, Zenon DEF PagingInv
  <2>2. \A d : d \in Live <=> d # NULL /\ \E t \in Threads : d = DirOf(t)
    BY <2>1, Zenon DEF Live, Directories, DirOf, Stage
  <2>3. ActiveNotFreed
    <3>1. Directories \subseteq Live
      BY Zenon DEF Live, Directories
    <3>2. cr3 # NULL => cr3 \in Live
      BY <2>1, <2>2, ActiveIs, Zenon DEF PagingType
    <3>3. \A d \in Live : d \notin free
      BY <2>1, <2>2, Zenon DEF NotFree
    <3> QED
      BY <3>1, <3>2, <3>3, Zenon DEF ActiveNotFreed
  <2>4. \A d \in Live : Freed(d) \cap free = {}
    <3> SUFFICES ASSUME NEW d \in Live, NEW p \in Freed(d), p \in free PROVE FALSE
      BY Zenon
    <3>1. PICK t \in Threads : d = DirOf(t) /\ DirOf(t) # NULL
      BY <2>2, Zenon
    <3>2. p = DirOf(t) \/ \E k \in PdNos : p = TableOf(t, k) \/ \E l \in PtNos : p = PageOf(t, k, l)
      BY <2>1, <3>1, FreedIs, Zenon
    <3> QED
      BY <2>1, <3>2, Zenon DEF NotFree
  <2>5. \A p \in Pages \ free : \E d \in Live : p \in Freed(d)
    <3> SUFFICES ASSUME NEW p \in Pages \ free PROVE \E d \in Live : p \in Freed(d)
      BY Zenon
    <3>1. PICK t \in Threads :
            \/ DirOf(t) = p
            \/ \E k \in PdNos : TableOf(t, k) = p \/ \E l \in PtNos : PageOf(t, k, l) = p
      BY <2>1, Zenon DEF NotLost
    <3>2. p # NULL
      BY Pools, Zenon
    <3>3. DirOf(t) # NULL
      BY <3>1, <3>2, EmptyEntry, Zenon DEF TableOf, EntryOf, PageOf
    <3> QED
      BY <2>1, <2>2, <3>1, <3>2, <3>3, FreedIs
  <2>6. \A d \in Live : \A p \in Freed(d) : p \in Pages
    <3> SUFFICES ASSUME NEW d \in Live, NEW p \in Freed(d) PROVE p \in Pages
      BY Zenon
    <3>1. PICK t \in Threads : d = DirOf(t) /\ DirOf(t) # NULL
      BY <2>2, Zenon
    <3>2. p # NULL /\ (p = DirOf(t) \/ \E k \in PdNos : p = TableOf(t, k) \/ \E l \in PtNos : p = PageOf(t, k, l))
      BY <2>1, <3>1, FreedIs, Zenon
    <3> QED
      BY <2>1, <3>2, Places, Pools, Zenon
  <2>7. \A d, e \in Live : d # e => Freed(d) \cap Freed(e) = {}
    <3> SUFFICES ASSUME NEW d \in Live, NEW e \in Live, d # e,
                        NEW p \in Freed(d), p \in Freed(e)
                 PROVE  FALSE
      BY Zenon
    <3>1. PICK t \in Threads : d = DirOf(t) /\ DirOf(t) # NULL
      BY <2>2, Zenon
    <3>2. PICK u \in Threads : e = DirOf(u) /\ DirOf(u) # NULL
      BY <2>2, Zenon
    <3>3. p = DirOf(u) \/ \E k \in PdNos : p = TableOf(u, k) \/ \E l \in PtNos : p = PageOf(u, k, l)
      BY <2>1, <3>2, FreedIs, Zenon
    <3> QED
      BY <2>1, <3>1, <3>2, <3>3, NothingShared, Zenon
  <2>8. \A d \in Live : \A v, w \in UserPages :
          v # w /\ Entry(d, v).P /\ Entry(d, w).P
            => Entry(d, v).page # Entry(d, w).page
    <3> SUFFICES ASSUME NEW d \in Live, NEW v \in UserPages, NEW w \in UserPages,
                        v # w, Entry(d, v).P, Entry(d, w).P
                 PROVE  Entry(d, v).page # Entry(d, w).page
      BY Zenon
    <3>1. PICK t \in Threads : d = DirOf(t) /\ DirOf(t) # NULL
      BY <2>2, Zenon
    <3>2. /\ v[1] \in PdNos /\ v[2] \in PtNos /\ v = <<v[1], v[2]>>
          /\ Entry(d, v) = EntryOf(t, v[1], v[2])
          /\ w[1] \in PdNos /\ w[2] \in PtNos /\ w = <<w[1], w[2]>>
          /\ Entry(d, w) = EntryOf(t, w[1], w[2])
      BY <3>1, EntryIs, Zenon
    <3>3. /\ PageOf(t, v[1], v[2]) = Entry(d, v).page /\ PageOf(t, v[1], v[2]) # NULL
          /\ PageOf(t, w[1], w[2]) = Entry(d, w).page
      BY <2>1, <3>2, Places, Zenon DEF PageOf
    <3>4. TableOf(t, v[1]) # NULL
      BY <3>2, EmptyEntry, Zenon DEF EntryOf
    <3>5. <<t, v[1], v[2]>> # <<t, w[1], w[2]>>
      BY <3>2, Zenon
    <3> QED
      BY <2>1, <3>2, <3>3, <3>4, <3>5 DEF NotShared
  <2>9. PagesAccounted
    <3>1. \A d : Freed(d) = Referenced(d) \cup {d}
      BY Zenon DEF Freed
    <3>2. \A d, e \in Live : d # e =>
            Referenced(d) \cap (Referenced(e) \cup {e}) = {}
      BY <2>7, <3>1, Zenon
    <3>3. free \cap UNION {Referenced(d) \cup {d} : d \in Live} = {}
      BY <2>4, <3>1, Zenon
    <3>4. free \cup UNION {Referenced(d) \cup {d} : d \in Live} = Pages
      <4>1. free \subseteq Pages
        BY <2>1, Zenon DEF PagingType
      <4> QED
        BY <2>5, <2>6, <3>1, <4>1
    <3> QED
      BY <2>8, <3>2, <3>3, <3>4, Zenon DEF PagesAccounted
  <2> QED
    BY <2>1, <2>3, <2>9, Zenon DEF AddressSpacesSound
<1> QED
  BY <1>1, PagingStart, PagingStep, PTL DEF Spec
=============================================================================
