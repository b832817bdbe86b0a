------------------------------ MODULE ListSort ------------------------------
(***************************************************************************)
(* The natural merge sort of lib/kernel/list.c, step by step, for every    *)
(* list up to a length.  A pointer to an element is its position, and      *)
(* list_end is the position after the last.  The other modules use sorting *)
(* by its result, list_sort of KList; here the passes are shown to compute *)
(* that result.                                                            *)
(***************************************************************************)
EXTENDS Naturals, Sequences, FiniteSets, SequencesExt, KList

CONSTANTS MaxLen,  \* bound: length of the list
          Keys     \* what LESS compares

VARIABLES
  key,            \* of each element; the elements are named 1, 2, ...
  list,
  a0, a1b0, b1,   \* list_sort's pointers; inplace_merge moves the first two
  output_run_cnt,
  pc              \* "run" (the for loop), "merge" (inplace_merge) or "done"

less == {p \in (DOMAIN key) \X (DOMAIN key) : key[p[1]] < key[p[2]]}
End == Len(list) + 1
Identity(n) == [i \in 1..n |-> i]

Init ==
  /\ key \in UNION {[1..n -> Keys] : n \in 0..MaxLen}
  /\ list = Identity(Cardinality(DOMAIN key))
  /\ a0 = 1 /\ a1b0 = 1 /\ b1 = 1
  /\ output_run_cnt = 0
  /\ pc = "run"

\* The end of the run that starts at position a.
find_end_of_run(a) ==
  Min({j \in (a + 1)..End : j = End \/ <<list[j], list[j - 1]>> \in less})

\* Slip: the last pass is not recognised.
PassEnds_ge(runs) ==
  IF runs >= 1
  THEN a0' = 1 /\ output_run_cnt' = 0 /\ UNCHANGED pc
  ELSE pc' = "done" /\ output_run_cnt' = runs /\ UNCHANGED a0

\* The for loop is over: another pass unless only one run was left.
PassEnds(runs) ==
  IF runs > 1
  THEN a0' = 1 /\ output_run_cnt' = 0 /\ UNCHANGED pc
  ELSE pc' = "done" /\ output_run_cnt' = runs /\ UNCHANGED a0

\* Slip: the second run is taken to extend to the end of the list.
NextRun_to_end ==
  /\ pc = "run"
  /\ IF a0 = End
     THEN PassEnds(output_run_cnt) /\ UNCHANGED <<a1b0, b1>>
     ELSE IF find_end_of_run(a0) = End
     THEN PassEnds(output_run_cnt + 1) /\ UNCHANGED <<a1b0, b1>>
     ELSE /\ output_run_cnt' = output_run_cnt + 1
          /\ a1b0' = find_end_of_run(a0) /\ b1' = End
          /\ pc' = "merge" /\ UNCHANGED a0
  /\ UNCHANGED <<key, list>>

\* One turn of the for loop up to the merge.
NextRun ==
  /\ pc = "run"
  /\ IF a0 = End
     THEN PassEnds(output_run_cnt) /\ UNCHANGED <<a1b0, b1>>
     ELSE IF find_end_of_run(a0) = End
     THEN PassEnds(output_run_cnt + 1) /\ UNCHANGED <<a1b0, b1>>
     ELSE /\ output_run_cnt' = output_run_cnt + 1
          /\ a1b0' = find_end_of_run(a0) /\ b1' = find_end_of_run(a1b0')
          /\ pc' = "merge" /\ UNCHANGED a0
  /\ UNCHANGED <<key, list>>

\* list_splice of the one element at from to the place in front of to.
list_splice(s, to, from) == InsertAt(RemoveAt(s, from), to, s[from])

\* Slip: the elements are compared the other way round, so that ties swap.
inplace_merge_unstable ==
  /\ pc = "merge"
  /\ IF a0 # a1b0 /\ a1b0 # b1
     THEN IF <<list[a0], list[a1b0]>> \in less
          THEN a0' = a0 + 1 /\ UNCHANGED <<list, a1b0, pc>>
          ELSE /\ list' = list_splice(list, a0, a1b0)
               /\ a0' = a0 + 1 /\ a1b0' = a1b0 + 1 /\ UNCHANGED pc
     ELSE a0' = b1 /\ pc' = "run" /\ UNCHANGED <<list, a1b0>>
  /\ UNCHANGED <<key, b1, output_run_cnt>>

\* One turn of the loop of inplace_merge: an element of the second run moves in
\* front of a0, which keeps pointing to its element, one position further on.
\* When the loop ends list_sort goes on at b1.
inplace_merge ==
  /\ pc = "merge"
  /\ IF a0 # a1b0 /\ a1b0 # b1
     THEN IF <<list[a1b0], list[a0]>> \notin less
          THEN a0' = a0 + 1 /\ UNCHANGED <<list, a1b0, pc>>
          ELSE /\ list' = list_splice(list, a0, a1b0)
               /\ a0' = a0 + 1 /\ a1b0' = a1b0 + 1 /\ UNCHANGED pc
     ELSE a0' = b1 /\ pc' = "run" /\ UNCHANGED <<list, a1b0>>
  /\ UNCHANGED <<key, b1, output_run_cnt>>

Next == NextRun \/ inplace_merge

\* list_max and list_min: the earliest of the extreme elements.
list_max(s) == FoldLeft(LAMBDA max, e : IF <<max, e>> \in less THEN e ELSE max, Head(s), s)
list_min(s) == FoldLeft(LAMBDA min, e : IF <<e, min>> \in less THEN e ELSE min, Head(s), s)

\* Slip: one of the two tests for equality is missing.
list_unique_one_test(s) ==
  FoldLeft(LAMBDA r, e : IF r # <<>> /\ <<e, Last(r)>> \notin less THEN r ELSE Append(r, e),
           <<>>, s)

\* What list_unique keeps: each element that differs from the last one kept.
list_unique(s) ==
  FoldLeft(LAMBDA r, e : IF r # <<>> /\ <<Last(r), e>> \notin less /\ <<e, Last(r)>> \notin less
                         THEN r ELSE Append(r, e),
           <<>>, s)
-----------------------------------------------------------------------------
(* Properties.                                                             *)

is_sorted(s, from, to) ==
  \A i \in (from + 1)..(to - 1) : <<s[i], s[i - 1]>> \notin less

\* list.c, list_sort: "Pass over the list repeatedly, merging adjacent runs ...
\* until only one run is left" yields the stable sort of the list, which is the
\* list_sort of KList that sema_up is modelled with.
SortsStably ==
  pc = "done" => list = list_sort(Identity(Len(list)), less)

\* The ASSERTs of inplace_merge: "Both input ranges must be nonempty and
\* sorted", for the runs that list_sort passes to it, and it keeps what it has
\* merged and what it has not yet reached sorted.
MergeInputsSorted ==
  pc = "merge" => /\ a1b0 <= b1 /\ a0 <= a1b0
                  /\ is_sorted(list, a0, a1b0) /\ is_sorted(list, a1b0, b1)

\* list_sort terminates: a pass over more than one run leaves fewer.
Terminates == <>(pc = "done")

\* list.c, list_unique on a list that has been sorted keeps one element of
\* each key, the first, and in order; the first it keeps is list_min's and the
\* key of the last is that of list_max.
UniqueOfSorted ==
  pc = "done" /\ list # <<>> =>
    LET u == list_unique(list)
    IN  /\ {key[e] : e \in ToSet(u)} = {key[e] : e \in DOMAIN key}
        /\ \A i, j \in DOMAIN u : i < j => key[u[i]] < key[u[j]]
        /\ \A e \in ToSet(u), f \in DOMAIN key : key[e] = key[f] => e <= f
        /\ Head(u) = list_min(Identity(Len(list)))
        /\ Last(u) = list_max(Identity(Len(list)))
=============================================================================
