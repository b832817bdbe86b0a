-------------------------------- MODULE DList --------------------------------
(***************************************************************************)
(* The linked lists of lib/kernel/list.c, pointer by pointer, on which all *)
(* of the kernel's queues are built; the other modules use them as         *)
(* sequences.  An element has no more than its two pointers: an operation  *)
(* finds the list only through them, and a removed element keeps them.     *)
(* order is what the calls have asked for, as sequences.                   *)
(***************************************************************************)
EXTENDS Naturals, SequencesExt

CONSTANTS Elems,    \* pairs <<"elem", n>>
          Lists, NULL

HeadOf(l) == <<"head", l>>
TailOf(l) == <<"tail", l>>
Nodes == Elems \cup {HeadOf(l) : l \in Lists} \cup {TailOf(l) : l \in Lists}

VARIABLES next, prev, order

\* list_init, of every list.
Init ==
  /\ next = [x \in Nodes |-> IF x[1] = "head" THEN TailOf(x[2]) ELSE NULL]
  /\ prev = [x \in Nodes |-> IF x[1] = "tail" THEN HeadOf(x[2]) ELSE NULL]
  /\ order = [l \in Lists |-> <<>>]

list_begin(l) == next[HeadOf(l)]
list_end(l) == TailOf(l)
list_front(l) == next[HeadOf(l)]
list_back(l) == prev[TailOf(l)]
list_empty(l) == list_begin(l) = list_end(l)

\* The assignments of list_insert: the element goes between before and the one in
\* front of it.
Insert(before, elem) ==
  /\ prev' = [prev EXCEPT ![elem] = prev[before], ![before] = elem]
  /\ next' = [next EXCEPT ![elem] = before, ![prev[before]] = elem]

Free == Elems \ UNION {ToSet(order[l]) : l \in Lists}
Index(l, x) == CHOOSE k \in DOMAIN order[l] : order[l][k] = x

list_push_front(l, elem) ==
  /\ elem \in Free /\ Insert(list_begin(l), elem)
  /\ order' = [order EXCEPT ![l] = <<elem>> \o @]

list_push_back(l, elem) ==
  /\ elem \in Free /\ Insert(list_end(l), elem)
  /\ order' = [order EXCEPT ![l] = Append(@, elem)]

list_insert(l, before, elem) ==
  /\ elem \in Free /\ before \in ToSet(order[l]) /\ Insert(before, elem)
  /\ order' = [order EXCEPT ![l] = InsertAt(@, Index(l, before), elem)]

\* The assignments of list_remove.
Unlink(elem) ==
  /\ next' = [next EXCEPT ![prev[elem]] = next[elem]]
  /\ prev' = [prev EXCEPT ![next[elem]] = prev[elem]]

list_remove(l, elem) ==
  /\ elem \in ToSet(order[l]) /\ Unlink(elem)
  /\ order' = [order EXCEPT ![l] = RemoveAt(@, Index(l, elem))]

list_pop_front(l) ==
  /\ ~list_empty(l) /\ Unlink(list_front(l))
  /\ order' = [order EXCEPT ![l] = Tail(@)]

list_pop_back(l) ==
  /\ ~list_empty(l) /\ Unlink(list_back(l))
  /\ order' = [order EXCEPT ![l] = Front(@)]

-----------------------------------------------------------------------------
(* list_splice moves the elements from first up to last, which is not      *)
(* moved, in front of before, which is none of them; first may be last.    *)

\* The assignments, in their order: the second pair reads what the first wrote.
Spliced(before, first, end) ==
  LET last == prev[end]
      n1 == [next EXCEPT ![prev[first]] = next[last]]
      p1 == [prev EXCEPT ![next[last]] = prev[first]]
      p2 == [p1 EXCEPT ![first] = p1[before]]
      n2 == [n1 EXCEPT ![last] = before]
      n3 == [n2 EXCEPT ![p2[before]] = first]
  IN  [next |-> n3, prev |-> [p2 EXCEPT ![before] = last]]

Whole(l) == order[l] \o <<TailOf(l)>>

list_splice(l, from, to, m, at) ==
  /\ 1 <= from /\ from <= to /\ to <= Len(Whole(l)) /\ at \in 1..Len(Whole(m))
  /\ l = m => at \notin from..(to - 1)
  /\ LET links == Spliced(Whole(m)[at], Whole(l)[from], Whole(l)[to])
         moved == SubSeq(order[l], from, to - 1)
         left  == [order EXCEPT ![l] = SubSeq(@, 1, from - 1) \o SubSeq(@, to, Len(@))]
         pos   == IF l = m /\ at >= to THEN at - (to - from) ELSE at
     IN  IF from = to THEN UNCHANGED <<next, prev, order>>
         ELSE /\ next' = links.next /\ prev' = links.prev
              /\ order' = [left EXCEPT ![m] = SubSeq(@, 1, pos - 1) \o moved \o SubSeq(@, pos, Len(@))]

\* swap (&e->prev, &e->next), and on to the next element, which is now e->prev.
Turn(r, end) ==
  IF r.e = end THEN r
  ELSE [next |-> [r.next EXCEPT ![r.e] = r.prev[r.e]],
        prev |-> [r.prev EXCEPT ![r.e] = r.next[r.e]],
        e    |-> r.next[r.e]]

\* Slip: the ends of the reversed chain still point to the other sentinel.
Ends_swapped(r, l) ==
  [r EXCEPT !.next = [@ EXCEPT ![HeadOf(l)] = r.prev[TailOf(l)]],
            !.prev = [@ EXCEPT ![TailOf(l)] = r.next[HeadOf(l)]]]

\* The two swaps that follow the loop of list_reverse.
Ends(r, l) ==
  LET first == r.next[HeadOf(l)]
      last  == r.prev[TailOf(l)]
      n == [r.next EXCEPT ![HeadOf(l)] = last]
      p == [r.prev EXCEPT ![TailOf(l)] = first]
  IN  [r EXCEPT !.next = [n EXCEPT ![first] = p[last]], !.prev = [p EXCEPT ![last] = n[first]]]

list_reverse(l) ==
  LET turned[k \in 0..Cardinality(Elems)] ==
        IF k = 0 THEN [next |-> next, prev |-> prev, e |-> list_begin(l)]
        ELSE Turn(turned[k - 1], list_end(l))
      all == turned[Cardinality(Elems)]
  IN  /\ next' = IF list_empty(l) THEN next ELSE Ends(all, l).next
      /\ prev' = IF list_empty(l) THEN prev ELSE Ends(all, l).prev
      /\ order' = [order EXCEPT ![l] = Reverse(@)]

Next == \E l \in Lists :
  \/ \E e \in Elems : list_push_front(l, e) \/ list_push_back(l, e) \/ list_remove(l, e)
  \/ \E b, e \in Elems : list_insert(l, b, e)
  \/ list_pop_front(l) \/ list_pop_back(l) \/ list_reverse(l)
  \/ \E m \in Lists : \E from, to, at \in 1..(Cardinality(Elems) + 1) : list_splice(l, from, to, m, at)
-----------------------------------------------------------------------------
Chain(l) == <<HeadOf(l)>> \o Whole(l)

(* Whatever the calls, the links of each list lead from its head through   *)
(* exactly the elements asked for, in their order, to its tail, and back;  *)
(* so every element has the two neighbours that is_interior asks for.      *)
LinksAgree ==
  \A l \in Lists :
    /\ \A k \in 1..(Len(Chain(l)) - 1) : /\ next[Chain(l)[k]] = Chain(l)[k + 1]
                                         /\ prev[Chain(l)[k + 1]] = Chain(l)[k]
    /\ prev[HeadOf(l)] = NULL /\ next[TailOf(l)] = NULL
=============================================================================
