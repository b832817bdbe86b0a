------------------------------- MODULE KList -------------------------------
(***************************************************************************)
(* The operations of lib/kernel/list.c that place elements by order or by  *)
(* predicate.  A kernel list is the sequence of its interior elements, and *)
(* a comparison function is the relation lt of the pairs it holds for.     *)
(*                                                                         *)
(* Sorting and filtering are given by their results, without recursion, so *)
(* that SchedulerProofs can establish what they return for lists of any    *)
(* length; ListSort models the merge passes of list_sort and checks that   *)
(* they compute the result given here.                                     *)
(***************************************************************************)
EXTENDS Naturals, Sequences, FiniteSets, FiniteSetsExt

\* The first position whose element x is less than, or one past the end.
InsertPosition(s, x, lt) ==
  Min({i \in 1..Len(s) : <<x, s[i]>> \in lt} \cup {Len(s) + 1})

\* x goes in front of the first element it is less than, so behind every
\* element that it ties with.
list_insert_ordered(s, x, lt) ==
  LET i == InsertPosition(s, x, lt)
  IN  SubSeq(s, 1, i - 1) \o <<x>> \o SubSeq(s, i, Len(s))

\* The place of each position of D in the order before, and the position at
\* each place.
Place(D, before) ==
  [i \in D |-> Cardinality({j \in D : <<j, i>> \in before}) + 1]

Index(D, before) ==
  LET place == Place(D, before)
  IN  [k \in 1..Cardinality(D) |-> CHOOSE i \in D : place[i] = k]

\* The elements of s at the positions D, in the order given by the relation
\* before on positions.
Arrange(s, D, before) ==
  LET idx == Index(D, before)
  IN  [k \in 1..Cardinality(D) |-> s[idx[k]]]

\* Position i comes before position j in the stable sort of s.
StableOrder(s, lt) ==
  {p \in (1..Len(s)) \X (1..Len(s)) :
     \/ <<s[p[1]], s[p[2]]>> \in lt
     \/ p[1] < p[2] /\ <<s[p[2]], s[p[1]]>> \notin lt}

list_sort(s, lt) == Arrange(s, 1..Len(s), StableOrder(s, lt))

\* A loop that calls list_remove on every element outside the set keep.
RemoveExcept(s, keep) ==
  LET D == {i \in 1..Len(s) : s[i] \in keep}
  IN  Arrange(s, D, {p \in D \X D : p[1] < p[2]})

=============================================================================
