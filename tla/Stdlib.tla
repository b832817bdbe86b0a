-------------------------------- MODULE Stdlib -------------------------------
(***************************************************************************)
(* lib/stdlib.c: the heap sort of sort and qsort, one exchange at a time,  *)
(* the binary search of binary_search and bsearch in the array it has      *)
(* sorted, and atoi.  Elements are compared by their values.               *)
(***************************************************************************)
EXTENDS Integers, SequencesExt

CONSTANTS Arrays,       \* the arrays to sort
          Keys,         \* the keys to search for
          Strings,      \* what atoi is given: sequences of characters
          Digit,        \* the value of each digit among the characters
          INT_MAX,      \* an int is in -(INT_MAX + 1)..INT_MAX
          NULL

VARIABLES given, array,
          i,            \* of sort's loops
          node,         \* heapify's i; 0 between its calls
          key, first, last,
          result, pc

Init ==
  /\ \/ given \in Arrays /\ pc = "build" /\ i = Len(given) \div 2
     \/ given \in Strings /\ pc = "atoi" /\ i = 0
  /\ array = given /\ node = 0
  /\ key = NULL /\ first = 0 /\ last = 0 /\ result = NULL

search == <<key, first, last, result>>
cnt == Len(array)

-----------------------------------------------------------------------------
\* Elements of the heap: all while it is built, then those not yet in place.
heap_cnt == IF pc = "build" THEN cnt ELSE i - 1

do_swap(a, x, y) == [a EXCEPT ![x] = a[y], ![y] = a[x]]

\* Slip: the right child is not looked at if the left one is larger.
Largest_left(n) ==
  LET left == 2 * n  right == 2 * n + 1
  IN  IF left <= heap_cnt /\ array[left] > array[n] THEN left
      ELSE IF right <= heap_cnt /\ array[right] > array[n] THEN right ELSE n

\* The largest among an element and its children.
Largest(n) ==
  LET left == 2 * n  right == 2 * n + 1
      max  == IF left <= heap_cnt /\ array[left] > array[n] THEN left ELSE n
  IN  IF right <= heap_cnt /\ array[right] > array[max] THEN right ELSE max

\* One turn of heapify; when it returns sort's loop goes on.
heapify ==
  /\ node # 0
  /\ IF Largest(node) # node
     THEN array' = do_swap(array, node, Largest(node)) /\ node' = Largest(node) /\ UNCHANGED i
     ELSE node' = 0 /\ i' = i - 1 /\ UNCHANGED array
  /\ UNCHANGED <<given, pc, search>>

build_heap ==
  /\ pc = "build" /\ node = 0
  /\ IF i > 0 THEN node' = i /\ UNCHANGED <<i, pc>>
     ELSE pc' = "sort" /\ i' = cnt /\ UNCHANGED node
  /\ UNCHANGED <<given, array, search>>

sort_heap ==
  /\ pc = "sort" /\ node = 0
  /\ IF i > 1 THEN array' = do_swap(array, 1, i) /\ node' = 1 /\ UNCHANGED pc
     ELSE pc' = "sorted" /\ UNCHANGED <<array, node>>
  /\ UNCHANGED <<given, i, search>>

-----------------------------------------------------------------------------
\* Slip: the last element is left out.
binary_search_short(k) ==
  /\ pc = "sorted" /\ pc' = "search"
  /\ key' = k /\ first' = 1 /\ last' = cnt
  /\ UNCHANGED <<given, array, i, node, result>>

\* last is the position behind the range.
binary_search(k) ==
  /\ pc = "sorted" /\ pc' = "search"
  /\ key' = k /\ first' = 1 /\ last' = cnt + 1
  /\ UNCHANGED <<given, array, i, node, result>>

\* Slip: the element in the middle stays in the range.
After_middle(middle) == middle

\* The range goes on behind the middle.
After(middle) == middle + 1

search_middle ==
  /\ pc = "search" /\ first < last
  /\ LET middle == first + (last - first) \div 2
     IN  \/ key < array[middle] /\ last' = middle /\ UNCHANGED <<first, result, pc>>
         \/ key > array[middle] /\ first' = After(middle) /\ UNCHANGED <<last, result, pc>>
         \/ key = array[middle] /\ result' = middle /\ pc' = "found" /\ UNCHANGED <<first, last>>
  /\ UNCHANGED <<given, array, i, node, key>>

search_fails ==
  /\ pc = "search" /\ first >= last /\ pc' = "found"
  /\ UNCHANGED <<given, array, i, node, search>>

-----------------------------------------------------------------------------
\* A result that is no int is undefined.
AsInt(x) == IF x \in -(INT_MAX + 1)..INT_MAX THEN x ELSE NULL

\* Slip: the digits are added up as a positive number.
Digits_positive(s, negative) ==
  LET value[k \in 0..Len(s)] ==
        IF k = 0 THEN 0
        ELSE LET v == value[k - 1] IN IF v = NULL THEN NULL ELSE AsInt(v * 10 + Digit[s[k]])
      total == value[Len(s)]
  IN  IF total = NULL THEN NULL ELSE IF negative THEN AsInt(-total) ELSE total

\* The digits s, added up as a negative number.
Digits(s, negative) ==
  LET value[k \in 0..Len(s)] ==
        IF k = 0 THEN 0
        ELSE LET v == value[k - 1] IN IF v = NULL THEN NULL ELSE AsInt(v * 10 - Digit[s[k]])
      total == value[Len(s)]
  IN  IF total = NULL THEN NULL ELSE IF negative THEN total ELSE AsInt(-total)

\* What is left of s behind its first characters from a set, and those.
Skipped(s, S) == LET n == SelectInSeq(s, LAMBDA c : c \notin S)
                 IN  IF n = 0 THEN <<>> ELSE SubSeq(s, n, Len(s))
Leading(s, S) == SubSeq(s, 1, Len(s) - Len(Skipped(s, S)))

atoi ==
  /\ pc = "atoi" /\ pc' = "converted"
  /\ LET s == Skipped(given, {" "})
         signed == s # <<>> /\ s[1] \in {"+", "-"}
     IN  result' = Digits(Leading(IF signed THEN Tail(s) ELSE s, DOMAIN Digit), signed /\ s[1] = "-")
  /\ UNCHANGED <<given, array, i, node, key, first, last>>

Next ==
  \/ heapify \/ build_heap \/ sort_heap
  \/ \E k \in Keys : binary_search(k)
  \/ search_middle \/ search_fails \/ atoi
-----------------------------------------------------------------------------
(* sort leaves the elements it was given, in nondecreasing order.          *)
ArraySorted ==
  pc = "sorted" =>
    /\ \A m, n \in DOMAIN array : m < n => array[m] <= array[n]
    /\ \A k \in ToSet(given) \cup ToSet(array) :
         Len(SelectSeq(array, LAMBDA e : e = k)) = Len(SelectSeq(given, LAMBDA e : e = k))

(* "Searches ARRAY ... Returns a match [if one] is found, otherwise a null *)
(* pointer": a key that is there is found.                                 *)
SearchExact ==
  pc = "found" => IF key \in ToSet(array) THEN result # NULL /\ array[result] = key
                  ELSE result = NULL

(* A search comes to its end.                                              *)
SearchEnds == pc = "search" ~> pc = "found"

(* A number that an int can hold is converted exactly, the smallest among  *)
(* them included: "We always initially parse the value as negative ...     *)
(* because the negative range of an int is bigger".                        *)
Decimal(s) == FoldLeft(LAMBDA v, c : 10 * v + Digit[c], 0, s)
NumberExact ==
  pc = "converted" =>
    \A k \in 0..Len(given) :
      LET blanks == SubSeq(given, 1, k)
          number == SubSeq(given, k + 1, Len(given))
      IN  /\ \A n \in DOMAIN blanks : blanks[n] = " "
          /\ number # <<>> /\ ToSet(Tail(number)) \subseteq DOMAIN Digit
          => /\ number[1] \in DOMAIN Digit => result = AsInt(Decimal(number))
             /\ number[1] = "-" => result = AsInt(-Decimal(Tail(number)))
             /\ number[1] = "+" => result = AsInt(Decimal(Tail(number)))
=============================================================================
