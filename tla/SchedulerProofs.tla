-------------------------- MODULE SchedulerProofs --------------------------
(***************************************************************************)
(* What the operators of KList return, for lists of any length; and the    *)
(* run queue of thread.c, for any threads and priorities: whatever blocks, *)
(* unblocks or yields, the queue lists the ready threads, each once.       *)
(***************************************************************************)
EXTENDS Scheduler, FiniteSetTheorems, WellFoundedInduction, TLAPS

\* A set of natural numbers that is not empty has a least element, which Min
\* chooses.
LEMMA MinNat ==
  ASSUME NEW S \in SUBSET Nat, S # {}
  PROVE  Min(S) \in S /\ \A y \in S : Min(S) <= y
<1>1. \E R : R = {ss \in Nat \X Nat : ss[1] < ss[2]} /\ IsWellFoundedOn(R, Nat)
  <2>1. OpToRel(<, Nat) = {ss \in Nat \X Nat : ss[1] < ss[2]}
    BY Zenon DEF OpToRel
  <2> QED
    BY <2>1, NatLessThanWellFounded, Zenon
<1>2. PICK R : R = {ss \in Nat \X Nat : ss[1] < ss[2]} /\ IsWellFoundedOn(R, Nat)
  BY <1>1, Zenon
<1>3. PICK x \in S : \A y \in S : ~(<<y, x>> \in R)
  BY <1>2, WFMin, Zenon
<1>4. ASSUME NEW y \in S PROVE x <= y
  <2>1. x \in Nat /\ y \in Nat
    BY Zenon
  <2>2. y < x => <<y, x>> \in R
    BY <2>1, <1>2, Zenon
  <2> QED
    BY <1>3, <2>1, <2>2
<1> QED
  BY <1>4, Zenon DEF Min

-----------------------------------------------------------------------------
(* list_insert_ordered.                                                    *)

\* Where list_insert_ordered stops: behind elements that x is not less than
\* and, inside the list, in front of one that it is less than.
LEMMA InsertPositionStops ==
  ASSUME NEW T, NEW s \in Seq(T), NEW x, NEW lt
  PROVE  LET p == InsertPosition(s, x, lt)
         IN  /\ p \in 1..(Len(s) + 1)
             /\ \A i \in 1..Len(s) : i < p => <<x, s[i]>> \notin lt
             /\ p <= Len(s) => <<x, s[p]>> \in lt
<1> DEFINE S == {i \in 1..Len(s) : <<x, s[i]>> \in lt} \cup {Len(s) + 1}
<1>1. S \in SUBSET Nat /\ S # {}
  OBVIOUS
<1>2. Min(S) \in S /\ \A y \in S : Min(S) <= y
  BY <1>1, MinNat, Zenon
<1>3. InsertPosition(s, x, lt) = Min(S)
  BY Zenon DEF InsertPosition
<1> HIDE DEF S
<1>4. Min(S) \in Nat
  BY <1>1, <1>2, Zenon
<1>5. \A i \in 1..Len(s) : i < Min(S) => i \notin S
  BY <1>2, <1>4
<1>6. Min(S) \in 1..(Len(s) + 1)
  BY <1>2, <1>4 DEF S
<1>7. \A i \in 1..Len(s) : i < Min(S) => <<x, s[i]>> \notin lt
  BY <1>5, Zenon DEF S
<1>8. Min(S) <= Len(s) => <<x, s[Min(S)]>> \in lt
  BY <1>2, <1>4 DEF S
<1> QED
  BY <1>3, <1>6, <1>7, <1>8, Zenon

\* One list behind another, position by position.
LEMMA ConcatElements ==
  ASSUME NEW T, NEW a \in Seq(T), NEW b \in Seq(T)
  PROVE  /\ a \o b \in Seq(T)
         /\ Len(a \o b) = Len(a) + Len(b)
         /\ \A j \in 1..Len(a) : (a \o b)[j] = a[j]
         /\ \A j \in (Len(a) + 1)..(Len(a) + Len(b)) : (a \o b)[j] = b[j - Len(a)]
OBVIOUS

\* A list without its front element, position by position.
LEMMA TailElements ==
  ASSUME NEW T, NEW s \in Seq(T), s # << >>
  PROVE  /\ Head(s) \in T
         /\ Tail(s) \in Seq(T)
         /\ Len(Tail(s)) = Len(s) - 1
         /\ \A i \in 1..Len(Tail(s)) : Tail(s)[i] = s[i + 1]
OBVIOUS

\* x between two lists.
Join(a, x, b) == (a \o <<x>>) \o b

\* r is a, x and b in this order, position by position.
Joined(T, a, x, b, r) ==
  /\ r \in Seq(T)
  /\ Len(r) = Len(a) + 1 + Len(b)
  /\ \A j \in 1..Len(a) : r[j] = a[j]
  /\ r[Len(a) + 1] = x
  /\ \A j \in (Len(a) + 2)..(Len(a) + 1 + Len(b)) : r[j] = b[j - (Len(a) + 1)]

\* What Join returns, for lists of any length.
LEMMA JoinElements ==
  ASSUME NEW T, NEW a \in Seq(T), NEW x \in T, NEW b \in Seq(T)
  PROVE  Joined(T, a, x, b, Join(a, x, b))
<1> DEFINE r == Join(a, x, b)
<1>1. PICK c : c = a \o <<x>>
  BY Zenon
<1>2. /\ c \in Seq(T) /\ Len(c) = Len(a) + 1
      /\ \A j \in 1..Len(a) : c[j] = a[j]
      /\ c[Len(a) + 1] = x
  BY <1>1
<1>3. r = c \o b
  BY <1>1, Zenon DEF Join
<1> HIDE DEF r
<1>4. /\ c \o b \in Seq(T)
      /\ Len(c \o b) = Len(c) + Len(b)
      /\ \A j \in 1..Len(c) : (c \o b)[j] = c[j]
      /\ \A j \in (Len(c) + 1)..(Len(c) + Len(b)) : (c \o b)[j] = b[j - Len(c)]
  BY <1>2, ConcatElements, Zenon
<1>5. Len(a) \in Nat /\ Len(b) \in Nat
  OBVIOUS
<1>6. /\ r \in Seq(T) /\ Len(r) = Len(a) + 1 + Len(b)
      /\ \A j \in 1..(Len(a) + 1) : r[j] = c[j]
      /\ \A j \in (Len(a) + 2)..(Len(a) + 1 + Len(b)) : r[j] = b[j - (Len(a) + 1)]
  BY ONLY <1>2, <1>3, <1>4, <1>5
<1>7. /\ \A j \in 1..Len(a) : r[j] = a[j]
      /\ r[Len(a) + 1] = x
  BY ONLY <1>2, <1>5, <1>6
<1> QED
  BY <1>6, <1>7, Zenon DEF Joined, r

\* The list s with x put in position p.
PutIn(s, x, p) == Join(SubSeq(s, 1, p - 1), x, SubSeq(s, p, Len(s)))

\* The elements of a list with x put in position p.
LEMMA PutInElements ==
  ASSUME NEW T, NEW s \in Seq(T), NEW x \in T, NEW p \in 1..(Len(s) + 1),
         NEW r, r = PutIn(s, x, p)
  PROVE  /\ r \in Seq(T)
         /\ Len(r) = Len(s) + 1
         /\ \A j \in 1..Len(r) : j < p => r[j] = s[j]
         /\ r[p] = x
         /\ \A j \in 1..Len(r) : j > p => r[j] = s[j - 1]
<1> DEFINE a == SubSeq(s, 1, p - 1)
           b == SubSeq(s, p, Len(s))
<1>1. a \in Seq(T) /\ Len(a) = p - 1 /\ \A j \in 1..(p - 1) : a[j] = s[j]
  OBVIOUS
<1>2. /\ b \in Seq(T) /\ Len(b) = Len(s) + 1 - p
      /\ \A j \in 1..(Len(s) + 1 - p) : b[j] = s[p + j - 1]
  OBVIOUS
<1>3. r = Join(a, x, b)
  BY Zenon DEF PutIn
<1> HIDE DEF a, b
<1>4. p \in Nat /\ Len(b) \in Nat
  BY <1>2
<1>5. /\ r \in Seq(T) /\ Len(r) = p + Len(b) /\ r[p] = x
      /\ \A j \in 1..(p - 1) : r[j] = a[j]
      /\ \A j \in (p + 1)..(p + Len(b)) : r[j] = b[j - p]
  <2>1. /\ r \in Seq(T)
        /\ Len(r) = Len(a) + 1 + Len(b)
        /\ \A j \in 1..Len(a) : r[j] = a[j]
        /\ r[Len(a) + 1] = x
        /\ \A j \in (Len(a) + 2)..(Len(a) + 1 + Len(b)) : r[j] = b[j - (Len(a) + 1)]
    <3>1. a \in Seq(T) /\ b \in Seq(T) /\ x \in T
      BY <1>1, <1>2, Zenon
    <3>2. Joined(T, a, x, b, Join(a, x, b))
      BY ONLY <3>1, JoinElements, Zenon
    <3> QED
      BY ONLY <1>3, <3>2, Zenon DEF Joined
  <2>2. Len(a) = p - 1 /\ Len(a) + 1 = p /\ Len(a) + 2 = p + 1
    BY <1>1, <1>4
  <2> QED
    BY ONLY <1>4, <2>1, <2>2, Zenon
<1>6. p \in Nat /\ Len(s) \in Nat /\ 1 <= p /\ p <= Len(s) + 1
  OBVIOUS
<1>7. Len(r) = Len(s) + 1
  BY ONLY <1>2, <1>5, <1>6
<1>8. ASSUME NEW j \in 1..Len(r), j < p PROVE r[j] = s[j]
  BY ONLY <1>1, <1>5, <1>6, <1>7, j \in 1..Len(r), j < p
<1>9. ASSUME NEW j \in 1..Len(r), j > p PROVE r[j] = s[j - 1]
  <2>1. r[j] = b[j - p]
    BY ONLY <1>2, <1>5, <1>6, <1>7, j \in 1..Len(r), j > p
  <2>2. j - p \in 1..(Len(s) + 1 - p) /\ p + (j - p) - 1 = j - 1
    BY ONLY <1>6, <1>7, j \in 1..Len(r), j > p
  <2> QED
    BY ONLY <1>2, <2>1, <2>2, Zenon
<1> QED
  BY <1>5, <1>7, <1>8, <1>9, Zenon

\* r is s with x inserted at position p, the first one that x belongs in front
\* of.
InsertedAt(T, s, x, lt, r, p) ==
  /\ p \in 1..(Len(s) + 1)
  /\ r \in Seq(T)
  /\ Len(r) = Len(s) + 1
  /\ \A j \in 1..Len(r) : j < p => r[j] = s[j]
  /\ r[p] = x
  /\ \A j \in 1..Len(r) : j > p => r[j] = s[j - 1]
  /\ \A j \in 1..Len(s) : j < p => <<x, s[j]>> \notin lt
  /\ p <= Len(s) => <<x, s[p]>> \in lt

\* list_insert_ordered, position by position.
LEMMA InsertElements ==
  ASSUME NEW T, NEW s \in Seq(T), NEW x \in T, NEW lt,
         NEW r, r = list_insert_ordered(s, x, lt)
  PROVE  \E p : InsertedAt(T, s, x, lt, r, p)
<1>1. PICK p : p = InsertPosition(s, x, lt)
  BY Zenon
<1>2. /\ p \in 1..(Len(s) + 1)
      /\ \A i \in 1..Len(s) : i < p => <<x, s[i]>> \notin lt
      /\ p <= Len(s) => <<x, s[p]>> \in lt
  BY <1>1, InsertPositionStops, Zenon
<1>3. r = PutIn(s, x, p)
  BY <1>1, Zenon DEF list_insert_ordered, PutIn, Join
<1>4. /\ r \in Seq(T)
      /\ Len(r) = Len(s) + 1
      /\ \A j \in 1..Len(r) : j < p => r[j] = s[j]
      /\ r[p] = x
      /\ \A j \in 1..Len(r) : j > p => r[j] = s[j - 1]
  BY <1>2, <1>3, PutInElements
<1>5. InsertedAt(T, s, x, lt, r, p)
  BY <1>2, <1>4, Zenon DEF InsertedAt
<1> QED
  BY <1>5, Zenon

\* Membership in a list.
LEMMA ElementsOfSeq ==
  ASSUME NEW T, NEW s \in Seq(T)
  PROVE  \A y : y \in Range(s) <=> \E i \in 1..Len(s) : s[i] = y
<1>1. DOMAIN s = 1..Len(s)
  OBVIOUS
<1> QED
  BY <1>1, Zenon DEF Range

\* What it means for a list to hold no element twice.
LEMMA InjectiveSeq ==
  ASSUME NEW T, NEW s \in Seq(T)
  PROVE  IsInjective(s) <=> \A i, j \in 1..Len(s) : i < j => s[i] # s[j]
<1>1. DOMAIN s = 1..Len(s) /\ Len(s) \in Nat
  OBVIOUS
<1> QED
  BY <1>1 DEF IsInjective

\* list_insert_ordered adds x and loses or repeats nothing.
THEOREM InsertContent ==
  ASSUME NEW T, NEW s \in Seq(T), NEW x \in T, NEW lt,
         NEW r, r = list_insert_ordered(s, x, lt)
  PROVE  /\ r \in Seq(T)
         /\ Len(r) = Len(s) + 1
         /\ Range(r) = Range(s) \cup {x}
         /\ IsInjective(s) /\ x \notin Range(s) => IsInjective(r)
<1>1. PICK p : InsertedAt(T, s, x, lt, r, p)
  BY InsertElements, Zenon
<1>2. /\ p \in 1..(Len(s) + 1)
      /\ r \in Seq(T)
      /\ Len(r) = Len(s) + 1
      /\ \A j \in 1..Len(r) : j < p => r[j] = s[j]
      /\ r[p] = x
      /\ \A j \in 1..Len(r) : j > p => r[j] = s[j - 1]
      /\ \A j \in 1..Len(s) : j < p => <<x, s[j]>> \notin lt
      /\ p <= Len(s) => <<x, s[p]>> \in lt
  BY <1>1, Zenon DEF InsertedAt
<1>3. Len(s) \in Nat /\ Len(r) \in Nat /\ p \in Nat /\ 1 <= p /\ p <= Len(s) + 1
  BY <1>2
<1>4. /\ \A y : y \in Range(s) <=> \E i \in 1..Len(s) : s[i] = y
      /\ \A y : y \in Range(r) <=> \E i \in 1..Len(r) : r[i] = y
  BY <1>2, ElementsOfSeq
<1>5. ASSUME NEW j \in 1..Len(r) PROVE r[j] = x \/ \E i \in 1..Len(s) : s[i] = r[j]
  <2>1. CASE j < p
    <3>1. r[j] = s[j] /\ j \in 1..Len(s)
      BY <1>2, <1>3, <2>1
    <3> QED
      BY <3>1, Zenon
  <2>2. CASE j = p
    BY <1>2, <2>2, Zenon
  <2>3. CASE j > p
    <3>1. r[j] = s[j - 1] /\ j - 1 \in 1..Len(s)
      BY <1>2, <1>3, <2>3
    <3> QED
      BY <3>1, Zenon
  <2> QED
    BY <1>3, <2>1, <2>2, <2>3
<1>6. ASSUME NEW i \in 1..Len(s) PROVE \E j \in 1..Len(r) : r[j] = s[i]
  <2>1. CASE i < p
    <3>1. r[i] = s[i] /\ i \in 1..Len(r)
      BY <1>2, <1>3, <2>1
    <3> QED
      BY <3>1, Zenon
  <2>2. CASE i >= p
    <3>1. r[i + 1] = s[(i + 1) - 1] /\ i + 1 \in 1..Len(r) /\ (i + 1) - 1 = i
      BY <1>2, <1>3, <2>2
    <3> QED
      BY <3>1, Zenon
  <2> QED
    BY <1>3, <2>1, <2>2
<1>7. p \in 1..Len(r)
  BY <1>2, <1>3, Zenon
<1>8. Range(r) = Range(s) \cup {x}
  <2>1. r[p] = x
    BY <1>2, Zenon
  <2>2. Range(r) \subseteq Range(s) \cup {x}
    <3> SUFFICES ASSUME NEW y \in Range(r) PROVE y \in Range(s) \cup {x}
      BY Zenon
    <3>1. PICK j \in 1..Len(r) : r[j] = y
      BY <1>4, Zenon
    <3>2. r[j] = x \/ \E i \in 1..Len(s) : s[i] = r[j]
      BY <1>5, Zenon
    <3> QED
      BY <1>4, <3>1, <3>2, Zenon
  <2>3. Range(s) \subseteq Range(r)
    BY <1>4, <1>6, Zenon
  <2>4. x \in Range(r)
    BY <1>4, <1>7, <2>1, Zenon
  <2> QED
    BY <2>2, <2>3, <2>4, Zenon
<1>9. ASSUME IsInjective(s), x \notin Range(s) PROVE IsInjective(r)
  <2>1. SUFFICES ASSUME NEW i \in 1..Len(r), NEW j \in 1..Len(r), i < j
                 PROVE  r[i] # r[j]
    BY <1>2, InjectiveSeq
  <2>2. \A k \in 1..Len(s) : s[k] # x
    BY <1>4, <1>9, Zenon
  <2>3. \A k, m \in 1..Len(s) : k < m => s[k] # s[m]
    BY <1>9, InjectiveSeq, Zenon
  <2>4. CASE j < p
    <3>1. r[i] = s[i] /\ r[j] = s[j] /\ i \in 1..Len(s) /\ j \in 1..Len(s)
      BY <1>2, <1>3, <2>1, <2>4
    <3> QED
      BY <2>1, <2>3, <3>1, Zenon
  <2>5. CASE j = p
    <3>1. r[i] = s[i] /\ i \in 1..Len(s)
      BY <1>2, <1>3, <2>1, <2>5
    <3> QED
      BY <1>2, <2>2, <2>5, <3>1, Zenon
  <2>6. CASE j > p
    <3>1. r[j] = s[j - 1] /\ j - 1 \in 1..Len(s)
      BY <1>2, <1>3, <2>6
    <3>2. CASE i < p
      <4>1. r[i] = s[i] /\ i \in 1..Len(s) /\ i < j - 1
        BY <1>2, <1>3, <2>6, <3>2
      <4> QED
        BY <2>3, <3>1, <4>1, Zenon
    <3>3. CASE i = p
      BY <1>2, <2>2, <3>1, <3>3, Zenon
    <3>4. CASE i > p
      <4>1. r[i] = s[i - 1] /\ i - 1 \in 1..Len(s) /\ i - 1 < j - 1
        BY <1>2, <1>3, <2>1, <3>4
      <4> QED
        BY <2>3, <3>1, <4>1, Zenon
    <3> QED
      BY <1>3, <3>2, <3>3, <3>4
  <2> QED
    BY <1>3, <2>4, <2>5, <2>6
<1> QED
  BY <1>2, <1>8, <1>9, Zenon

\* No element of s is less than one in front of it.
Sorted(s, lt) ==
  \A i, j \in 1..Len(s) : i < j => <<s[j], s[i]>> \notin lt

\* lt orders T as a comparison function must: no element is less than itself,
\* and less-than is transitive.
StrictOrder(lt, T) ==
  /\ \A a \in T : <<a, a>> \notin lt
  /\ \A a, b, c \in T : <<a, b>> \in lt /\ <<b, c>> \in lt => <<a, c>> \in lt

\* A list kept with list_insert_ordered stays sorted.
THEOREM InsertSorted ==
  ASSUME NEW T, NEW s \in Seq(T), NEW x \in T, NEW lt,
         StrictOrder(lt, T), Sorted(s, lt),
         NEW r, r = list_insert_ordered(s, x, lt)
  PROVE  Sorted(r, lt)
<1>1. PICK p : InsertedAt(T, s, x, lt, r, p)
  BY InsertElements, Zenon
<1>2. /\ p \in 1..(Len(s) + 1)
      /\ r \in Seq(T)
      /\ Len(r) = Len(s) + 1
      /\ \A j \in 1..Len(r) : j < p => r[j] = s[j]
      /\ r[p] = x
      /\ \A j \in 1..Len(r) : j > p => r[j] = s[j - 1]
      /\ \A j \in 1..Len(s) : j < p => <<x, s[j]>> \notin lt
      /\ p <= Len(s) => <<x, s[p]>> \in lt
  BY <1>1, Zenon DEF InsertedAt
<1>3. Len(s) \in Nat /\ Len(r) \in Nat /\ p \in Nat /\ 1 <= p /\ p <= Len(s) + 1
  BY <1>2
<1>4. \A k \in 1..Len(s) : s[k] \in T
  OBVIOUS
<1>5. ASSUME NEW k \in 1..Len(s), k >= p PROVE <<s[k], x>> \notin lt
  <2>1. p \in 1..Len(s) /\ <<x, s[p]>> \in lt
    BY <1>2, <1>3, <1>5
  <2>2. <<s[k], s[p]>> \notin lt
    <3>1. CASE k = p
      BY <1>4, <2>1, <3>1, Zenon DEF StrictOrder
    <3>2. CASE k > p
      BY <2>1, <3>2, Zenon DEF Sorted
    <3> QED
      BY <1>3, <1>5, <3>1, <3>2
  <2> QED
    BY <1>4, <2>1, <2>2, Zenon DEF StrictOrder
<1>6. SUFFICES ASSUME NEW i \in 1..Len(r), NEW j \in 1..Len(r), i < j
               PROVE  <<r[j], r[i]>> \notin lt
  BY Zenon DEF Sorted
<1>7. CASE j < p
  <2>1. r[i] = s[i] /\ r[j] = s[j] /\ i \in 1..Len(s) /\ j \in 1..Len(s)
    BY <1>2, <1>3, <1>6, <1>7
  <2> QED
    BY <1>6, <2>1, Zenon DEF Sorted
<1>8. CASE j = p
  <2>1. r[i] = s[i] /\ i \in 1..Len(s) /\ i < p
    BY <1>2, <1>3, <1>6, <1>8
  <2> QED
    BY <1>2, <1>8, <2>1, Zenon
<1>9. CASE j > p
  <2>1. r[j] = s[j - 1] /\ j - 1 \in 1..Len(s) /\ j - 1 >= p
    BY <1>2, <1>3, <1>9
  <2>2. CASE i < p
    <3>1. r[i] = s[i] /\ i \in 1..Len(s) /\ i < j - 1
      BY <1>2, <1>3, <1>9, <2>2
    <3> QED
      BY <2>1, <3>1, Zenon DEF Sorted
  <2>3. CASE i = p
    BY <1>2, <1>5, <2>1, <2>3, Zenon
  <2>4. CASE i > p
    <3>1. r[i] = s[i - 1] /\ i - 1 \in 1..Len(s) /\ i - 1 < j - 1
      BY <1>2, <1>3, <1>6, <2>4
    <3> QED
      BY <2>1, <3>1, Zenon DEF Sorted
  <2> QED
    BY <1>3, <2>2, <2>3, <2>4
<1> QED
  BY <1>3, <1>7, <1>8, <1>9

-----------------------------------------------------------------------------
(* list_sort and removal.                                                  *)

\* Arrange enumerates the positions D in the order of before, if before is a
\* strict total order on D.
LEMMA ArrangeEnumerates ==
  ASSUME NEW s, NEW D, IsFiniteSet(D), NEW before,
         StrictOrder(before, D),
         \A i, j \in D : i # j => <<i, j>> \in before \/ <<j, i>> \in before
  PROVE  \E idx \in Bijection(1..Cardinality(D), D) :
           /\ Arrange(s, D, before) = [k \in 1..Cardinality(D) |-> s[idx[k]]]
           /\ \A k, m \in 1..Cardinality(D) : k < m => <<idx[k], idx[m]>> \in before
<1>1. PICK n \in Nat : n = Cardinality(D)
  BY FS_CardinalityType, Zenon
<1>2. PICK pred : pred = [i \in D |-> {j \in D : <<j, i>> \in before}]
  BY Zenon
<1>3. PICK place : place = Place(D, before)
  BY Zenon
<1>a. place = [i \in D |-> Cardinality({j \in D : <<j, i>> \in before}) + 1]
  BY <1>3, Zenon DEF Place
<1>b. \A i \in D : place[i] = Cardinality(pred[i]) + 1
  BY <1>2, <1>a, Zenon
<1>4. ASSUME NEW i \in D
      PROVE  /\ IsFiniteSet(pred[i]) /\ Cardinality(pred[i]) \in Nat
             /\ Cardinality(pred[i]) < n
  <2>1. pred[i] \in SUBSET D /\ i \notin pred[i] /\ pred[i] # D
    BY <1>2, Zenon DEF StrictOrder
  <2>2. /\ IsFiniteSet(pred[i]) /\ Cardinality(pred[i]) <= n
        /\ n = Cardinality(pred[i]) => D = pred[i]
    BY <1>1, <2>1, FS_Subset, Zenon
  <2>3. Cardinality(pred[i]) \in Nat
    BY <2>2, FS_CardinalityType, Zenon
  <2> QED
    BY <2>1, <2>2, <2>3
<1>5. ASSUME NEW i \in D, NEW j \in D, <<i, j>> \in before
      PROVE  Cardinality(pred[i]) < Cardinality(pred[j])
  <2>1. pred[i] \in SUBSET pred[j] /\ i \in pred[j] /\ i \notin pred[i]
    BY <1>2, <1>5, Zenon DEF StrictOrder
  <2>2. pred[i] # pred[j]
    BY <2>1, Zenon
  <2>3. IsFiniteSet(pred[j])
    BY <1>4, Zenon
  <2>4. /\ Cardinality(pred[i]) <= Cardinality(pred[j])
        /\ Cardinality(pred[j]) = Cardinality(pred[i]) => pred[j] = pred[i]
    BY <2>1, <2>3, FS_Subset, Zenon
  <2>5. Cardinality(pred[i]) \in Nat /\ Cardinality(pred[j]) \in Nat
    BY <1>4, Zenon
  <2> QED
    BY <2>2, <2>4, <2>5
<1>6. \A i \in D : place[i] \in 1..n
  <2>1. SUFFICES ASSUME NEW i \in D PROVE place[i] \in 1..n
    BY Zenon
  <2>2. place[i] = Cardinality(pred[i]) + 1
    BY <1>b, Zenon
  <2> QED
    BY <1>4, <2>2
<1>7. ASSUME NEW i \in D, NEW j \in D, <<i, j>> \in before PROVE place[i] < place[j]
  <2>1. place[i] = Cardinality(pred[i]) + 1 /\ place[j] = Cardinality(pred[j]) + 1
    BY <1>b, Zenon
  <2> QED
    BY <1>4, <1>5, <1>7, <2>1
<1>8. \A i, j \in D : place[i] = place[j] => i = j
  <2>1. SUFFICES ASSUME NEW i \in D, NEW j \in D, place[i] = place[j], i # j PROVE FALSE
    BY Zenon
  <2>2. place[i] \in Int /\ place[j] \in Int
    BY <1>6
  <2>3. place[i] < place[j] \/ place[j] < place[i]
    BY <1>7, <2>1, Zenon
  <2> QED
    BY <2>1, <2>2, <2>3
<1>9. place \in [D -> 1..n]
  BY <1>a, <1>6, Zenon
<1>10. place \in Injection(D, 1..n)
  BY <1>8, <1>9, Zenon DEF Injection, IsInjective
<1>11. IsFiniteSet(1..n) /\ Cardinality(1..n) = n
  BY FS_Interval
<1>12. place \in Surjection(D, 1..n)
  BY <1>1, <1>10, <1>11, FS_Injection, Zenon
<1>13. PICK idx : idx = Index(D, before)
  BY Zenon
<1>c. idx = [k \in 1..n |-> CHOOSE i \in D : place[i] = k]
  BY <1>1, <1>3, <1>13 DEF Index
<1>14. ASSUME NEW k \in 1..n PROVE idx[k] \in D /\ place[idx[k]] = k
  <2>1. \E i \in D : place[i] = k
    BY <1>12, Zenon DEF Surjection
  <2>2. idx[k] = CHOOSE i \in D : place[i] = k
    BY <1>c, Zenon
  <2> QED
    BY <2>1, <2>2, Zenon
<1>15. ASSUME NEW k \in 1..n, NEW m \in 1..n, k < m PROVE <<idx[k], idx[m]>> \in before
  <2>1. idx[k] \in D /\ idx[m] \in D /\ place[idx[k]] = k /\ place[idx[m]] = m
    BY <1>14, Zenon
  <2>2. idx[k] # idx[m]
    BY <1>15, <2>1
  <2>3. ~(<<idx[m], idx[k]>> \in before)
    BY <1>7, <1>15, <2>1
  <2> QED
    BY <2>1, <2>2, <2>3, Zenon
<1>16. idx \in Bijection(1..n, D)
  <2>1. idx \in [1..n -> D]
    BY <1>14, <1>c, Zenon
  <2>2. \A k, m \in 1..n : idx[k] = idx[m] => k = m
    BY <1>14, Zenon
  <2>3. \A i \in D : place[i] \in 1..n /\ idx[place[i]] = i
    BY <1>6, <1>8, <1>14, Zenon
  <2> QED
    BY <2>1, <2>2, <2>3, Zenon DEF Bijection, Injection, Surjection, IsInjective
<1>17. Arrange(s, D, before) = [k \in 1..n |-> s[idx[k]]]
  BY <1>1, <1>13, Zenon DEF Arrange
<1> QED
  BY <1>1, <1>15, <1>16, <1>17, Zenon

Total(before, D) == \A i, j \in D : i # j => <<i, j>> \in before \/ <<j, i>> \in before

\* r lists the elements of s at the positions D in the order before.
Arranged(r, s, T, D, before) ==
  /\ r \in Seq(T)
  /\ Len(r) = Cardinality(D)
  /\ \A y : y \in Range(r) <=> \E i \in D : s[i] = y
  /\ IsInjective(s) => IsInjective(r)
  /\ \A k, m \in 1..Len(r) : k < m =>
       \E i, j \in D : r[k] = s[i] /\ r[m] = s[j] /\ <<i, j>> \in before

\* What Arrange returns, as a list.
LEMMA ArrangeContent ==
  ASSUME NEW T, NEW s \in Seq(T), NEW D \in SUBSET (1..Len(s)), NEW before,
         StrictOrder(before, D), Total(before, D),
         NEW r, r = Arrange(s, D, before)
  PROVE  Arranged(r, s, T, D, before)
<1>1. IsFiniteSet(D)
  <2>1. IsFiniteSet(1..Len(s))
    BY FS_Interval
  <2> QED
    BY <2>1, FS_Subset, Zenon
<1>2. PICK n \in Nat : n = Cardinality(D)
  BY <1>1, FS_CardinalityType, Zenon
<1>3. PICK idx \in Bijection(1..n, D) :
        /\ r = [k \in 1..n |-> s[idx[k]]]
        /\ \A k, m \in 1..n : k < m => <<idx[k], idx[m]>> \in before
  <2>1. \E idx \in Bijection(1..Cardinality(D), D) :
           /\ Arrange(s, D, before) = [k \in 1..Cardinality(D) |-> s[idx[k]]]
           /\ \A k, m \in 1..Cardinality(D) : k < m => <<idx[k], idx[m]>> \in before
    BY <1>1, ArrangeEnumerates, Zenon DEF Total
  <2> QED
    BY <1>2, <2>1, Zenon
<1>4. /\ \A k \in 1..n : idx[k] \in D
      /\ \A k, m \in 1..n : idx[k] = idx[m] => k = m
      /\ \A i \in D : \E k \in 1..n : idx[k] = i
  BY <1>3, Zenon DEF Bijection, Injection, Surjection, IsInjective
<1>5. \A i \in D : s[i] \in T /\ i \in 1..Len(s)
  OBVIOUS
<1>6. r \in [1..n -> T]
  BY <1>3, <1>4, <1>5, Zenon
<1>7. r \in Seq(T) /\ Len(r) = n
  BY <1>6
<1>8. \A k \in 1..n : r[k] = s[idx[k]]
  BY <1>3, Zenon
<1>9. \A y : y \in Range(r) <=> \E i \in D : s[i] = y
  <2>1. \A y : y \in Range(r) <=> \E k \in 1..n : r[k] = y
    BY <1>7, ElementsOfSeq, Zenon
  <2>2. ASSUME NEW y, \E k \in 1..n : r[k] = y PROVE \E i \in D : s[i] = y
    <3>1. PICK k \in 1..n : r[k] = y
      BY <2>2, Zenon
    <3>2. idx[k] \in D /\ s[idx[k]] = y
      BY <1>4, <1>8, <3>1, Zenon
    <3> QED
      BY <3>2, Zenon
  <2>3. ASSUME NEW i \in D PROVE \E k \in 1..n : r[k] = s[i]
    BY <1>4, <1>8
  <2> QED
    BY <2>1, <2>2, <2>3, Zenon
<1>10. ASSUME IsInjective(s) PROVE IsInjective(r)
  <2>1. DOMAIN s = 1..Len(s) /\ DOMAIN r = 1..n
    BY <1>6
  <2>2. \A i, j \in D : s[i] = s[j] => i = j
    BY <1>5, <1>10, <2>1, Zenon DEF IsInjective
  <2>3. ASSUME NEW k \in 1..n, NEW m \in 1..n, r[k] = r[m] PROVE k = m
    <3>1. r[k] = s[idx[k]] /\ r[m] = s[idx[m]] /\ idx[k] \in D /\ idx[m] \in D
      BY <1>4, <1>8, Zenon
    <3>2. idx[k] = idx[m]
      BY <2>2, <2>3, <3>1, Zenon
    <3> QED
      BY <1>4, <3>2, Zenon
  <2> QED
    BY <2>1, <2>3, Zenon DEF IsInjective
<1>11. ASSUME NEW k \in 1..Len(r), NEW m \in 1..Len(r), k < m
       PROVE  \E i, j \in D : r[k] = s[i] /\ r[m] = s[j] /\ <<i, j>> \in before
  <2>1. k \in 1..n /\ m \in 1..n
    BY <1>7, <1>11, Zenon
  <2>2. idx[k] \in D /\ idx[m] \in D /\ r[k] = s[idx[k]] /\ r[m] = s[idx[m]]
    BY <1>4, <1>8, <2>1, Zenon
  <2>3. <<idx[k], idx[m]>> \in before
    BY <1>3, <1>11, <2>1, Zenon
  <2> QED
    BY <2>2, <2>3, Zenon
<1>12. Len(r) = Cardinality(D)
  BY <1>2, <1>7, Zenon
<1> QED
  BY <1>7, <1>9, <1>10, <1>11, <1>12, Zenon DEF Arranged

\* Two elements that tie with a third tie with each other: with StrictOrder,
\* what list_sort needs of a comparison function.
WeakOrder(lt, T) ==
  /\ StrictOrder(lt, T)
  /\ \A a, b, c \in T : <<a, b>> \notin lt /\ <<b, c>> \notin lt => <<a, c>> \notin lt

\* list_sort, as KList defines it, returns the elements of the list, sorted.  (That the
\* merge passes of the code compute what KList defines is SortsStably of ListSort.)
LEMMA SortContent ==
  ASSUME NEW T, NEW s \in Seq(T), NEW lt, WeakOrder(lt, T),
         NEW r, r = list_sort(s, lt)
  PROVE  /\ r \in Seq(T)
         /\ Len(r) = Len(s)
         /\ Range(r) = Range(s)
         /\ IsInjective(s) => IsInjective(r)
         /\ Sorted(r, lt)
<1>d. PICK D : D = 1..Len(s)
  BY Zenon
<1>b. PICK before : before = StableOrder(s, lt)
  BY Zenon
<1>1. \A i \in D : s[i] \in T /\ i \in Nat
  BY <1>d
<1>2. \A i, j \in D : <<i, j>> \in before <=>
        <<s[i], s[j]>> \in lt \/ (i < j /\ <<s[j], s[i]>> \notin lt)
  BY <1>d, <1>b, Zenon DEF StableOrder
<1>3. StrictOrder(before, D)
  <2>1. \A i \in D : <<i, i>> \notin before
    <3>1. \A a \in T : <<a, a>> \notin lt
      BY Zenon DEF WeakOrder, StrictOrder
    <3>2. ASSUME NEW i \in D PROVE <<i, i>> \notin before
      <4>1. s[i] \in T /\ ~(i < i)
        BY <1>1
      <4> QED
        BY <1>2, <3>1, <4>1, Zenon
    <3> QED
      BY <3>2, Zenon
  <2>2. ASSUME NEW i \in D, NEW j \in D, NEW k \in D,
               <<i, j>> \in before, <<j, k>> \in before
        PROVE  <<i, k>> \in before
    <3>1. s[i] \in T /\ s[j] \in T /\ s[k] \in T
      BY <1>1, Zenon
    <3>2. CASE <<s[i], s[j]>> \in lt \/ <<s[j], s[k]>> \in lt
      <4>1. <<s[i], s[k]>> \in lt
        BY <1>2, <2>2, <3>1, <3>2, Zenon DEF WeakOrder, StrictOrder
      <4> QED
        BY <1>2, <4>1, Zenon
    <3>3. CASE <<s[i], s[j]>> \notin lt /\ <<s[j], s[k]>> \notin lt
      <4>1. i < j /\ j < k /\ <<s[j], s[i]>> \notin lt /\ <<s[k], s[j]>> \notin lt
        BY <1>2, <2>2, <3>3, Zenon
      <4>2. i < k /\ <<s[k], s[i]>> \notin lt
        BY <1>1, <3>1, <4>1 DEF WeakOrder
      <4> QED
        BY <1>2, <4>2, Zenon
    <3> QED
      BY <3>2, <3>3, Zenon
  <2> QED
    BY <2>1, <2>2, Zenon DEF StrictOrder
<1>4. Total(before, D)
  <2>1. SUFFICES ASSUME NEW i \in D, NEW j \in D, i # j
                 PROVE  <<i, j>> \in before \/ <<j, i>> \in before
    BY Zenon DEF Total
  <2>2. i < j \/ j < i
    BY <1>1, <2>1
  <2> QED
    BY <1>2, <2>2, Zenon
<1>5. r = Arrange(s, D, before)
  BY <1>d, <1>b, Zenon DEF list_sort
<1>6. Arranged(r, s, T, D, before)
  <2>1. D \in SUBSET (1..Len(s))
    BY <1>d, Zenon
  <2> QED
    BY <1>3, <1>4, <1>5, <2>1, ArrangeContent, Zenon
<1>7. Len(r) = Len(s)
  <2>1. Len(s) \in Nat /\ Len(s) \in Int /\ 1 \in Int
    OBVIOUS
  <2>2. Cardinality(1..Len(s)) = IF 1 > Len(s) THEN 0 ELSE Len(s) - 1 + 1
    BY <2>1, FS_Interval, Zenon
  <2>3. Cardinality(1..Len(s)) = Len(s)
    BY <2>1, <2>2
  <2>4. Len(r) = Cardinality(D)
    BY <1>6, Zenon DEF Arranged
  <2> QED
    BY <1>d, <2>3, <2>4, Zenon
<1>8. Range(r) = Range(s)
  <2>1. \A y : y \in Range(s) <=> \E i \in 1..Len(s) : s[i] = y
    BY ElementsOfSeq, Zenon
  <2>2. \A y : y \in Range(r) <=> \E i \in D : s[i] = y
    BY <1>6, Zenon DEF Arranged
  <2> QED
    BY <1>d, <2>1, <2>2, Zenon
<1>9. Sorted(r, lt)
  <2>1. SUFFICES ASSUME NEW k \in 1..Len(r), NEW m \in 1..Len(r), k < m
                 PROVE  <<r[m], r[k]>> \notin lt
    BY Zenon DEF Sorted
  <2>2. PICK i \in D, j \in D : r[k] = s[i] /\ r[m] = s[j] /\ <<i, j>> \in before
    BY <1>6, <2>1 DEF Arranged
  <2>3. s[i] \in T /\ s[j] \in T
    BY <1>1, Zenon
  <2> QED
    BY <1>2, <2>2, <2>3, Zenon DEF WeakOrder, StrictOrder
<1> QED
  BY <1>6, <1>7, <1>8, <1>9, Zenon DEF Arranged

\* Removing elements keeps the others, in their order.
THEOREM RemoveContent ==
  ASSUME NEW T, NEW s \in Seq(T), NEW keep,
         NEW r, r = RemoveExcept(s, keep)
  PROVE  /\ r \in Seq(T)
         /\ Range(r) = Range(s) \cap keep
         /\ IsInjective(s) => IsInjective(r)
<1>1. PICK D : D = {i \in 1..Len(s) : s[i] \in keep}
  BY Zenon
<1>2. PICK before : before = {p \in D \X D : p[1] < p[2]}
  BY Zenon
<1>3. \A i \in D : i \in Nat
  BY <1>1
<1>4. \A i, j \in D : <<i, j>> \in before <=> i < j
  BY <1>2, Zenon
<1>5. StrictOrder(before, D) /\ Total(before, D)
  BY <1>3, <1>4 DEF StrictOrder, Total
<1>6. r = Arrange(s, D, before)
  BY <1>1, <1>2, Zenon DEF RemoveExcept
<1>7. D \in SUBSET (1..Len(s))
  BY <1>1, Zenon
<1>8. Arranged(r, s, T, D, before)
  BY <1>5, <1>6, <1>7, ArrangeContent, Zenon
<1>9. \A y : y \in Range(s) <=> \E i \in 1..Len(s) : s[i] = y
  BY ElementsOfSeq, Zenon
<1>10. \A y : y \in Range(r) <=> \E i \in D : s[i] = y
  BY <1>8, Zenon DEF Arranged
<1>11. Range(r) = Range(s) \cap keep
  BY <1>1, <1>9, <1>10, Zenon
<1> QED
  BY <1>8, <1>11, Zenon DEF Arranged

\* list_pop_front takes the front element off a list that has each element once.
LEMMA TailContent ==
  ASSUME NEW T, NEW q \in Seq(T), q # <<>>, IsInjective(q)
  PROVE  /\ Head(q) \in T /\ Head(q) \in Range(q) /\ Tail(q) \in Seq(T)
         /\ IsInjective(Tail(q)) /\ Range(Tail(q)) = Range(q) \ {Head(q)}
<1>1. PICK n \in Nat : n = Len(q) /\ n > 0
  OBVIOUS
<1>2. PICK r \in Seq(T) : r = Tail(q)
  BY TailElements, Zenon
<1>3. Len(r) = n - 1 /\ \A i \in 1..(n - 1) : r[i] = q[i + 1]
  BY <1>1, <1>2
<1>4. \A y : y \in Range(q) <=> \E i \in 1..n : q[i] = y
  BY <1>1, ElementsOfSeq, Zenon
<1>5. \A y : y \in Range(r) <=> \E i \in 1..(n - 1) : r[i] = y
  BY <1>3, ElementsOfSeq
<1>6. \A i, j \in 1..n : i < j => q[i] # q[j]
  BY <1>1, InjectiveSeq, Zenon
<1>7. Head(q) = q[1] /\ 1 \in 1..n
  BY <1>1
<1>8. Head(q) \in T /\ Head(q) \in Range(q)
  BY <1>1, <1>4, <1>7
<1>9. IsInjective(r)
  <2>1. \A i, j \in 1..Len(r) : i < j => r[i] # r[j]
    BY <1>3, <1>6
  <2> QED
    BY <2>1, InjectiveSeq, Zenon
<1>10. Range(r) = Range(q) \ {Head(q)}
  <2>1. ASSUME NEW y \in Range(r) PROVE y \in Range(q) /\ y # Head(q)
    <3>1. PICK i \in 1..(n - 1) : r[i] = y
      BY <1>5, Zenon
    <3>2. i + 1 \in 1..n /\ 1 < i + 1 /\ y = q[i + 1]
      BY <1>3, <3>1
    <3> QED
      BY <1>4, <1>6, <1>7, <3>2, Zenon
  <2>2. ASSUME NEW y \in Range(q), y # Head(q) PROVE y \in Range(r)
    <3>1. PICK i \in 1..n : q[i] = y
      BY <1>4, Zenon
    <3>2. i # 1
      BY <1>7, <2>2, <3>1, Zenon
    <3>3. i - 1 \in 1..(n - 1) /\ r[i - 1] = q[i]
      BY <1>3, <3>2
    <3> QED
      BY <1>5, <3>1, <3>3, Zenon
  <2> QED
    BY <2>1, <2>2, Zenon
<1> QED
  BY <1>2, <1>8, <1>9, <1>10, Zenon

\* No element of a sorted list is less than the one in front.
LEMMA FrontOfSorted ==
  ASSUME NEW T, NEW q \in Seq(T), q # <<>>, NEW lt, StrictOrder(lt, T), Sorted(q, lt)
  PROVE  \A y \in Range(q) : <<y, Head(q)>> \notin lt
<1> SUFFICES ASSUME NEW y \in Range(q) PROVE <<y, Head(q)>> \notin lt
  BY Zenon
<1>1. PICK i \in 1..Len(q) : q[i] = y
  BY ElementsOfSeq, Zenon
<1>2. Head(q) = q[1] /\ 1 \in 1..Len(q) /\ Head(q) \in T
  <2>1. Len(q) \in Nat /\ Len(q) > 0
    OBVIOUS
  <2> QED
    BY <2>1
<1>3. CASE i = 1
  BY <1>1, <1>2, <1>3, Zenon DEF StrictOrder
<1>4. CASE i # 1
  BY <1>1, <1>2, <1>4 DEF Sorted
<1> QED
  BY <1>3, <1>4, Zenon

\* list_push_back of an element that is not on the list.
LEMMA AppendContent ==
  ASSUME NEW T, NEW q \in Seq(T), IsInjective(q), NEW x \in T, x \notin Range(q)
  PROVE  /\ Append(q, x) \in Seq(T) /\ IsInjective(Append(q, x))
         /\ Range(Append(q, x)) = Range(q) \cup {x}
<1>1. Append(q, x) \in Seq(T)
  OBVIOUS
<1>2. PICK r \in Seq(T) : r = Append(q, x)
  BY <1>1, Zenon
<1>3. /\ Len(r) = Len(q) + 1 /\ Len(q) \in Nat /\ r[Len(q) + 1] = x
      /\ \A i \in 1..Len(q) : r[i] = q[i]
  BY <1>2
<1>4. /\ \A y : y \in Range(q) <=> \E i \in 1..Len(q) : q[i] = y
      /\ \A y : y \in Range(r) <=> \E i \in 1..Len(r) : r[i] = y
  BY ElementsOfSeq, Zenon
<1>5. Range(r) = Range(q) \cup {x}
  <2>1. ASSUME NEW y \in Range(r) PROVE y \in Range(q) \cup {x}
    <3>1. PICK i \in 1..Len(r) : r[i] = y
      BY <1>4, Zenon
    <3> QED
      BY <1>3, <1>4, <3>1
  <2>2. ASSUME NEW y \in Range(q) PROVE y \in Range(r)
    <3>1. PICK i \in 1..Len(q) : q[i] = y
      BY <1>4, Zenon
    <3>2. i \in 1..Len(r) /\ r[i] = y
      BY <1>3, <3>1
    <3> QED
      BY <1>4, <3>2, Zenon
  <2>3. x \in Range(r)
    BY <1>3, <1>4
  <2> QED
    BY <2>1, <2>2, <2>3, Zenon
<1>6. IsInjective(r)
  <2>1. \A i, j \in 1..Len(q) : i < j => q[i] # q[j]
    BY InjectiveSeq, Zenon
  <2>2. \A i \in 1..Len(q) : q[i] # x
    BY <1>4, Zenon
  <2>3. \A i, j \in 1..Len(r) : i < j => r[i] # r[j]
    BY <1>3, <2>1, <2>2
  <2> QED
    BY <2>3, InjectiveSeq, Zenon
<1> QED
  BY <1>2, <1>5, <1>6, Zenon

-----------------------------------------------------------------------------
(* The run queue.                                                          *)

\* The list q has the members of S, each once.
Lists(q, S) == q \in Seq(Threads) /\ IsInjective(q) /\ Range(q) = S

\* comparePriority is an order that list_insert_ordered and list_sort can use.
LEMMA PriorityOrder ==
  ASSUME NEW pr \in [Threads -> Nat]
  PROVE  WeakOrder(comparePriority(pr), Threads)
<1>1. \A a, b \in Threads : <<a, b>> \in comparePriority(pr) <=> pr[a] > pr[b]
  BY Zenon DEF comparePriority
<1>2. \A a \in Threads : pr[a] \in Nat
  BY Zenon
<1> QED
  BY <1>1, <1>2 DEF WeakOrder, StrictOrder

\* The empty list lists the empty set, and only that.
LEMMA ListsEmpty ==
  /\ Lists(<<>>, {})
  /\ \A q, S : Lists(q, S) => (q = <<>> <=> S = {})
<1>1. <<>> \in Seq(Threads) /\ Range(<<>>) = {} /\ IsInjective(<<>>)
  BY DEF Range, IsInjective
<1>2. ASSUME NEW q, NEW S, Lists(q, S), S = {} PROVE q = <<>>
  <2>1. q \in Seq(Threads) /\ \A y : y \in Range(q) <=> \E i \in 1..Len(q) : q[i] = y
    BY <1>2, ElementsOfSeq, Zenon DEF Lists
  <2>2. \A i \in 1..Len(q) : q[i] \in Range(q)
    BY <2>1, Zenon
  <2>3. Range(q) = {}
    BY <1>2, Zenon DEF Lists
  <2>4. Len(q) \in Nat /\ (Len(q) > 0 => 1 \in 1..Len(q))
    BY <2>1
  <2>5. Len(q) = 0
    BY <2>2, <2>3, <2>4
  <2> QED
    BY <2>1, <2>5
<1> QED
  BY <1>1, <1>2, Zenon DEF Lists

\* list_insert_ordered adds its element to what the list lists.
LEMMA ListsInsert ==
  ASSUME NEW q, NEW S, Lists(q, S), NEW t \in Threads, t \notin S, NEW lt,
         NEW r, r = list_insert_ordered(q, t, lt)
  PROVE  Lists(r, S \cup {t})
<1>1. q \in Seq(Threads) /\ IsInjective(q) /\ Range(q) = S
  BY Zenon DEF Lists
<1>2. /\ r \in Seq(Threads)
      /\ Range(r) = Range(q) \cup {t}
      /\ IsInjective(q) /\ t \notin Range(q) => IsInjective(r)
  BY <1>1, InsertContent
<1> QED
  BY <1>1, <1>2, Zenon DEF Lists

\* list_sort keeps what the list lists, and sorts it.
LEMMA ListsSort ==
  ASSUME NEW q, NEW S, Lists(q, S), NEW pr \in [Threads -> Nat],
         NEW r, r = list_sort(q, comparePriority(pr))
  PROVE  Lists(r, S) /\ Sorted(r, comparePriority(pr))
<1>1. q \in Seq(Threads) /\ IsInjective(q) /\ Range(q) = S
  BY Zenon DEF Lists
<1>2. /\ r \in Seq(Threads)
      /\ Range(r) = Range(q)
      /\ IsInjective(q) => IsInjective(r)
      /\ Sorted(r, comparePriority(pr))
  BY <1>1, PriorityOrder, SortContent, Zenon
<1> QED
  BY <1>1, <1>2, Zenon DEF Lists

\* list_pop_front takes one element off.
LEMMA ListsTail ==
  ASSUME NEW q, NEW S, Lists(q, S), q # <<>>
  PROVE  Head(q) \in S /\ Head(q) \in Threads /\ Lists(Tail(q), S \ {Head(q)})
<1>1. q \in Seq(Threads) /\ IsInjective(q) /\ Range(q) = S
  BY Zenon DEF Lists
<1>2. /\ Head(q) \in Threads /\ Head(q) \in Range(q) /\ Tail(q) \in Seq(Threads)
      /\ IsInjective(Tail(q)) /\ Range(Tail(q)) = Range(q) \ {Head(q)}
  BY <1>1, TailContent, Zenon
<1> QED
  BY <1>1, <1>2, Zenon DEF Lists

-----------------------------------------------------------------------------
(* The operations on the run queue.                                        *)

Statuses == {"unborn", "ready", "running", "blocked"}

Ready(st) == {t \in Threads : st[t] = "ready"}

\* What RunQueueOK says, with the queue as the list of the set of ready threads.
QueueOK ==
  /\ current \in Threads \cup {Idle}
  /\ status \in [Threads -> Statuses]
  /\ Lists(ready_list, Ready(status))
  /\ thread_ticks \in 0..(TIME_SLICE - 1)
  /\ \A t \in Threads : status[t] = "running" <=> current = t

\* schedule: the run queue loses its first thread, which becomes the running one.
LEMMA ScheduleOK ==
  ASSUME NEW ready, NEW st \in [Threads -> Statuses], Lists(ready, Ready(st)),
         \A t \in Threads : st[t] # "running",
         schedule(ready, st)
  PROVE  /\ QueueOK'
         /\ \A t \in Threads : status'[t] = st[t] \/ (st[t] = "ready" /\ status'[t] = "running")
<1>1. thread_ticks' \in 0..(TIME_SLICE - 1)
  BY TimeSliceAssumption DEF schedule
<1>2. CASE ready = <<>>
  <2>1. current' = Idle /\ ready_list' = <<>> /\ status' = st
    BY <1>2, Zenon DEF schedule, next_thread_to_run
  <2>2. Lists(ready_list', Ready(status'))
    BY <1>2, <2>1, Zenon
  <2> QED
    BY <1>1, <2>1, <2>2, ThreadsAssumption, Zenon DEF QueueOK
<1>3. CASE ready # <<>>
  <2>1. PICK h \in Threads : h = Head(ready) /\ h \in Ready(st) /\ Lists(Tail(ready), Ready(st) \ {h})
    BY <1>3, ListsTail, Zenon
  <2>2. current' = h /\ ready_list' = Tail(ready) /\ status' = [st EXCEPT ![h] = "running"]
    BY <1>3, <2>1, ThreadsAssumption, Zenon DEF schedule, next_thread_to_run
  <2>3. Ready(status') = Ready(st) \ {h}
    BY <2>2, Zenon DEF Ready
  <2>4. status' \in [Threads -> Statuses]
    BY <2>2, Zenon DEF Statuses
  <2>5. \A t \in Threads : status'[t] = "running" <=> t = h
    BY <2>2, Zenon
  <2>6. QueueOK'
    BY <1>1, <2>1, <2>2, <2>3, <2>4, <2>5, Zenon DEF QueueOK
  <2>7. \A t \in Threads : status'[t] = st[t] \/ (st[t] = "ready" /\ status'[t] = "running")
    BY <2>1, <2>2, Zenon DEF Ready
  <2> QED
    BY <2>6, <2>7, Zenon
<1> QED
  BY <1>2, <1>3, Zenon

\* thread_init leaves one thread running.
LEMMA CpuInitOK == CpuInit => QueueOK
<1> SUFFICES ASSUME CpuInit PROVE QueueOK
  BY Zenon
<1>1. Started \in Seq(Threads \ {initial_thread}) /\ initial_thread \in Threads
  BY ThreadsAssumption, Zenon
<1>2. \A y : y \in Range(Started) <=> \E i \in 1..Len(Started) : Started[i] = y
  BY <1>1, ElementsOfSeq, Zenon
<1>3. Range(Started) \subseteq Threads \ {initial_thread} /\ Started \in Seq(Threads)
  BY <1>1, <1>2
<1>4. \A t \in Threads : status[t] = IF t = initial_thread THEN "running"
                                  ELSE IF t \in Range(Started) THEN "ready" ELSE "unborn"
  BY Zenon DEF CpuInit
<1>5. status \in [Threads -> Statuses]
  BY Zenon DEF CpuInit, Statuses
<1>6. Ready(status) = Range(Started)
  BY <1>3, <1>4, Zenon DEF Ready
<1>7. Lists(ready_list, Ready(status))
  BY <1>3, <1>6, ThreadsAssumption, Zenon DEF CpuInit, Lists
<1>8. \A t \in Threads : status[t] = "running" <=> current = t
  BY <1>4, Zenon DEF CpuInit
<1>9. thread_ticks \in 0..(TIME_SLICE - 1) /\ current \in Threads
  BY <1>1, TimeSliceAssumption DEF CpuInit
<1> QED
  BY <1>5, <1>7, <1>8, <1>9, Zenon DEF QueueOK

\* The running thread blocks.
LEMMA BlockOK ==
  ASSUME QueueOK, current \in Threads, thread_block
  PROVE  /\ QueueOK'
         /\ status'[current] = "blocked"
         /\ \A t \in Threads \ {current} : \/ status'[t] = status[t]
                                           \/ status[t] = "ready" /\ status'[t] = "running"
<1>1. PICK st : st = [status EXCEPT ![current] = "blocked"]
  BY Zenon
<1>2. st \in [Threads -> Statuses] /\ st[current] = "blocked"
      /\ \A t \in Threads \ {current} : st[t] = status[t]
  BY <1>1, Zenon DEF QueueOK, Statuses
<1>3. Ready(st) = Ready(status)
  BY <1>2, Zenon DEF QueueOK, Ready
<1>4. \A t \in Threads : st[t] # "running"
  BY <1>2, Zenon DEF QueueOK
<1>5. Lists(ready_list, Ready(st)) /\ schedule(ready_list, st)
  BY <1>1, <1>3, Zenon DEF QueueOK, thread_block
<1>6. /\ QueueOK'
      /\ \A t \in Threads : status'[t] = st[t] \/ (st[t] = "ready" /\ status'[t] = "running")
  BY <1>2, <1>4, <1>5, ScheduleOK, Zenon
<1> QED
  BY <1>2, <1>6, Zenon

\* A thread that is off the queue and does not run is made ready.
LEMMA UnblockOK ==
  ASSUME QueueOK, NEW t \in Threads, status[t] \in {"blocked", "unborn"}, thread_unblock(t)
  PROVE  /\ QueueOK'
         /\ status' = [status EXCEPT ![t] = "ready"]
         /\ current' = current
<1>1. /\ ready_list' = list_insert_ordered(ready_list, t, comparePriority(priority))
      /\ status' = [status EXCEPT ![t] = "ready"]
      /\ UNCHANGED <<current, thread_ticks>>
  BY Zenon DEF thread_unblock, insert_by_priority
<1>2. status' \in [Threads -> Statuses]
  BY <1>1, Zenon DEF QueueOK, Statuses
<1>3. t \notin Ready(status) /\ Ready(status') = Ready(status) \cup {t}
  BY <1>1, Zenon DEF QueueOK, Ready
<1>4. Lists(ready_list', Ready(status'))
  <2>1. PICK r : r = list_insert_ordered(ready_list, t, comparePriority(priority))
    BY Zenon
  <2>2. Lists(r, Ready(status) \cup {t})
    BY <1>3, <2>1, ListsInsert, Zenon DEF QueueOK
  <2> QED
    BY <1>1, <1>3, <2>1, <2>2, Zenon
<1>5. \A u \in Threads : status'[u] = "running" <=> current' = u
  BY <1>1, Zenon DEF QueueOK
<1> QED
  BY <1>1, <1>2, <1>4, <1>5, Zenon DEF QueueOK

\* The running thread goes to the queue, or the idle thread gives up the CPU.
LEMMA YieldOK ==
  ASSUME QueueOK, NEW pr, thread_yield(pr)
  PROVE  /\ QueueOK'
         /\ \A t \in Threads : \/ status'[t] = status[t]
                               \/ {status[t], status'[t]} \subseteq {"ready", "running"}
<1>1. CASE current = Idle
  <2>1. \A t \in Threads : status[t] # "running"
    BY <1>1, ThreadsAssumption, Zenon DEF QueueOK
  <2>2. /\ QueueOK'
        /\ \A t \in Threads : status'[t] = status[t] \/ (status[t] = "ready" /\ status'[t] = "running")
    BY <1>1, <2>1, ScheduleOK, Zenon DEF QueueOK, thread_yield
  <2> QED
    BY <2>2, Zenon
<1>2. CASE current # Idle
  <2>1. PICK st : st = [status EXCEPT ![current] = "ready"]
    BY Zenon
  <2>2. PICK q : q = list_insert_ordered(ready_list, current, comparePriority(pr))
    BY Zenon
  <2>3. current \in Threads /\ schedule(q, st)
    BY <1>2, <2>1, <2>2, Zenon DEF QueueOK, thread_yield, insert_by_priority
  <2>4. st \in [Threads -> Statuses] /\ st[current] = "ready"
        /\ \A t \in Threads \ {current} : st[t] = status[t]
    BY <2>1, <2>3, Zenon DEF QueueOK, Statuses
  <2>5. current \notin Ready(status) /\ Ready(st) = Ready(status) \cup {current}
    BY <2>3, <2>4, Zenon DEF QueueOK, Ready
  <2>6. Lists(q, Ready(st))
    BY <2>2, <2>3, <2>5, ListsInsert DEF QueueOK
  <2>7. \A t \in Threads : st[t] # "running"
    BY <2>3, <2>4, Zenon DEF QueueOK
  <2>8. /\ QueueOK'
        /\ \A t \in Threads : status'[t] = st[t] \/ (st[t] = "ready" /\ status'[t] = "running")
    BY <2>3, <2>4, <2>6, <2>7, ScheduleOK, Zenon
  <2>9. status[current] = "running"
    BY <2>3, Zenon DEF QueueOK
  <2> QED
    BY <2>3, <2>4, <2>8, <2>9, Zenon
<1> QED
  BY <1>1, <1>2, Zenon

\* thread_tick moves threads between the CPU and the run queue only.
LEMMA TickOK ==
  ASSUME QueueOK, thread_tick
  PROVE  /\ QueueOK'
         /\ \A t \in Threads : \/ status'[t] = status[t]
                               \/ {status[t], status'[t]} \subseteq {"ready", "running"}
<1>1. CASE thread_ticks + 1 >= TIME_SLICE
  BY <1>1, YieldOK, Zenon DEF thread_tick
<1>2. CASE ~(thread_ticks + 1 >= TIME_SLICE)
  <2>1. thread_ticks' = thread_ticks + 1 /\ UNCHANGED <<current, status, ready_list>>
    BY <1>2, Zenon DEF thread_tick
  <2>2. thread_ticks' \in 0..(TIME_SLICE - 1)
    BY <1>2, <2>1, TimeSliceAssumption DEF QueueOK
  <2> QED
    BY <2>1, <2>2, Zenon DEF QueueOK
<1> QED
  BY <1>1, <1>2, Zenon

\* A turn of the idle loop takes threads from the run queue only.
LEMMA IdleOK ==
  ASSUME QueueOK, idle
  PROVE  /\ QueueOK'
         /\ \A t \in Threads : \/ status'[t] = status[t]
                               \/ {status[t], status'[t]} \subseteq {"ready", "running"}
<1>1. thread_yield(priority)
  BY Zenon DEF idle, thread_yield
<1> QED
  BY <1>1, YieldOK, Zenon

\* QueueOK is RunQueueOK with the types of the CPU's state.
LEMMA QueueMeaning ==
  ASSUME QueueOK, priority \in [Threads -> Nat]
  PROVE  CpuTypeOK /\ RunQueueOK
<1>1. ready_list \in Seq(Threads) /\ IsInjective(ready_list) /\ Range(ready_list) = Ready(status)
  BY Zenon DEF QueueOK, Lists
<1>2. \A t \in Threads : status[t] = "ready" <=> t \in Range(ready_list)
  BY <1>1, Zenon DEF Ready
<1> QED
  BY <1>1, <1>2, Zenon DEF QueueOK, CpuTypeOK, RunQueueOK, Statuses

=============================================================================
