-------------------------------- MODULE Hash --------------------------------
(***************************************************************************)
(* The hash table of lib/kernel/hash.c: buckets that are lists, and        *)
(* rehash, which after every insertion and deletion may move all elements  *)
(* to another number of buckets, or fail to for want of memory.  The table *)
(* has no lock; its callers provide it.                                    *)
(***************************************************************************)
EXTENDS Integers, Sequences, SequencesExt, FiniteSets

CONSTANTS Elements, Key(_),
          HashOf(_),                \* the table's hash function, on keys
          MinBuckets,               \* 4
          BEST_ELEMS_PER_BUCKET,    \* 2
          MallocFails,              \* may rehash get no memory?
          NULL

VARIABLES buckets, elem_cnt, result,
          cursor     \* an iteration: what is left of its bucket, its bucket, what it returned

(* x & (x - 1), applied until one bit is left: the largest power of two.   *)
PowersOf2 == {2^k : k \in 0 .. 10}
LargestPower(x) == CHOOSE n \in PowersOf2 : n <= x /\ 2 * n > x

(* hash_init *)
Init == /\ buckets = [b \in 0 .. MinBuckets - 1 |-> << >>] /\ elem_cnt = 0
        /\ result = NULL /\ cursor = NULL

bucket_cnt == Cardinality(DOMAIN buckets)

(* hash & (bucket_cnt - 1) *)
bucket_idx(e, cnt) == HashOf(Key(e)) % cnt

(* find_elem *)
Found(e) == {o \in ToSet(buckets[bucket_idx(e, bucket_cnt)]) : Key(o) = Key(e)}
Result(e) == IF Found(e) = {} THEN NULL ELSE CHOOSE o \in Found(e) : TRUE

Inserted(bs, b, e) == [bs EXCEPT ![b] = <<e>> \o @]
Removed(bs, b, e) == [bs EXCEPT ![b] = SelectSeq(@, LAMBDA o : o # e)]

-----------------------------------------------------------------------------
new_bucket_cnt(n) == LET ideal == n \div BEST_ELEMS_PER_BUCKET
                     IN LargestPower(IF ideal < MinBuckets THEN MinBuckets ELSE ideal)

(* The elements in the order rehash visits them; each goes to the front of *)
(* its new bucket.                                                         *)
Visited(bs) == FlattenSeq([k \in 1 .. Cardinality(DOMAIN bs) |-> bs[k - 1]])

(* Slip: an element goes to the bucket of the old number of buckets.       *)
Moved_old(bs, cnt) == [b \in 0 .. cnt - 1 |->
                         Reverse(SelectSeq(Visited(bs),
                           LAMBDA e : bucket_idx(e, Cardinality(DOMAIN bs)) % cnt = b))]

Moved(bs, cnt) == [b \in 0 .. cnt - 1 |->
                     Reverse(SelectSeq(Visited(bs), LAMBDA e : bucket_idx(e, cnt) = b))]

rehash(bs, n) == \/ buckets' = IF new_bucket_cnt(n) = Cardinality(DOMAIN bs) THEN bs
                               ELSE Moved(bs, new_bucket_cnt(n))
                 \/ MallocFails /\ new_bucket_cnt(n) # Cardinality(DOMAIN bs) /\ buckets' = bs

Call(e) == cursor = NULL /\ result' = Result(e) /\ UNCHANGED cursor
Bucket(e) == bucket_idx(e, bucket_cnt)

hash_insert(e) == /\ Call(e)
                  /\ LET new == Found(e) = {}
                     IN /\ elem_cnt' = IF new THEN elem_cnt + 1 ELSE elem_cnt
                        /\ rehash(IF new THEN Inserted(buckets, Bucket(e), e) ELSE buckets, elem_cnt')

(* Slip: the new element is returned, not the one it replaces.             *)
hash_replace_new(e) ==
  /\ cursor = NULL /\ result' = e /\ UNCHANGED cursor
  /\ elem_cnt' = elem_cnt - Cardinality(Found(e)) + 1
  /\ rehash(Inserted(Removed(buckets, Bucket(e), Result(e)), Bucket(e), e), elem_cnt')

(* remove_elem if there is an equal one, then insert_elem.                 *)
hash_replace(e) ==
  /\ Call(e)
  /\ elem_cnt' = elem_cnt - Cardinality(Found(e)) + 1
  /\ rehash(Inserted(Removed(buckets, Bucket(e), Result(e)), Bucket(e), e), elem_cnt')

hash_find(e) == Call(e) /\ UNCHANGED <<buckets, elem_cnt>>

(* Slip: the count is not updated.                                         *)
hash_delete_uncounted(e) ==
  /\ Call(e)
  /\ UNCHANGED elem_cnt
  /\ IF Found(e) = {} THEN UNCHANGED buckets
     ELSE rehash(Removed(buckets, Bucket(e), Result(e)), elem_cnt')

hash_delete(e) ==
  /\ Call(e)
  /\ elem_cnt' = elem_cnt - Cardinality(Found(e))
  /\ IF Found(e) = {} THEN UNCHANGED buckets
     ELSE rehash(Removed(buckets, Bucket(e), Result(e)), elem_cnt')

hash_clear == /\ cursor = NULL
              /\ buckets' = [b \in DOMAIN buckets |-> << >>] /\ elem_cnt' = 0
              /\ UNCHANGED <<result, cursor>>

-----------------------------------------------------------------------------
(* An iteration, during which nobody may modify the table: hash_first puts *)
(* it before the first bucket, each hash_next moves it to the next element *)
(* and past empty buckets; at the end it returns a null pointer.           *)
hash_first == /\ cursor = NULL
              /\ cursor' = [bucket |-> 0, left |-> buckets[0], seen |-> << >>, done |-> FALSE]
              /\ UNCHANGED <<buckets, elem_cnt, result>>

NonEmpty == {b \in DOMAIN buckets : b > cursor.bucket /\ buckets[b] # << >>}
NextBucket == CHOOSE b \in NonEmpty : \A c \in NonEmpty : b <= c

(* Slip: the empty buckets between two others end the iteration.           *)
Advanced_short == IF cursor.left # << >>
                  THEN [cursor EXCEPT !.left = Tail(@), !.seen = Append(@, Head(cursor.left))]
                  ELSE IF cursor.bucket + 1 \in NonEmpty
                  THEN [bucket |-> NextBucket, left |-> Tail(buckets[NextBucket]),
                        seen |-> Append(cursor.seen, Head(buckets[NextBucket])), done |-> FALSE]
                  ELSE [cursor EXCEPT !.done = TRUE]

Advanced == IF cursor.left # << >>
            THEN [cursor EXCEPT !.left = Tail(@), !.seen = Append(@, Head(cursor.left))]
            ELSE IF NonEmpty # {}
            THEN [bucket |-> NextBucket, left |-> Tail(buckets[NextBucket]),
                  seen |-> Append(cursor.seen, Head(buckets[NextBucket])), done |-> FALSE]
            ELSE [cursor EXCEPT !.done = TRUE]

hash_next == /\ cursor # NULL /\ ~cursor.done
             /\ cursor' = Advanced
             /\ UNCHANGED <<buckets, elem_cnt, result>>

iteration_over == /\ cursor # NULL /\ cursor.done
                  /\ cursor' = NULL
                  /\ UNCHANGED <<buckets, elem_cnt, result>>

Next == \/ \E e \in Elements : hash_insert(e) \/ hash_replace(e) \/ hash_find(e) \/ hash_delete(e)
        \/ hash_clear \/ hash_first \/ hash_next \/ iteration_over

-----------------------------------------------------------------------------
Contents == UNION {ToSet(buckets[b]) : b \in DOMAIN buckets}

(* The table's own structure: every element is in the bucket its hash      *)
(* names, once, the number of buckets is a power of two, and elem_cnt      *)
(* counts the elements, however often rehash has moved them.               *)
WellPlaced == /\ bucket_cnt \in PowersOf2 /\ bucket_cnt >= MinBuckets
              /\ \A b \in DOMAIN buckets : /\ IsInjective(buckets[b])
                                           /\ \A e \in ToSet(buckets[b]) : bucket_idx(e, bucket_cnt) = b

Counted == elem_cnt = Cardinality(Contents)

(* The promise of hash.h.                                                  *)
Promise == INSTANCE Dictionary WITH contents <- Contents
IsDictionary == Promise!Spec

(* An iteration returns every element of the table once.                   *)
IterationComplete == cursor # NULL /\ cursor.done =>
                       IsInjective(cursor.seen) /\ ToSet(cursor.seen) = Contents
=============================================================================
