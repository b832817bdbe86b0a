----------------------------- MODULE MCServices ------------------------------
(***************************************************************************)
(* The allocators and the library of the kernel, for TLC.  A behaviour     *)
(* explores one of them; the pool of the others stays as it is initially,  *)
(* and their other variables are NULL.  pc, key and result are variables   *)
(* that several of them have.                                              *)
(***************************************************************************)
EXTENDS Palloc, Sequences

CONSTANTS proc1, proc2, NULL

VARIABLES part, pc, key, result,
  buckets, elem_cnt, cursor,
  list, a0, a1b0, b1, output_run_cnt,
  next, prev, order,
  given, array, index, node, first, last,
  used, arena, free_list, blocks, moving, overrun,
  mem, before, call, dst, src, size, save_ptr, tokens, ret,
  n, d, fn, trapped

table == <<buckets, elem_cnt, cursor>>
sorting == <<list, a0, a1b0, b1, output_run_cnt>>
links == <<next, prev, order>>
stdlib == <<given, array, index, node, first, last>>
heap == <<used, arena, free_list, blocks, moving, overrun>>
strings == <<mem, before, call, dst, src, size, save_ptr, tokens, ret>>
division == <<n, d, fn, trapped>>
shared == <<pc, key, result>>
vars == <<part, shared, table, sorting, links, stdlib, pool, heap, strings, division>>

\* Elements are pairs of a key and a tag, so that equal elements differ; some keys
\* share a bucket.
KeyOf(e) == e[1]
HashFn(k) == <<0, 2, 3, 7, 5>>[k]
Hash == INSTANCE Hash WITH
  Elements <- ({1, 2, 3, 4, 5} \X {1}) \cup {<<2, 2>>}, Key <- KeyOf, HashOf <- HashFn,
  MinBuckets <- 1, BEST_ELEMS_PER_BUCKET <- 1, MallocFails <- TRUE

ListSort == INSTANCE ListSort WITH MaxLen <- 6, Keys <- {1, 2, 3}

DList == INSTANCE DList WITH Elems <- {"elem"} \X (1..3), Lists <- {1, 2}

\* Numbers of up to three digits around the bounds of an int of eight bits.
Characters == {" ", "+", "-", "1", "2", "8", "x"}
Stdlib == INSTANCE Stdlib WITH
  Arrays <- UNION {[1..len -> 1..4] : len \in 0..5}, Keys <- 0..5,
  Strings <- UNION {[1..len -> Characters] : len \in 0..5},
  Digit <- [c \in {"1", "2", "8"} |-> CASE c = "1" -> 1 [] c = "2" -> 2 [] c = "8" -> 8],
  INT_MAX <- 127, i <- index

ASSUME PallocAssumption == PoolConstants

\* Pages of 16 bytes with headers of 4: blocks of 2 and 4 bytes, six and three to
\* an arena.  Of the sizes, 62 wraps with the header and 48 when it is rounded up; of
\* the products, calloc notices that <<2, 40>> wraps, and not that <<9, 9>> does.
Malloc == INSTANCE Malloc WITH
  PGSIZE <- 16, ArenaSize <- 4, MinBlock <- 2, PageCnt <- 3, WORD_SIZE <- 64,
  Sizes <- {0, 2, 5, 14, 48, 62},
  Products <- {<<0, 3>>, <<1, 2>>, <<2, 2>>, <<2, 40>>, <<9, 9>>}, MaxBlocks <- 4

StringLib == INSTANCE StringLib WITH N <- 5, Letters <- {1, 2}, Delimiters <- {2}, NUL <- 0

Arithmetic == INSTANCE Arithmetic WITH W <- 4

NoTable == buckets = NULL /\ elem_cnt = NULL /\ cursor = NULL
NoSorting == list = NULL /\ a0 = NULL /\ a1b0 = NULL /\ b1 = NULL /\ output_run_cnt = NULL
NoLinks == next = NULL /\ prev = NULL /\ order = NULL
NoStdlib == given = NULL /\ array = NULL /\ index = NULL /\ node = NULL /\ first = NULL /\ last = NULL
NoHeap == used = NULL /\ arena = NULL /\ free_list = NULL /\ blocks = NULL /\ moving = NULL /\ overrun = NULL
NoStrings == /\ mem = NULL /\ before = NULL /\ call = NULL /\ dst = NULL /\ src = NULL /\ size = NULL
             /\ save_ptr = NULL /\ tokens = NULL /\ ret = NULL
NoDivision == n = NULL /\ d = NULL /\ fn = NULL /\ trapped = NULL

MCInit ==
  /\ part \in {"hash", "sort", "links", "stdlib", "palloc", "malloc", "string", "division"}
  /\ IF part = "hash" THEN Hash!Init ELSE NoTable
  /\ IF part = "sort" THEN ListSort!Init ELSE NoSorting
  /\ IF part = "links" THEN DList!Init ELSE NoLinks
  /\ IF part = "stdlib" THEN Stdlib!Init ELSE NoStdlib
  /\ PoolInit
  /\ IF part = "malloc" THEN Malloc!Init ELSE NoHeap
  /\ IF part = "string" THEN StringLib!Init ELSE NoStrings
  /\ IF part = "division" THEN Arithmetic!Init ELSE NoDivision
  /\ part \notin {"sort", "stdlib", "string"} => pc = NULL
  /\ part \notin {"sort", "stdlib"} => key = NULL
  /\ part \notin {"hash", "stdlib", "division"} => result = NULL

Sorts == part = "sort" /\ ListSort!Next /\ UNCHANGED <<part, result, table, links, stdlib, pool, heap, strings, division>>
Computes == part = "stdlib" /\ Stdlib!Next /\ UNCHANGED <<part, table, sorting, links, pool, heap, strings, division>>

MCNext ==
  \/ Sorts \/ Computes
  \/ /\ \/ part = "hash" /\ Hash!Next
           /\ UNCHANGED <<pc, key, sorting, links, stdlib, pool, heap, strings, division>>
        \/ part = "links" /\ DList!Next
           /\ UNCHANGED <<shared, table, sorting, stdlib, pool, heap, strings, division>>
        \/ part = "palloc" /\ PoolNext
           /\ UNCHANGED <<shared, table, sorting, links, stdlib, heap, strings, division>>
        \/ part = "malloc" /\ Malloc!Next
           /\ UNCHANGED <<shared, table, sorting, links, stdlib, pool, strings, division>>
        \/ part = "string" /\ StringLib!Next
           /\ UNCHANGED <<key, result, table, sorting, links, stdlib, pool, heap, division>>
        \/ part = "division" /\ Arithmetic!Next
           /\ UNCHANGED <<pc, key, table, sorting, links, stdlib, pool, heap, strings>>
     /\ UNCHANGED part

\* A sort or a search that has begun goes on.
MCSpec ==
  MCInit /\ [][MCNext]_vars
  /\ WF_vars(Sorts) /\ WF_vars(part = "stdlib" /\ pc = "search" /\ Computes)

-----------------------------------------------------------------------------
\* The table is a dictionary, whatever rehash does: an element is in the bucket its
\* hash names, once, elem_cnt counts them, and an iteration returns each of them
\* once (see Hash, Dictionary).
Promise == INSTANCE Dictionary WITH
  Elements <- ({1, 2, 3, 4, 5} \X {1}) \cup {<<2, 2>>}, Key <- KeyOf,
  contents <- IF part = "hash" THEN Hash!Contents ELSE {},
  result <- IF part = "hash" THEN result ELSE NULL
IsDictionary ==
  Promise!Spec /\ [](part = "hash" => Hash!WellPlaced /\ Hash!Counted /\ Hash!IterationComplete)

\* The merge sort yields the stable sort of the list, what it merges is sorted, and
\* list_unique keeps the first of each key (see ListSort).
SortsStably ==
  part = "sort" => ListSort!SortsStably /\ ListSort!MergeInputsSorted /\ ListSort!UniqueOfSorted

\* The links of the lists are those of the sequences asked for (see DList).
LinksAgree == part = "links" => DList!LinksAgree

\* sort leaves the elements it was given, in order, binary_search finds a key that is
\* there, and atoi converts exactly what an int can hold (see Stdlib).
ArraysExact == part = "stdlib" => Stdlib!ArraySorted /\ Stdlib!SearchExact /\ Stdlib!NumberExact

\* list_sort and binary_search come to their ends: every pass leaves fewer runs, and
\* every probe a shorter range (see ListSort, Stdlib).
LoopsEnd ==
  /\ part = "sort" ~> part = "sort" /\ pc = "done"
  /\ part = "stdlib" /\ pc = "search" ~> part = "stdlib" /\ pc = "found"

\* Blocks in use do not overlap, the free lists hold exactly the others, without
\* blocks in use all pages are back, and a block has the size asked for and realloc's
\* copy keeps to it, if that size does not wrap (see Malloc).
HeapSoundIfSizesFit ==
  part = "malloc" => /\ Malloc!BlocksDisjoint /\ Malloc!FreeListExact
                     /\ Malloc!PagesReturned
                     /\ Malloc!LargeEnoughIfFits /\ Malloc!OverrunOnlyIfWrapped

\* memmove copies overlapping blocks, strlcpy and strlcat keep to the buffer,
\* strtok_r returns every token once, and what compares or searches returns what
\* its comment names (see StringLib).
StringsExact ==
  part = "string" => /\ StringLib!MoveExact /\ StringLib!LimitedCopy /\ StringLib!TokensExact
                     /\ StringLib!ComparedExactly /\ StringLib!FoundExactly

\* The division instruction never traps, quotients are exact, and remainders where
\* they fit a word (see Arithmetic).
DivisionExact ==
  part = "division" => /\ Arithmetic!NeverTraps /\ Arithmetic!UnsignedQuotient
                       /\ Arithmetic!SignedQuotient /\ Arithmetic!SmallRemainders
=============================================================================
