------------------------------- MODULE Malloc -------------------------------
(***************************************************************************)
(* malloc, calloc, realloc and free of threads/malloc.c.  A descriptor     *)
(* for each block size keeps a list of free blocks; arenas, one page each, *)
(* are made when the list is empty and given back when none of their       *)
(* blocks is in use; larger blocks get pages of their own.  A descriptor   *)
(* is only touched under its lock, so malloc and free are one step each;   *)
(* realloc is a malloc, a copy and a free.                                 *)
(*                                                                         *)
(* An address is a byte number; page n starts at n * PGSIZE.  size_t has   *)
(* the values below WORD_SIZE, and wraps.                                  *)
(***************************************************************************)
EXTENDS Integers, Sequences, SequencesExt, FiniteSets

CONSTANTS PGSIZE,
          ArenaSize,       \* sizeof (struct arena)
          MinBlock,        \* size of the smallest blocks: 16
          PageCnt,         \* pages of the kernel pool
          WORD_SIZE,
          Sizes,           \* sizes asked for
          Products,        \* pairs calloc is asked for
          MaxBlocks        \* bound on the blocks in use

VARIABLES used,        \* pages taken from the pool
          arena,       \* first page of an arena |-> its header
          free_list,   \* block size |-> the free blocks
          blocks,      \* blocks in use: [at, size], size as the caller asked
          moving,      \* a realloc that copies: <<old block, new block>>
          overrun      \* it copied past the end of the new one

Uint(x) == x % WORD_SIZE
DIV_ROUND_UP(x, step) == Uint(x + step - 1) \div step

(* malloc_init: the powers of two from MinBlock up to below half a page.   *)
BlockSizes == {MinBlock * 2^k : k \in {k \in 0 .. 6 : MinBlock * 2^k < PGSIZE \div 2}}
blocks_per_arena(d) == (PGSIZE - ArenaSize) \div d

Init == /\ used = {} /\ arena = << >>
        /\ free_list = [d \in BlockSizes |-> << >>]
        /\ blocks = {} /\ moving = << >> /\ overrun = FALSE

-----------------------------------------------------------------------------
(* The page allocator, as Palloc says: the first free group.               *)
Groups(n) == {s \in 0 .. PageCnt - n : \A b \in s .. s + n - 1 : b \notin used}
FirstGroup(n) == CHOOSE s \in Groups(n) : \A t \in Groups(n) : s <= t

(* Slip: a block may be one byte too small.                                *)
Fitting_less(size) == {d \in BlockSizes : d >= size - 1}

Fitting(size) == {d \in BlockSizes : d >= size}
Smallest(S) == CHOOSE d \in S : \A e \in S : d <= e

block_to_arena(b) == b \div PGSIZE

(* Slip: the first block lies on the arena's header.                       *)
arena_to_block_header(a, idx, d) == a * PGSIZE + idx * d

arena_to_block(a, idx, d) == a * PGSIZE + ArenaSize + idx * d

Header(a, h) == [n \in DOMAIN arena \cup {a} |-> IF n = a THEN h ELSE arena[n]]

big_pages(size) == DIV_ROUND_UP(Uint(size + ArenaSize), PGSIZE)

(* A block too big for any descriptor.  The size with the header, and the  *)
(* rounding up, may wrap; for no page palloc_get_multiple returns NULL.    *)
malloc_big(size, asked) ==
  LET n == big_pages(size)
  IN /\ Fitting(size) = {} /\ n # 0 /\ Groups(n) # {}
     /\ LET a == FirstGroup(n)
        IN /\ used' = used \cup (a .. a + n - 1)
           /\ arena' = Header(a, [desc |-> 0, free_cnt |-> n])
           /\ blocks' = blocks \cup {[at |-> a * PGSIZE + ArenaSize, size |-> asked]}
     /\ UNCHANGED free_list

(* A block from a descriptor's list.                                       *)
malloc_listed(size, asked) ==
  /\ Fitting(size) # {}
  /\ LET d == Smallest(Fitting(size))  b == Head(free_list[d])
     IN /\ free_list[d] # << >>
        /\ free_list' = [free_list EXCEPT ![d] = Tail(@)]
        /\ arena' = [arena EXCEPT ![block_to_arena(b)].free_cnt = @ - 1]
        /\ blocks' = blocks \cup {[at |-> b, size |-> asked]}
  /\ UNCHANGED used

(* The list is empty: a new arena, all of whose blocks go on the list; the *)
(* first of them is taken.                                                 *)
malloc_arena(size, asked) ==
  /\ Fitting(size) # {} /\ Groups(1) # {}
  /\ LET d == Smallest(Fitting(size))  a == FirstGroup(1)  n == blocks_per_arena(d)
     IN /\ free_list[d] = << >>
        /\ used' = used \cup {a}
        /\ arena' = Header(a, [desc |-> d, free_cnt |-> n - 1])
        /\ free_list' = [free_list EXCEPT ![d] = [k \in 1 .. n - 1 |-> arena_to_block(a, k, d)]]
        /\ blocks' = blocks \cup {[at |-> arena_to_block(a, 0, d), size |-> asked]}

(* A null pointer is returned for 0 bytes, and when memory is out: nothing *)
(* changes.                                                                *)
Allocate(size, asked) == /\ size # 0 /\ Cardinality(blocks) < MaxBlocks
                         /\ malloc_big(size, asked) \/ malloc_listed(size, asked)
                                                    \/ malloc_arena(size, asked)

malloc(size) == Allocate(size, size) /\ UNCHANGED <<moving, overrun>>

(* The overflow test of calloc compares the product with its factors, and  *)
(* does not notice every product that wraps.                               *)
calloc(a, b) == /\ Uint(a * b) >= a /\ Uint(a * b) >= b
                /\ Allocate(Uint(a * b), a * b) /\ UNCHANGED <<moving, overrun>>

-----------------------------------------------------------------------------
(* The blocks of arena a, of block size d.                                 *)
BlocksOf(a, d) == {arena_to_block(a, k, d) : k \in 0 .. blocks_per_arena(d) - 1}

(* Slip: the arena's blocks stay on the free list.                         *)
NotIn_kept(S, l) == l

NotIn(S, l) == SelectSeq(l, LAMBDA b : b \notin S)

Without(a) == [n \in DOMAIN arena \ {a} |-> arena[n]]

(* Slip: one block too many is waited for.                                 *)
Unused_late(a, d) == arena[a].free_cnt >= blocks_per_arena(d)

(* The arena is entirely unused once the block is back.                    *)
Unused(a, d) == arena[a].free_cnt + 1 >= blocks_per_arena(d)

Release(b) ==
  LET a == block_to_arena(b.at)  d == arena[a].desc
      listed == <<b.at>> \o free_list[d]
  IN IF d = 0
     THEN /\ used' = used \ (a .. a + arena[a].free_cnt - 1)
          /\ arena' = Without(a) /\ UNCHANGED free_list
     ELSE IF Unused(a, d)
     THEN /\ free_list' = [free_list EXCEPT ![d] = NotIn(BlocksOf(a, d), listed)]
          /\ used' = used \ {a} /\ arena' = Without(a)
     ELSE /\ free_list' = [free_list EXCEPT ![d] = listed]
          /\ arena' = [arena EXCEPT ![a].free_cnt = @ + 1]
          /\ UNCHANGED used

free == \E b \in blocks \ ToSet(moving) :
          /\ Release(b) /\ blocks' = blocks \ {b}
          /\ UNCHANGED <<moving, overrun>>

block_size(b) == LET a == block_to_arena(b.at)
                 IN IF arena[a].desc # 0 THEN arena[a].desc
                    ELSE PGSIZE * arena[a].free_cnt - (b.at % PGSIZE)

(* realloc: the new block first; the old one is freed after the copy.  If  *)
(* there is no new block the old one is untouched.                         *)
realloc(size) == /\ moving = << >>
                 /\ Allocate(size, size)
                 /\ \E b \in blocks, c \in blocks' \ blocks : moving' = <<b, c>>
                 /\ UNCHANGED overrun

(* The copy takes what the caller asked for, or the whole old block.  What *)
(* follows when that is more than the new block holds is not modelled.     *)
realloc_free ==
  /\ moving # << >>
  /\ LET old_block == moving[1]  new_block == moving[2]
         min_size == IF new_block.size < block_size(old_block)
                     THEN new_block.size ELSE block_size(old_block)
     IN IF min_size > block_size(new_block)
        THEN overrun' = TRUE /\ UNCHANGED <<used, arena, free_list, blocks, moving>>
        ELSE /\ Release(old_block) /\ blocks' = blocks \ {old_block}
             /\ moving' = << >> /\ UNCHANGED overrun

Next == /\ ~overrun
        /\ \/ \E size \in Sizes : malloc(size) \/ realloc(size)
           \/ \E ab \in Products : calloc(ab[1], ab[2])
           \/ free \/ realloc_free

-----------------------------------------------------------------------------
Bytes(b) == b.at .. b.at + block_size(b) - 1

(* Blocks in use do not overlap each other, a free block or an arena's     *)
(* header, and lie in pages of the heap.                                   *)
BlocksDisjoint ==
  /\ \A b, c \in blocks : b # c => Bytes(b) \cap Bytes(c) = {}
  /\ \A b \in blocks : /\ {x \div PGSIZE : x \in Bytes(b)} \subseteq used
                       /\ \A a \in DOMAIN arena : b.at >= a * PGSIZE + ArenaSize
                                                  \/ b.at + block_size(b) <= a * PGSIZE
  /\ \A d \in BlockSizes : ToSet(free_list[d]) \cap {b.at : b \in blocks} = {}

(* The free lists and the counts of the arenas agree: a list holds exactly *)
(* the blocks of its arenas that are not in use, each once.                *)
FreeListExact ==
  \A d \in BlockSizes :
    LET A == {a \in DOMAIN arena : arena[a].desc = d}
    IN /\ IsInjective(free_list[d])
       /\ ToSet(free_list[d]) = UNION {BlocksOf(a, d) : a \in A} \ {b.at : b \in blocks}
       /\ \A a \in A : arena[a].free_cnt = Cardinality(BlocksOf(a, d) \cap ToSet(free_list[d]))

(* When no block is in use every page is back in the pool (the comment at  *)
(* the head of malloc.c: "give the arena back to the page allocator").     *)
PagesReturned == blocks = {} => used = {}

(* "Obtains and returns a new block of at least SIZE bytes" (malloc): so   *)
(* it is if the size and the header together fit a size_t.  Otherwise the  *)
(* sum wraps, or calloc's product does, and the block may be smaller.      *)
LargeEnoughIfFits ==
  \A b \in blocks : b.size + ArenaSize < WORD_SIZE => block_size(b) >= b.size

(* realloc copies past the new block only when its size did not fit.       *)
OverrunOnlyIfWrapped == overrun => moving[2].size + ArenaSize >= WORD_SIZE
=============================================================================
