-------------------------------- MODULE Inode --------------------------------
(***************************************************************************)
(* The multilevel index of filesys/inode.c and the free map it allocates   *)
(* from (filesys/free-map.c, lib/kernel/bitmap.c): processes write to      *)
(* files, which makes them grow, and files are removed.                    *)
(*                                                                         *)
(* A slot is a place that holds a sector number: a direct pointer of the   *)
(* inode, one of its two index pointers, or an entry of an index block.    *)
(* Growing runs under the lock of its inode; the free map has no lock, and *)
(* between the scan for a free bit and the setting of it others may run.   *)
(* Sizes are those of the code scaled down.                                *)
(***************************************************************************)
EXTENDS Integers, FiniteSetsExt

CONSTANTS
  Procs,
  Inodes,              \* the files created in a behaviour, each once
  Sectors,             \* of the device, numbered
  BLOCK_SECTOR_SIZE, FIRST_LEV_INDEX, INDEX_BLOCK_SIZE,
  Creates,             \* lengths given to inode_create
  Writes, Reads,       \* <<offset, size>> given to inode_write_at and inode_read_at
  MayRemove,           \* whether files are removed
  MapWriteFails,       \* whether writing the free map to its file may fail
  SizeT,               \* size_t and off_t count modulo this
  NULL

Zero == 0
Data == 1

SECOND_LEV_INDEX == FIRST_LEV_INDEX + 1
Index == 0..(INDEX_BLOCK_SIZE - 1)

\* The places that hold a sector number.
Home        == <<"home">>          \* the inode's own sector
DirectSlots == {<<"direct", k>> : k \in 0..(FIRST_LEV_INDEX - 1)}
FirstBlock  == <<"first">>
FirstSlots  == {<<"first", k>> : k \in Index}
SecondBlock == <<"second">>
InnerBlocks == {<<"second", j>> : j \in Index}
SecondSlots == {<<"second", j, k>> : j \in Index, k \in Index}
DataSlots   == DirectSlots \cup FirstSlots \cup SecondSlots
Slots       == DataSlots \cup InnerBlocks \cup {Home, FirstBlock, SecondBlock}

VARIABLES
  free,      \* sectors whose bit is clear in the free map
  disk,      \* contents of the data sectors
  ptr,       \* sector in each slot of each inode, NULL: not assigned
  length,    \* data.length
  level,     \* data.direct_level_index, first_level_index, second_level_index
  state,     \* "new", "made" (by inode_create, under way), "live", "gone"
  lock,      \* holder of inode->lock
  pc, call,  \* a process's progress, its arguments and locals
  panicked

inode_vars == <<ptr, length, level, state>>

NoCall == [inode |-> NULL, offset |-> 0, size |-> 0, sectors |-> 0, found |-> NULL,
           chunk |-> 0, bounce |-> NULL, got |-> {}]

Init ==
  /\ free = Sectors
  /\ disk = [s \in Sectors |-> [k \in 0..(BLOCK_SECTOR_SIZE - 1) |-> Data]]
  /\ ptr = [i \in Inodes |-> [s \in Slots |-> NULL]]
  /\ length = [i \in Inodes |-> 0]
  /\ level = [i \in Inodes |-> [direct |-> 0, first |-> 0, second |-> 0]]
  /\ state = [i \in Inodes |-> "new"]
  /\ lock = [i \in Inodes |-> NULL]
  /\ pc = [p \in Procs |-> "idle"]
  /\ call = [p \in Procs |-> NoCall]
  /\ panicked = FALSE

At(p, label) == ~panicked /\ pc[p] = label
Goto(p, label) == pc' = [pc EXCEPT ![p] = label]
Return(p) == Goto(p, "idle") /\ call' = [call EXCEPT ![p] = NoCall]

bytes_to_sectors(n) == (n + BLOCK_SECTOR_SIZE - 1) \div BLOCK_SECTOR_SIZE

\* off_t and size_t arithmetic: modulo SizeT, off_t read as signed.
off_t(n) == LET m == n % SizeT IN IF m < SizeT \div 2 THEN m ELSE m - SizeT

\* The slot that byte_to_sector takes the sector of byte pos from.
byte_to_slot(pos) ==
  LET n == pos \div BLOCK_SECTOR_SIZE
      m == n - FIRST_LEV_INDEX
      r == m - INDEX_BLOCK_SIZE
  IN  CASE m < 0                           -> <<"direct", n>>
        [] m \in Index                     -> <<"first", m>>
        [] r \in 0..(INDEX_BLOCK_SIZE * INDEX_BLOCK_SIZE - 1)
             -> <<"second", r \div INDEX_BLOCK_SIZE, r % INDEX_BLOCK_SIZE>>

byte_to_sector(i, pos) == ptr[i][byte_to_slot(pos)]

Offset(c) == c.offset % BLOCK_SECTOR_SIZE

\* Bytes of the chunk that a read or a write of process p handles next.
chunk_size(p) ==
  LET c == call[p] IN
  Min({c.size, length[c.inode] - c.offset, BLOCK_SECTOR_SIZE - Offset(c)})

-----------------------------------------------------------------------------
(* inode_grow, for a process in "grow" with call.sectors to add.           *)

\* The level indices after one more data sector.
Advance(v) ==
  CASE v.direct < FIRST_LEV_INDEX -> [v EXCEPT !.direct = @ + 1]
    [] v.direct = FIRST_LEV_INDEX ->
         IF v.first + 1 = INDEX_BLOCK_SIZE THEN [v EXCEPT !.first = 0, !.direct = @ + 1]
                                           ELSE [v EXCEPT !.first = @ + 1]
    [] v.direct = SECOND_LEV_INDEX ->
         IF v.second + 1 = INDEX_BLOCK_SIZE THEN [v EXCEPT !.second = 0, !.first = @ + 1]
                                            ELSE [v EXCEPT !.second = @ + 1]

Full(i) == level[i].direct = SECOND_LEV_INDEX /\ level[i].first = INDEX_BLOCK_SIZE

\* The slots inode_grow fills for the next data sector: the data slot itself,
\* before it the index blocks of which it is the first entry.
NextSlot(i) ==
  LET v == level[i]
      unset(s, else) == IF ptr[i][s] = NULL THEN s ELSE else
  IN  CASE v.direct < FIRST_LEV_INDEX -> <<"direct", v.direct>>
        [] v.direct = FIRST_LEV_INDEX ->
             IF v.first = 0 THEN unset(FirstBlock, <<"first", 0>>) ELSE <<"first", v.first>>
        [] v.direct = SECOND_LEV_INDEX ->
             IF v.second > 0 THEN <<"second", v.first, v.second>>
             ELSE LET inner == unset(<<"second", v.first>>, <<"second", v.first, 0>>)
                  IN  IF v.first = 0 THEN unset(SecondBlock, inner) ELSE inner

\* free_map_allocate: bitmap_scan finds a clear bit ...
bitmap_scan(p) ==
  /\ At(p, "grow") /\ call[p].sectors > 0 /\ ~Full(call[p].inode)
  /\ call' = [call EXCEPT ![p].found = IF free = {} THEN NULL ELSE Min(free)]
  /\ Goto(p, "flip")
  /\ UNCHANGED <<free, disk, inode_vars, lock, panicked>>

\* Slip: the new sector is not filled with zeros.
Store_stale(p, sector) ==
  LET i == call[p].inode
      s == NextSlot(i)
      data == s \in DataSlots
  IN  /\ ptr' = [ptr EXCEPT ![i][s] = sector]
      /\ level' = [level EXCEPT ![i] = IF data THEN Advance(@) ELSE @]
      /\ call' = [call EXCEPT ![p].sectors = @ - (IF data THEN 1 ELSE 0), ![p].found = NULL]
      /\ Goto(p, "grow")
      /\ UNCHANGED disk

\* The slot holds the number of a sector; a data sector is filled with zeros.
Store(p, sector) ==
  LET i == call[p].inode
      s == NextSlot(i)
  IN  /\ ptr' = [ptr EXCEPT ![i][s] = sector]
      /\ IF s \in DataSlots
         THEN /\ disk' = [disk EXCEPT ![sector] = [k \in DOMAIN @ |-> Zero]]
              /\ level' = [level EXCEPT ![i] = Advance(@)]
              /\ call' = [call EXCEPT ![p].sectors = @ - 1, ![p].found = NULL]
         ELSE /\ call' = [call EXCEPT ![p].found = NULL]
              /\ UNCHANGED <<disk, level>>
      /\ Goto(p, "grow")

\* Slip: the bit is not set.
bitmap_flip_clear(p) ==
  /\ At(p, "flip") /\ call[p].found # NULL
  /\ Store(p, call[p].found)
  /\ UNCHANGED <<free, length, state, lock, panicked>>

\* ... and the bit is set.
bitmap_flip(p) ==
  /\ At(p, "flip") /\ call[p].found # NULL
  /\ free' = free \ {call[p].found}
  /\ Store(p, call[p].found)
  /\ UNCHANGED <<length, state, lock, panicked>>

\* There was no clear bit, or the bit is cleared again as the map cannot be
\* written.  free_map_allocate returns false, which no caller looks at: the slot
\* keeps whatever number is in it.  One past the end of the device stops the kernel.
AllocateFails(p) ==
  /\ At(p, "flip") /\ (call[p].found = NULL \/ MapWriteFails)
  /\ \/ \E garbage \in Sectors : Store(p, garbage) /\ UNCHANGED panicked
     \/ panicked' = TRUE /\ UNCHANGED <<disk, ptr, level, pc, call>>
  /\ UNCHANGED <<free, length, state, lock>>

\* What inode_grow returns for the wanted length.
Grown(wanted, sectors) ==
  IF sectors = SizeT - 1 THEN -1 ELSE off_t(wanted - sectors * BLOCK_SECTOR_SIZE)

\* Slip: growing does not stop at the largest size of a file.
GrowEnds_never(p) == At(p, "grow") /\ call[p].sectors = 0

\* It is over.
GrowEnds(p) ==
  LET c == call[p] IN
  /\ At(p, "grow") /\ (c.sectors = 0 \/ Full(c.inode))

-----------------------------------------------------------------------------
(* inode_create.  Its caller, filesys_create, has allocated the sector of  *)
(* the inode itself, and gives up when there is none.                      *)

inode_create(p, i, len) ==
  /\ At(p, "idle") /\ state[i] = "new" /\ free # {}
  /\ ptr' = [ptr EXCEPT ![i][Home] = Min(free)]
  /\ free' = free \ {Min(free)}
  /\ state' = [state EXCEPT ![i] = "made"]
  /\ call' = [call EXCEPT ![p] = [NoCall EXCEPT !.inode = i, !.size = len,
                                                !.sectors = bytes_to_sectors(len)]]
  /\ Goto(p, "grow")
  /\ UNCHANGED <<disk, length, level, lock, panicked>>

\* inode_allocate ignores what inode_grow returns: the length is the one asked for.
CreateEnds(p) ==
  /\ GrowEnds(p) /\ state[call[p].inode] = "made"
  /\ length' = [length EXCEPT ![call[p].inode] = call[p].size]
  /\ state' = [state EXCEPT ![call[p].inode] = "live"]
  /\ Return(p)
  /\ UNCHANGED <<free, disk, ptr, level, lock, panicked>>

-----------------------------------------------------------------------------
(* inode_write_at.                                                         *)

\* Whether the file must grow is decided before the lock is taken.
inode_write_at(p, i, offset, size) ==
  /\ At(p, "idle") /\ state[i] = "live"
  /\ call' = [call EXCEPT ![p] = [NoCall EXCEPT !.inode = i, !.offset = offset, !.size = size]]
  /\ Goto(p, IF offset + size > length[i] THEN "lock" ELSE "write")
  /\ UNCHANGED <<free, disk, inode_vars, lock, panicked>>

\* Slip: the sectors to add are counted from the bytes to add.
lock_acquire_bytes(p) ==
  LET c == call[p] IN
  /\ At(p, "lock") /\ lock[c.inode] = NULL
  /\ lock' = [lock EXCEPT ![c.inode] = p]
  /\ call' = [call EXCEPT ![p].sectors = bytes_to_sectors(c.offset + c.size - length[c.inode])]
  /\ Goto(p, "grow")
  /\ UNCHANGED <<free, disk, inode_vars, panicked>>

\* lock_acquire; the number of sectors to add is an unsigned difference.
lock_acquire(p) ==
  LET c == call[p] IN
  /\ At(p, "lock") /\ lock[c.inode] = NULL
  /\ lock' = [lock EXCEPT ![c.inode] = p]
  /\ call' = [call EXCEPT ![p].sectors =
       (bytes_to_sectors(c.offset + c.size) - bytes_to_sectors(length[c.inode])) % SizeT]
  /\ Goto(p, "grow")
  /\ UNCHANGED <<free, disk, inode_vars, panicked>>

lock_release(p) ==
  LET c == call[p] IN
  /\ GrowEnds(p) /\ lock[c.inode] = p
  /\ length' = [length EXCEPT ![c.inode] = Grown(c.offset + c.size, c.sectors)]
  /\ lock' = [lock EXCEPT ![c.inode] = NULL]
  /\ call' = [call EXCEPT ![p].sectors = 0]
  /\ Goto(p, "write")
  /\ UNCHANGED <<free, disk, ptr, level, state, panicked>>

\* The call after n more bytes.
Advanced(c, n) == [c EXCEPT !.offset = @ + n, !.size = @ - n, !.chunk = 0, !.found = NULL]

\* A sector's contents with the bytes of the chunk replaced.
Merged(sector, c) ==
  [k \in DOMAIN sector |-> IF k \in Offset(c)..(Offset(c) + c.chunk - 1) THEN Data ELSE sector[k]]

\* A whole sector is written directly.
WriteSector(p) ==
  LET c == call[p] IN
  /\ At(p, "write") /\ c.size > 0 /\ chunk_size(p) = BLOCK_SECTOR_SIZE
  /\ disk' = [disk EXCEPT ![byte_to_sector(c.inode, c.offset)] = [k \in DOMAIN @ |-> Data]]
  /\ call' = [call EXCEPT ![p] = Advanced(@, BLOCK_SECTOR_SIZE)]
  /\ UNCHANGED <<free, inode_vars, lock, pc, panicked>>

\* Part of one is read into the bounce buffer ...
WriteFetch(p) ==
  LET c == call[p]
      s == byte_to_sector(c.inode, c.offset)
  IN  /\ At(p, "write") /\ c.size > 0 /\ chunk_size(p) \in 1..(BLOCK_SECTOR_SIZE - 1)
      /\ call' = [call EXCEPT ![p].chunk = chunk_size(p), ![p].found = s, ![p].bounce = disk[s]]
      /\ Goto(p, "store")
      /\ UNCHANGED <<free, disk, inode_vars, lock, panicked>>

\* ... and written back with the new bytes in it.
WriteBack(p) ==
  LET c == call[p] IN
  /\ At(p, "store")
  /\ disk' = [disk EXCEPT ![c.found] = Merged(c.bounce, c)]
  /\ call' = [call EXCEPT ![p] = Advanced(@, c.chunk)]
  /\ Goto(p, "write")
  /\ UNCHANGED <<free, inode_vars, lock, panicked>>

\* All bytes are written, or the next one lies past the end of the file.
WriteEnds(p) ==
  /\ At(p, "write") /\ (call[p].size = 0 \/ chunk_size(p) <= 0)
  /\ Return(p)
  /\ UNCHANGED <<free, disk, inode_vars, lock, panicked>>

-----------------------------------------------------------------------------
(* inode_read_at; got is the set of byte values copied to the caller.      *)

inode_read_at(p, i, offset, size) ==
  /\ At(p, "idle") /\ state[i] = "live"
  /\ call' = [call EXCEPT ![p] = [NoCall EXCEPT !.inode = i, !.offset = offset, !.size = size]]
  /\ Goto(p, "read")
  /\ UNCHANGED <<free, disk, inode_vars, lock, panicked>>

ReadChunk(p) ==
  LET c == call[p]
      n == chunk_size(p)
      sector == disk[byte_to_sector(c.inode, c.offset)]
  IN  /\ At(p, "read") /\ c.size > 0 /\ n > 0
      /\ call' = [call EXCEPT ![p] = [Advanced(@, n) EXCEPT
                    !.got = @ \cup {sector[k] : k \in Offset(c)..(Offset(c) + n - 1)}]]
      /\ UNCHANGED <<free, disk, inode_vars, lock, pc, panicked>>

ReadEnds(p) ==
  /\ At(p, "read") /\ (call[p].size = 0 \/ chunk_size(p) <= 0)
  /\ Return(p)
  /\ UNCHANGED <<free, disk, inode_vars, lock, panicked>>

\* malloc gives no bounce buffer: a read or a write stops at a part of a sector.
NoBounce(p) ==
  /\ At(p, "read") \/ At(p, "write")
  /\ call[p].size > 0 /\ call[p].bounce = NULL
  /\ chunk_size(p) \in 1..(BLOCK_SECTOR_SIZE - 1)
  /\ Return(p)
  /\ UNCHANGED <<free, disk, inode_vars, lock, panicked>>

-----------------------------------------------------------------------------
(* inode_close by the last opener of a removed file.                       *)

\* Slip: the second-level index block is forgotten.
Deallocated_first(i) ==
  LET n == bytes_to_sectors(length[i]) IN
  {byte_to_slot(k * BLOCK_SECTOR_SIZE) : k \in 0..(n - 1)}
    \cup (IF n > FIRST_LEV_INDEX THEN {FirstBlock} ELSE {})

\* The slots whose sectors inode_deallocate releases: data sectors up to the
\* length, and the two index blocks of the inode.
Deallocated(i) ==
  LET n == bytes_to_sectors(length[i]) IN
  {byte_to_slot(k * BLOCK_SECTOR_SIZE) : k \in 0..(n - 1)}
    \cup (IF n > FIRST_LEV_INDEX THEN {FirstBlock} ELSE {})
    \cup (IF n > FIRST_LEV_INDEX + INDEX_BLOCK_SIZE THEN {SecondBlock} ELSE {})

\* free_map_release asserts that the sector is allocated.
inode_close(i) ==
  LET slots == Deallocated(i) \cup {Home} IN
  /\ ~panicked /\ MayRemove
  /\ state[i] = "live" /\ \A p \in Procs : call[p].inode # i
  /\ IF /\ \A s \in slots : ptr[i][s] \in Sectors \ free
        /\ \A s, t \in slots : s # t => ptr[i][s] # ptr[i][t]
     THEN /\ free' = free \cup {ptr[i][s] : s \in slots}
          /\ ptr' = [ptr EXCEPT ![i] = [s \in Slots |-> NULL]]
          /\ length' = [length EXCEPT ![i] = 0]
          /\ level' = [level EXCEPT ![i] = [direct |-> 0, first |-> 0, second |-> 0]]
          /\ state' = [state EXCEPT ![i] = "gone"]
          /\ UNCHANGED panicked
     ELSE panicked' = TRUE /\ UNCHANGED <<free, inode_vars>>
  /\ UNCHANGED <<disk, lock, pc, call>>

-----------------------------------------------------------------------------
Call(p) ==
  \E i \in Inodes :
    \/ \E len \in Creates : inode_create(p, i, len)
    \/ \E w \in Writes : inode_write_at(p, i, w[1], w[2])
    \/ \E r \in Reads : inode_read_at(p, i, r[1], r[2])

Step(p) ==
  \/ lock_acquire(p) \/ bitmap_scan(p) \/ bitmap_flip(p) \/ AllocateFails(p)
  \/ CreateEnds(p) \/ lock_release(p)
  \/ WriteSector(p) \/ WriteFetch(p) \/ WriteBack(p) \/ WriteEnds(p)
  \/ ReadChunk(p) \/ ReadEnds(p) \/ NoBounce(p)

Next == (\E p \in Procs : Call(p) \/ Step(p)) \/ (\E i \in Inodes : inode_close(i))


-----------------------------------------------------------------------------
(* Properties.                                                             *)

\* Once inode_grow is over, the data slots that hold a sector are exactly those
\* that byte_to_sector computes for the bytes of the file: the three level
\* indices, which say where to go on, never drift from the length.
IndexMatchesLength ==
  \A i \in Inodes : state[i] = "live" /\ lock[i] = NULL =>
    {s \in DataSlots : ptr[i][s] # NULL} =
      {byte_to_slot(k * BLOCK_SECTOR_SIZE) : k \in 0..(bytes_to_sectors(length[i]) - 1)}

\* No two slots of any inodes hold the same sector, and none holds a sector that
\* the free map would give away again.
SectorsNotShared ==
  LET used == {u \in Inodes \X Slots : ptr[u[1]][u[2]] # NULL}
      held == {ptr[u[1]][u[2]] : u \in used}
  IN  Cardinality(held) = Cardinality(used) /\ held \cap free = {}

\* Files are strings of bytes (module Files): what is found through the index is
\* what was written, zeros where nothing was, and no operation on one file shows
\* in another.
Contents ==
  [i \in Inodes |->
     IF state[i] # "live" THEN NULL
     ELSE [pos \in 0..(length[i] - 1) |-> disk[byte_to_sector(i, pos)][pos % BLOCK_SECTOR_SIZE]]]

Freed(slots) ==
  \A i \in Inodes : state[i] = "live" /\ state'[i] = "gone" =>
    \A s \in slots : ptr[i][s] # NULL => ptr[i][s] \in free'

\* inode_close: "If INODE was also a removed inode, frees its blocks."
RemoveFrees == Freed(Slots)

\* Removing a file gives back its own sector, its data sectors and the two index
\* blocks that the inode points to, not the inner blocks of the second level.
RemoveFreesButInner == Freed(Slots \ InnerBlocks)

\* A sector gets a second owner, or is free while it is used, only in this way: a
\* process sets the bit it found clear after another has set it.
SharedByRace ==
  SectorsNotShared /\ ~SectorsNotShared' =>
    \E p \in Procs : /\ pc[p] = "flip" /\ call[p].found \in Sectors \ free
                     /\ pc'[p] = "grow"
=============================================================================
