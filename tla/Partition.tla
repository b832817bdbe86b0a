------------------------------ MODULE Partition ------------------------------
(***************************************************************************)
(* Partitions of a disk, devices/partition.c: the scan of the partition    *)
(* tables when a disk is found, with a recursive call for every extended   *)
(* partition, and the requests made to a partition afterwards, which pass  *)
(* two checks of block.c on the way to the disk.                           *)
(*                                                                         *)
(* A disk maps its sectors to the table found there, a sequence of entries *)
(* (four in the code), or to NoTable where the signature is wrong.  Sector *)
(* numbers are below WORD_SIZE (2^32) and wrap.                            *)
(***************************************************************************)
EXTENDS Integers, Sequences

CONSTANTS Disks, WORD_SIZE, MaxDepth, NoTable, NoAccess

VARIABLES disk, calls, found, part_nr, access

tables == <<disk, calls, found, part_nr, access>>

\* Sizes and offsets are of type block_sector_t and uint32_t.
Words == 0 .. WORD_SIZE - 1
Entries == [offset : Words, size : Words, type : STRING]
TableConstants ==
  /\ WORD_SIZE \in Nat \ {0}
  /\ \A d \in Disks : /\ Len(d) \in Words
                      /\ \A s \in 1 .. Len(d) : d[s] # NoTable => d[s] \in Seq(Entries)

Uint(x) == x % WORD_SIZE
block_size == Len(disk)
Table(sector) == disk[sector + 1]

(* The table that read_partition_table reads for SECTOR: block_read is     *)
(* passed sector 0, whatever SECTOR is.                                    *)
TableRead(sector) == Table(0)

Call(sector, primary) ==
  [sector |-> sector, primary_extended_sector |-> primary,
   pt |-> IF sector < block_size /\ TableRead(sector) # NoTable
          THEN TableRead(sector) ELSE << >>]

ScanInit == /\ disk \in Disks
        /\ calls = <<Call(0, 0)>>
        /\ found = << >> /\ part_nr = 0 /\ access = NoAccess

-----------------------------------------------------------------------------
(* The loop over the entries of the innermost call's table.                *)
Frame == calls[Len(calls)]
Entry == Head(Frame.pt)
Looking == calls # << >> /\ Frame.pt # << >>
Rest == [calls EXCEPT ![Len(calls)].pt = Tail(@)]

Empty == Entry.size = 0 \/ Entry.type = "none"

ignore_empty == /\ Looking /\ Empty
                /\ calls' = Rest
                /\ UNCHANGED <<disk, found, part_nr, access>>

read_extended == /\ Looking /\ ~Empty /\ Entry.type = "extended"
                 /\ Len(calls) < MaxDepth
                 /\ calls' = Append(Rest,
                      IF Frame.sector = 0
                      THEN Call(Entry.offset, Entry.offset)
                      ELSE Call(Uint(Entry.offset + Frame.primary_extended_sector),
                                Frame.primary_extended_sector))
                 /\ UNCHANGED <<disk, found, part_nr, access>>

(* Slip: the sum that wraps around is not noticed.                         *)
Inside_wrapped(start, size) == start < block_size /\ Uint(start + size) <= block_size

(* found_partition registers the partitions that lie on the disk.          *)
Inside(start, size) == /\ start < block_size
                       /\ Uint(start + size) >= start /\ Uint(start + size) <= block_size

found_partition ==
  LET start == Uint(Entry.offset + Frame.sector)
  IN /\ Looking /\ ~Empty /\ Entry.type # "extended"
     /\ part_nr' = part_nr + 1
     /\ found' = IF Inside(start, Entry.size)
                 THEN Append(found, [start |-> start, size |-> Entry.size,
                                     type |-> Entry.type, nr |-> part_nr'])
                 ELSE found
     /\ calls' = Rest
     /\ UNCHANGED <<disk, access>>

table_done == /\ calls # << >> /\ Frame.pt = << >>
              /\ calls' = SubSeq(calls, 1, Len(calls) - 1)
              /\ UNCHANGED <<disk, found, part_nr, access>>

-----------------------------------------------------------------------------
Scanned == calls = << >>

(* Slip: the sector after the last passes the check.                       *)
check_sector_last(sector, size) == sector <= size

check_sector(sector, size) == sector < size

(* block_read and block_write of a partition, which call block_read and    *)
(* block_write of the disk; a check that fails panics, and so does a write *)
(* to a partition that is not Pintos' own.                                 *)
block_access(op) ==
  /\ Scanned /\ access = NoAccess
  /\ \E n \in 1 .. Len(found) : \E sector \in 0 .. WORD_SIZE - 1 :
       LET b == found[n]  at == Uint(b.start + sector)
       IN access' = [partition |-> n, sector |-> at,
                     refused |-> ~check_sector(sector, b.size) \/ (op = "write" /\ b.type = "foreign"),
                     panic   |-> ~check_sector(at, block_size)]
  /\ UNCHANGED <<disk, calls, found, part_nr>>

ScanNext == \/ ignore_empty \/ read_extended \/ found_partition \/ table_done
        \/ \E op \in {"read", "write"} : block_access(op)

ScanSpec == ScanInit /\ [][ScanNext]_tables

-----------------------------------------------------------------------------
(* Every partition that found_partition registers lies on its disk, as a   *)
(* range of sectors that does not wrap around.                             *)
PartitionsInside == \A n \in 1 .. Len(found) :
                      found[n].size > 0 /\ found[n].start + found[n].size <= block_size

(* A request that a partition accepts reaches a sector of that partition,  *)
(* and passes the disk's own check.                                        *)
AccessInside == access # NoAccess /\ ~access.refused =>
                  LET b == found[access.partition]
                  IN /\ ~access.panic
                     /\ access.sector - b.start \in 0 .. b.size - 1

\* So no request to a partition touches what is outside it.
InsidePartitions == PartitionsInside /\ AccessInside
=============================================================================
