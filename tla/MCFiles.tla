------------------------------- MODULE MCFiles -------------------------------
(***************************************************************************)
(* The file system for TLC, in one of four situations per behaviour:       *)
(*   files: one process creates, extends and removes two files, on every   *)
(*          level of the index and with room for all of it;                *)
(*   full:  one process extends a file on a device that is too small, and  *)
(*          the free map may fail to be written;                           *)
(*   two:   two processes write and read one file;                         *)
(*   race:  two processes write two files.                                 *)
(* A sector holds two bytes, and an inode one direct and two first-level   *)
(* sectors and twice two second-level ones: 14 bytes.                      *)
(***************************************************************************)
EXTENDS Integers, TLC

CONSTANTS p, q, file_a, file_b, NULL

VARIABLES scenario, disk, pc, call, panicked, free, ptr, length, level, state, lock

inodes == <<disk, pc, call, panicked, free, ptr, length, level, state, lock>>

BLOCK_SECTOR_SIZE == 2
FIRST_LEV_INDEX == 1
INDEX_BLOCK_SIZE == 2
SizeT == 1024

\* The writes end on every level, at a boundary between levels and in a sector.
Two_files == INSTANCE Inode WITH
  Procs <- {p}, Inodes <- {file_a, file_b}, Sectors <- 0..23, Creates <- {0, 5},
  Writes <- {<<4, 4>>, <<7, 7>>}, Reads <- {}, MayRemove <- TRUE, MapWriteFails <- FALSE

\* The writes end in the first sector of a level.
Full_disk == INSTANCE Inode WITH
  Procs <- {p}, Inodes <- {file_a}, Sectors <- 0..2, Creates <- {0},
  Writes <- {<<0, 3>>, <<4, 4>>}, Reads <- {}, MayRemove <- TRUE, MapWriteFails <- TRUE

\* Appends of different sizes, and reads of the two halves of a sector.
Two_processes == INSTANCE Inode WITH
  Procs <- {p, q}, Inodes <- {file_a}, Sectors <- 0..11, Creates <- {0},
  Writes <- {<<0, 2>>, <<0, 5>>}, Reads <- {<<0, 1>>, <<1, 1>>},
  MayRemove <- FALSE, MapWriteFails <- FALSE

\* Writes that take two data sectors and an index block.
Two_writers == INSTANCE Inode WITH
  Procs <- {p, q}, Inodes <- {file_a, file_b}, Sectors <- 0..8, Creates <- {0},
  Writes <- {<<0, 3>>}, Reads <- {}, MayRemove <- FALSE, MapWriteFails <- FALSE

InodeInit ==
  \/ scenario = "files" /\ Two_files!Init
  \/ scenario = "full" /\ Full_disk!Init
  \/ scenario = "two" /\ Two_processes!Init
  \/ scenario = "race" /\ Two_writers!Init

InodeNext ==
  /\ \/ scenario = "files" /\ Two_files!Next
     \/ scenario = "full" /\ Full_disk!Next
     \/ scenario = "two" /\ Two_processes!Next
     \/ scenario = "race" /\ Two_writers!Next
  /\ UNCHANGED scenario

\* A process in a call goes on, when what it waits for is there.
InodeSpec ==
  /\ InodeInit /\ [][InodeNext]_<<scenario, inodes>>
  /\ \A r \in {p, q} : WF_inodes(scenario = "two" /\ Two_processes!Step(r))

\* With one process at a time, or with one file: the data slots in use are those of
\* the bytes of the file, whether it grew over the levels of the index, was cut short
\* by a full disk or was removed; and no sector is used twice or free while it is used,
\* unless the disk was full (inode_grow uses what free_map_allocate did not give).
IndexSoundInTurn ==
  /\ scenario = "files" => Two_files!IndexMatchesLength /\ Two_files!SectorsNotShared
  /\ scenario = "full" => Full_disk!IndexMatchesLength
  /\ scenario = "two" => Two_processes!SectorsNotShared

\* With two processes and two files, two slots come to hold one sector only when a bit
\* of the free map is set by two processes that both found it clear: bitmap_scan_and_flip
\* tests the bits and sets them in two steps, and free_map_allocate takes no lock.
SharedOnlyByRace == [][scenario = "race" => Two_writers!SharedByRace]_inodes

\* With one process at a time, files are strings of bytes: what inode_write_at wrote is
\* found through the index, zeros elsewhere, and nothing done to one file shows in the
\* other; and the sectors of a removed file are free again (inode_close,
\* inode_deallocate), except the inner index blocks of the second level, which
\* inode_deallocate does not release.
FileSystem == INSTANCE Files WITH
  Inodes <- {file_a, file_b}, Zero <- 0, Data <- 1, NoFile <- NULL,
  file <- IF scenario = "files" THEN Two_files!Contents ELSE [f \in {file_a, file_b} |-> NULL]
IsFileSystemInTurn ==
  FileSystem!Spec /\ [][scenario = "files" => Two_files!RemoveFreesButInner]_inodes

\* inode_close: "If INODE was also a removed inode, frees its blocks": all of them.
BlocksFreed == [][scenario = "files" => Two_files!RemoveFrees]_inodes

\* A call that has begun returns, unless the kernel stops: inode_grow ends, the lock is
\* given up, nobody takes it again and again as a file grows only so far, and the
\* copying loops make progress.
CallsReturn == \A r \in {p, q} : []<>(scenario # "two" \/ pc[r] = "idle" \/ panicked)
=============================================================================
